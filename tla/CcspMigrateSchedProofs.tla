------------------------ MODULE CcspMigrateSchedProofs ------------------------
(***************************************************************************)
(* The processes of CcspMigrate, on top of what CcspMigrateProofs proves   *)
(* of its batches: every process is in at most one place (a processor, a   *)
(* mail box, a current batch, a batch somebody will load), so a runnable   *)
(* process is resumed by exactly one scheduler, whoever pulls or steals    *)
(* its batch, and only where its affinity allows.                          *)
(*                                                                         *)
(* A step moves processes from place to place (Moves).  That it keeps them *)
(* apart and that it is a step of Scheduling both follow from where they   *)
(* are moved.                                                              *)
(***************************************************************************)
EXTENDS CcspMigrateProofs

(* A batch that somebody will load, and what it holds. *)
Waits(c) == \E s \in Scheds : c \in LiveBatches(s)
InB(c, p) == Waits(c) /\ p \in ToSet(bat[c].procs)
InCurb(s, p) == p \in ToSet(curb[s].procs)

(* The places a process can be in, and in which of them it waits. *)
Queues == ({"mail", "curb"} \X Scheds) \cup ({"bat"} \X Batches)
Has(x, p) ==
  \/ \E s \in Scheds : x = <<"cur", s>> /\ cur[s] = p
  \/ \E s \in Scheds : x = <<"mail", s>> /\ p \in mail[s]
  \/ \E s \in Scheds : x = <<"curb", s>> /\ InCurb(s, p)
  \/ \E c \in Batches : x = <<"bat", c>> /\ InB(c, p)

(* A process is in one place. *)
Apart == \A p \in Procs : \A x, y : Has(x, p) /\ Has(y, p) => x = y

(* The processes of a current batch, of a pending batch and of any other   *)
(* batch share an affinity that allows its scheduler; those of a batch     *)
(* that others can see have none.                                          *)
Allowed(s, a) == a = {} \/ s \in a
CurbTied(s) ==
  /\ Once(curb[s].procs)
  /\ Allowed(s, curb[s].aff)
  /\ cur[s] # NotProcess => affinity[cur[s]] = curb[s].aff
  /\ \A p \in Procs : InCurb(s, p) => affinity[p] = curb[s].aff
PendTied(s) ==
  /\ Allowed(s, pend[s].aff)
  /\ pend[s].on => \A p \in Procs : p \in ToSet(bat[pend[s].batch].procs) => affinity[p] = pend[s].aff
BatTied(c) ==
  /\ Waits(c) => Once(bat[c].procs)
  /\ \A p, r \in Procs : InB(c, p) /\ InB(c, r) => affinity[p] = affinity[r]
  /\ \A p \in Procs : InB(c, p) => Allowed(c[1], affinity[p]) /\ (bat[c].win # 0 => affinity[p] = {})
ChosenOnly == \A p \in Procs : affinity[p] \in Affinities[p] \cup {{}}
Tied ==
  /\ \A s \in Scheds : CurbTied(s) /\ PendTied(s)
  /\ \A c \in Batches : BatTied(c)
  /\ ChosenOnly

JInv == Apart /\ Tied

-----------------------------------------------------------------------------
(***************************************************************************)
(* Which batches wait.                                                     *)
(***************************************************************************)
(* By owner: a batch waits in the queue of its owner or on its way there   *)
(* while it is in its slot, as the pending batch, after it has been pulled *)
(* or while a thief has it and has not loaded it.                          *)
Lent(c) == \E t \in Scheds : Holds(t, c) /\ pc[t] # "steal_mark"
Lined(v, c) == (c \in Q(v) \/ Adding(v, c)) /\ InSlot(v, c)
Pending(v, c) == pend[v].on /\ pend[v].batch = c
Pulled(v, c) == pc[v] = "pull_clear" /\ job[v] = c
WaitsAt(v, c) == Lined(v, c) \/ Pending(v, c) \/ Pulled(v, c) \/ Lent(c)

(* What scheduler s has that waits. *)
LEMMA LiveIs ==
  ASSUME IInv, NEW s \in Scheds, NEW c \in Batches
  PROVE  c \in LiveBatches(s) <=>
           Lined(s, c) \/ Pending(s, c) \/ Pulled(s, c) \/ (Holds(s, c) /\ pc[s] # "steal_mark")
<1>1. ControlAt(s) /\ c # NoBatch
  BY OwnFacts DEF IInv, Control
<1>2. AddLabels = {"add_state", "add_mw"} /\ "pull_clear" \notin AddLabels \cup ThiefLabels
      /\ AddLabels \cap ThiefLabels = {}
  BY DEF AddLabels, ThiefLabels
<1>3. JobLive(s) /\ job[s] = c <=>
        (Adding(s, c) /\ InSlot(s, c)) \/ Pulled(s, c) \/ (Holds(s, c) /\ pc[s] # "steal_mark")
  <2>1. CASE job[s] # c
    BY <2>1 DEF Adding, Pulled, Holds
  <2>2. CASE job[s] = c /\ pc[s] \in AddLabels
    <3>1. JobLive(s) <=> InSlot(s, c)
      BY <1>1, <1>2, <2>2 DEF JobLive
    <3> QED BY <1>2, <2>2, <3>1 DEF Adding, Pulled, Holds
  <2>3. CASE job[s] = c /\ pc[s] \notin AddLabels
    <3>1. JobLive(s) <=> pc[s] # "steal_mark"
      BY <1>1, <1>2, <2>3 DEF JobLive
    <3>2. pc[s] \in {"pull_clear"} \cup ThiefLabels
      BY <1>1, <2>3 DEF ControlAt, OwnLabels
    <3> QED BY <1>1, <1>2, <2>3, <3>1, <3>2 DEF Adding, Pulled, Holds
  <2> QED BY <2>1, <2>2, <2>3
<1>4. c \in LiveBatches(s) <=>
        (c \in Q(s) /\ InSlot(s, c)) \/ Pending(s, c) \/ (JobLive(s) /\ job[s] = c)
  BY DEF LiveBatches, Q, Pending
<1> QED BY <1>3, <1>4 DEF Lined

(* Only batches wait. *)
LEMMA LiveTypes ==
  ASSUME IInv, NEW s \in Scheds
  PROVE  LiveBatches(s) \subseteq Batches
<1>1. Types /\ BatchesAt(s) /\ Own(s) \subseteq Batches
  BY OwnFacts DEF IInv, Kept
<1>2. Q(s) \subseteq Batches /\ pend[s].batch \in Batches
  BY <1>1 DEF BatchesAt, OwnedAt
<1>3. JobLive(s) => job[s] \in Batches
  <2>1. job[s] = NoBatch => pc[s] \notin {"add_state", "add_mw"}
    BY DEF IInv, Control, ControlAt, OwnLabels, AddLabels
  <2> QED BY <1>1, <2>1 DEF JobLive, Types
<1> QED BY <1>2, <1>3 DEF LiveBatches, Q

(* A batch that waits, waits at its owner's or with a thief, and holds     *)
(* processes.                                                              *)
LEMMA WaitsIs ==
  IInv => \A v \in Scheds : \A c \in Own(v) : /\ Waits(c) <=> WaitsAt(v, c)
                                              /\ Waits(c) => Good(bat[c].procs)
<1> SUFFICES ASSUME IInv, NEW v \in Scheds, NEW c \in Own(v)
             PROVE  /\ Waits(c) <=> WaitsAt(v, c)
                    /\ Waits(c) => Good(bat[c].procs)
  OBVIOUS
<1>1. c \in Batches
  BY OwnFacts
<1>2. ASSUME NEW s \in Scheds, Lined(s, c) \/ Pending(s, c) \/ Pulled(s, c) PROVE s = v
  <2>1. BatchesAt(s)
    BY DEF IInv, Kept
  <2>2. c \in Own(s)
    BY <1>2, <2>1 DEF BatchesAt, OwnedAt, Lined, Pending, Pulled, Adding, OwnLabels
  <2> QED BY <1>1, <2>2, OwnFacts
<1>3. Waits(c) <=> WaitsAt(v, c)
  BY <1>1, <1>2, LiveIs DEF Waits, WaitsAt, Lent
<1>4. WaitsAt(v, c) => Good(bat[c].procs)
  <2>1. BatchesAt(v)
    BY DEF IInv, Kept
  <2>2. Lined(v, c) => Good(bat[c].procs)
    BY <2>1 DEF BatchesAt, LinedAt, Lined, Adding
  <2>3. Pending(v, c) => Good(bat[c].procs)
    BY <2>1 DEF BatchesAt, StockedAt, Pending
  <2>4. Pulled(v, c) => Good(bat[c].procs)
    BY <2>1 DEF BatchesAt, LinedAt, Pulled
  <2>5. Lent(c) => Good(bat[c].procs)
    BY <1>1 DEF Lent, IInv, Stolen, StolenBy
  <2> QED BY <2>2, <2>3, <2>4, <2>5 DEF WaitsAt
<1> QED BY <1>3, <1>4

(* The same after a step. *)
LEMMA WaitsNext ==
  IInv' => \A v \in Scheds : \A c \in Own(v) : /\ Waits(c)' <=> WaitsAt(v, c)'
                                               /\ Waits(c)' => Good(bat'[c].procs)
<1>1. (IInv => \A v \in Scheds : \A c \in Own(v) : /\ Waits(c) <=> WaitsAt(v, c)
                                                   /\ Waits(c) => Good(bat[c].procs))'
  BY WaitsIs, PTL
<1> QED BY <1>1 DEF Own

(* A process is runnable if it is in a queue. *)
LEMMA RunnableIs ==
  IInv => \A p \in Procs : Runnable(p) <=> \E x \in Queues : Has(x, p)
<1> SUFFICES ASSUME IInv, NEW p \in Procs
             PROVE  Runnable(p) <=> \E x \in Queues : Has(x, p)
  OBVIOUS
<1>1. \A s \in Scheds : LiveBatches(s) \subseteq Batches
  BY LiveTypes
<1>2. \A c : InBatch(p, c) <=> p \in ToSet(bat[c].procs)
  BY DEF InBatch, ToSet
<1>3. Runnable(p) <=> \/ \E s \in Scheds : p \in mail[s] \/ InCurb(s, p)
                      \/ \E c \in Batches : InB(c, p)
  BY <1>1, <1>2 DEF Runnable, InCurb, InB, Waits
<1>4. \A x \in Queues : Has(x, p) <=> \/ \E s \in Scheds : x = <<"mail", s>> /\ p \in mail[s]
                                      \/ \E s \in Scheds : x = <<"curb", s>> /\ InCurb(s, p)
                                      \/ \E c \in Batches : x = <<"bat", c>> /\ InB(c, p)
  BY DEF Has, Queues
<1>5. /\ \A s \in Scheds : <<"mail", s>> \in Queues /\ <<"curb", s>> \in Queues
      /\ \A c \in Batches : <<"bat", c>> \in Queues
  BY DEF Queues
<1> QED BY <1>3, <1>4, <1>5

(* The same after a step. *)
LEMMA RunnableNext ==
  IInv' => \A p \in Procs : Runnable(p)' <=> \E x \in Queues : Has(x, p)'
<1>1. (IInv => \A p \in Procs : Runnable(p) <=> \E x \in Queues : Has(x, p))'
  BY RunnableIs, PTL
<1> QED BY <1>1 DEF Queues, Batches

-----------------------------------------------------------------------------
(***************************************************************************)
(* Moving processes.                                                       *)
(***************************************************************************)
(* The processes of M move, each to its place in D; the others stay.       *)
MovesTo(M, D, x, p, was) == IF p \in M THEN D[p] = x ELSE was
Moves(M, D) ==
  \A p \in Procs :
    /\ \A t \in Scheds : cur'[t] = p <=> MovesTo(M, D, <<"cur", t>>, p, cur[t] = p)
    /\ \A t \in Scheds : p \in mail'[t] <=> MovesTo(M, D, <<"mail", t>>, p, p \in mail[t])
    /\ \A t \in Scheds : InCurb(t, p)' <=> MovesTo(M, D, <<"curb", t>>, p, InCurb(t, p))
    /\ \A c \in Batches : InB(c, p)' <=> MovesTo(M, D, <<"bat", c>>, p, InB(c, p))

(* Processes stay apart, and those that are moved to a queue are runnable. *)
LEMMA MoveStep ==
  ASSUME IInv, IInv', Apart, NEW M, NEW D, Moves(M, D)
  PROVE  /\ Apart'
         /\ \A p \in Procs : Runnable(p)' <=> IF p \in M THEN D[p] \in Queues ELSE Runnable(p)
<1>1. ASSUME NEW p \in Procs, NEW x
      PROVE  /\ p \notin M => (Has(x, p)' <=> Has(x, p))
             /\ p \in M => (Has(x, p)' => x = D[p])
  BY <1>1 DEF Moves, MovesTo, Has
<1>2. ASSUME NEW p \in Procs, p \in M, D[p] \in Queues
      PROVE  Has(D[p], p)'
  <2>1. \/ \E t \in Scheds : D[p] = <<"mail", t>> \/ D[p] = <<"curb", t>>
        \/ \E c \in Batches : D[p] = <<"bat", c>>
    BY <1>2 DEF Queues
  <2> QED BY <1>2, <2>1 DEF Moves, MovesTo, Has
<1>3. Apart'
  BY <1>1 DEF Apart
<1>4. \A p \in Procs : Runnable(p) <=> \E x \in Queues : Has(x, p)
  BY RunnableIs
<1>5. \A p \in Procs : Runnable(p)' <=> \E x \in Queues : Has(x, p)'
  BY RunnableNext
<1> QED BY <1>1, <1>2, <1>3, <1>4, <1>5

(* A step of Scheduling, or none. *)
AbsStep == [Abstract!Next]_(Abstract!vars)

(* A process that is nowhere becomes runnable. *)
LEMMA AbsEnqueue ==
  ASSUME NEW p \in Procs, Blocked(p), UNCHANGED cur,
         \A r \in Procs : Runnable(r)' <=> IF r = p THEN TRUE ELSE Runnable(r)
  PROVE  AbsStep
<1>1. {r \in Procs : Runnable(r)'} = {r \in Procs : Runnable(r)} \cup {p}
  OBVIOUS
<1>2. Abstract!Enqueue(p)
  BY <1>1 DEF Blocked, Abstract!Enqueue, Abstract!Idle
<1> QED BY <1>2 DEF AbsStep, Abstract!Next

(* A runnable process is run. *)
LEMMA AbsDispatch ==
  ASSUME NEW s \in Scheds, NEW p \in Procs, Runnable(p), cur[s] = NotProcess,
         cur' = [cur EXCEPT ![s] = p],
         \A r \in Procs : Runnable(r)' <=> IF r = p THEN FALSE ELSE Runnable(r)
  PROVE  AbsStep
<1>1. {r \in Procs : Runnable(r)'} = {r \in Procs : Runnable(r)} \ {p}
  OBVIOUS
<1>2. Abstract!Dispatch(s, p)
  BY <1>1 DEF Abstract!Dispatch
<1> QED BY <1>2 DEF AbsStep, Abstract!Next

(* The running process leaves, and is runnable or not. *)
LEMMA AbsLeave ==
  ASSUME NEW s \in Scheds, NEW p \in Procs, cur[s] = p, p # NotProcess, ~Runnable(p),
         cur' = [cur EXCEPT ![s] = NotProcess], NEW queue \in BOOLEAN,
         \A r \in Procs : Runnable(r)' <=> IF r = p THEN queue ELSE Runnable(r)
  PROVE  AbsStep
<1>1. CASE queue
  <2>1. {r \in Procs : Runnable(r)'} = {r \in Procs : Runnable(r)} \cup {p}
    BY <1>1
  <2>2. Abstract!Requeue(s)
    BY <2>1 DEF Abstract!Requeue
  <2> QED BY <2>2 DEF AbsStep, Abstract!Next
<1>2. CASE ~queue
  <2>1. {r \in Procs : Runnable(r)'} = {r \in Procs : Runnable(r)}
    BY <1>2
  <2>2. Abstract!Deschedule(s)
    BY <2>1 DEF Abstract!Deschedule
  <2> QED BY <2>2 DEF AbsStep, Abstract!Next
<1> QED BY <1>1, <1>2

(* Nothing happens that Scheduling can see. *)
LEMMA AbsStutter ==
  ASSUME UNCHANGED cur, \A r \in Procs : Runnable(r)' <=> Runnable(r)
  PROVE  AbsStep
<1>1. {r \in Procs : Runnable(r)'} = {r \in Procs : Runnable(r)}
  OBVIOUS
<1> QED BY <1>1 DEF AbsStep, Abstract!vars

-----------------------------------------------------------------------------
(***************************************************************************)
(* Steps that move nobody.                                                 *)
(***************************************************************************)
(* A batch waits, with the processes it has, as before.                    *)
BatKept(c) ==
  /\ Waits(c)' <=> Waits(c)
  /\ Waits(c) => bat'[c].procs = bat[c].procs /\ (bat'[c].win # 0 => bat[c].win # 0)

(* It still has one affinity. *)
LEMMA BatTiedKept ==
  ASSUME NEW c \in Batches, BatTied(c), BatKept(c),
         \A p \in Procs : InB(c, p) => affinity'[p] = affinity[p]
  PROVE  BatTied(c)' /\ \A p \in Procs : InB(c, p)' <=> InB(c, p)
<1>1. \A p \in Procs : InB(c, p)' <=> InB(c, p)
  BY DEF BatKept, InB
<1>2. CASE Waits(c)
  BY <1>1, <1>2 DEF BatTied, BatKept
<1>3. CASE ~Waits(c)
  BY <1>1, <1>3 DEF BatTied, BatKept, InB
<1> QED BY <1>1, <1>2, <1>3

(* A pending batch in use waits. *)
LEMMA PendWaits ==
  ASSUME IInv, NEW t \in Scheds
  PROVE  /\ pend[t].batch \in Batches /\ pend[t].batch \in Own(t)
         /\ pend[t].on => Waits(pend[t].batch)
<1>1. pend[t].batch \in Own(t)
  BY DEF IInv, Kept, BatchesAt, OwnedAt
<1>2. pend[t].on => WaitsAt(t, pend[t].batch)
  BY DEF WaitsAt, Pending
<1> QED BY <1>1, <1>2, OwnFacts, WaitsIs

(* Its affinity is that of its processes as long as it is the pending one. *)
LEMMA PendTiedKept ==
  ASSUME IInv, NEW t \in Scheds, PendTied(t), pend'[t] = pend[t], BatKept(pend[t].batch),
         \A p \in Procs : InB(pend[t].batch, p) => affinity'[p] = affinity[p]
  PROVE  PendTied(t)'
<1>1. pend[t].on => Waits(pend[t].batch)
  BY PendWaits
<1>2. CASE pend[t].on
  BY <1>1, <1>2 DEF PendTied, BatKept, InB
<1>3. CASE ~pend[t].on
  BY <1>3 DEF PendTied
<1> QED BY <1>2, <1>3

(* Nobody moves. *)
LEMMA StillStep ==
  ASSUME IInv, IInv', JInv, UNCHANGED <<cur, mail, affinity>>,
         \A t \in Scheds : curb'[t].procs = curb[t].procs /\ curb'[t].aff = curb[t].aff /\ pend'[t] = pend[t],
         \A c \in Batches : BatKept(c)
  PROVE  JInv' /\ AbsStep
<1>1. Apart /\ Tied
  BY DEF JInv
<1>2. \A c \in Batches : BatTied(c)' /\ \A p \in Procs : InB(c, p)' <=> InB(c, p)
  BY <1>1, BatTiedKept DEF Tied
<1>3. \A t \in Scheds, p \in Procs : InCurb(t, p)' <=> InCurb(t, p)
  BY DEF InCurb
<1>4. Moves({}, << >>)
  BY <1>2, <1>3 DEF Moves, MovesTo
<1>5. Apart' /\ \A p \in Procs : Runnable(p)' <=> Runnable(p)
  BY <1>1, <1>4, MoveStep
<1>6. AbsStep
  BY <1>5, AbsStutter
<1>7. ASSUME NEW t \in Scheds PROVE CurbTied(t)' /\ PendTied(t)'
  <2>1. CurbTied(t) /\ PendTied(t)
    BY <1>1 DEF Tied
  <2>2. CurbTied(t)'
    BY <1>3, <2>1 DEF CurbTied
  <2>3. PendTied(t)'
    BY <2>1, PendWaits, PendTiedKept
  <2> QED BY <2>2, <2>3
<1>8. Tied'
  BY <1>1, <1>2, <1>7 DEF Tied, ChosenOnly
<1> QED BY <1>5, <1>6, <1>8 DEF JInv

(* Batches wait as before if they wait by owner as before. *)
LEMMA KeptByOwner ==
  ASSUME IInv, IInv',
         \A v \in Scheds : \A c \in Own(v) :
           /\ WaitsAt(v, c)' <=> WaitsAt(v, c)
           /\ WaitsAt(v, c) => bat'[c].procs = bat[c].procs /\ (bat'[c].win # 0 => bat[c].win # 0)
  PROVE  \A c \in Batches : BatKept(c)
<1> SUFFICES ASSUME NEW c \in Batches PROVE BatKept(c)
  OBVIOUS
<1>1. PICK v \in Scheds : c \in Own(v)
  BY DEF Batches, Own
<1>2. (Waits(c) <=> WaitsAt(v, c)) /\ (Waits(c)' <=> WaitsAt(v, c)')
  BY <1>1, WaitsIs, WaitsNext
<1> QED BY <1>1, <1>2 DEF BatKept

(* A scheduler goes from one label to another. *)
Passes(s) ==
  /\ UNCHANGED <<pend, rq, job, slot, bat>>
  /\ \A t \in Scheds : t # s => pc'[t] = pc[t]
  /\ pc'[s] \in AddLabels <=> pc[s] \in AddLabels
  /\ pc'[s] = "pull_clear" <=> pc[s] = "pull_clear"
  /\ job[s] # NoBatch => (pc'[s] \in ThiefLabels \ {"steal_mark"} <=> pc[s] \in ThiefLabels \ {"steal_mark"})

(* All batches wait as before. *)
LEMMA PassesKept ==
  ASSUME IInv, IInv', NEW s \in Scheds, Passes(s)
  PROVE  \A c \in Batches : BatKept(c)
<1>1. ASSUME NEW v \in Scheds, NEW c \in Own(v)
      PROVE  WaitsAt(v, c)' <=> WaitsAt(v, c)
  <2>1. Lined(v, c)' <=> Lined(v, c)
    BY DEF Passes, Lined, Adding, Q, InSlot
  <2>2. Pending(v, c)' <=> Pending(v, c)
    BY DEF Passes, Pending
  <2>3. Pulled(v, c)' <=> Pulled(v, c)
    BY DEF Passes, Pulled
  <2>4. ASSUME NEW t \in Scheds
        PROVE  (Holds(t, c) /\ pc[t] # "steal_mark")' <=> Holds(t, c) /\ pc[t] # "steal_mark"
    <3>1. CASE t # s
      BY <3>1 DEF Passes, Holds
    <3>2. CASE t = s
      BY <3>2 DEF Passes, Holds
    <3> QED BY <3>1, <3>2
  <2>5. Lent(c)' <=> Lent(c)
    BY <2>4 DEF Lent
  <2> QED BY <2>1, <2>2, <2>3, <2>5 DEF WaitsAt
<1>2. bat' = bat
  BY DEF Passes
<1> QED BY <1>1, <1>2, KeptByOwner

(* Steps on shared words of the migration windows, and back to the loop of *)
(* migrate_some_work.                                                      *)
LEMMA LookMoves ==
  ASSUME IInv, IInv', JInv, NEW s \in Scheds, NEW v \in Scheds,
         \/ AddState(s) \/ PickNone(s) \/ StartMigrate(s) \/ NoWork(s, v) \/ TryMigrate(s, v)
         \/ MigrateBit(s) \/ MigrateEnd(s) \/ MigrateMw(s)
  PROVE  JInv' /\ AbsStep
<1>1. Types /\ ControlAt(s)
  BY DEF IInv, Control
<1>2. UNCHANGED <<cur, mail, affinity, curb, pend, rq, job, slot, bat>>
  BY DEF AddState, PickNone, StartMigrate, NoWork, TryMigrate, MigrateBit, MigrateEnd, MigrateMw,
         schedVars, queueVars, windowVars
<1>3. \/ Goto(s, "add_mw") /\ pc[s] = "add_state"
      \/ (\E l \in {"pick", "migrate", "mig_bit", "mig_slot", "mig_end"} : Goto(s, l)) /\ pc[s] \in {"sched", "pick", "migrate", "mig_bit"}
      \/ (\E l \in {"mig_mw", "steal_load"} : Goto(s, l)) /\ pc[s] \in {"mig_end", "mig_mw"}
      \/ Goto(s, "migrate") /\ pc[s] \in {"mig_end", "mig_mw"} /\ job[s] = NoBatch
      \/ UNCHANGED pc
  BY DEF AddState, PickNone, StartMigrate, NoWork, TryMigrate, MigrateBit, MigrateEnd, MigrateMw,
         Migrated, Picks, AtTop
<1>4. pc[s] \in {"sched", "pick", "migrate", "mig_bit"} => job[s] = NoBatch
  BY <1>1 DEF ControlAt, OwnLabels, AddLabels, ThiefLabels
<1>5. Passes(s)
  BY <1>1, <1>2, <1>3, <1>4 DEF Passes, Types, Goto, AddLabels, ThiefLabels
<1> QED BY <1>2, <1>5, PassesKept, StillStep

(* A batch is added to the queue of its owner. *)
LEMMA AddMwMoves ==
  ASSUME IInv, IInv', JInv, NEW s \in Scheds, AddMw(s)
  PROVE  JInv' /\ AbsStep
<1>1. Types /\ ControlAt(s) /\ BatchesAt(s)
  BY DEF IInv, Control, Kept
<1>2. /\ pc[s] = "add_mw" /\ Goto(s, ret[s]) /\ rq' = [rq EXCEPT ![s] = Append(@, job[s])]
      /\ job' = [job EXCEPT ![s] = NoBatch]
      /\ UNCHANGED <<cur, mail, affinity, curb, pend, slot, bat>>
  BY DEF AddMw, AddLocal, schedVars
<1>3. PICK l \in HomeLabels : l = ret[s]
  BY <1>1 DEF Types
<1>4. /\ pc'[s] \notin OwnLabels \cup AddLabels \cup ThiefLabels /\ pc'[s] # "pull_clear"
      /\ \A t \in Scheds : t # s => pc'[t] = pc[t]
  <2>1. l \notin OwnLabels \cup AddLabels \cup ThiefLabels /\ l \in Labels /\ Goto(s, l) /\ l # "pull_clear"
    BY <1>2, <1>3, HomeKinds
  <2> QED BY <1>1, <2>1, GotoPc
<1>5. PICK b \in Batches : b = job[s]
  BY <1>1, <1>2 DEF Types, ControlAt, OwnLabels, AddLabels
<1>6. /\ Q(s)' = Q(s) \cup {b} /\ \A t \in Scheds : t # s => Q(t)' = Q(t)
      /\ job'[s] = NoBatch /\ \A t \in Scheds : t # s => job'[t] = job[t]
  <2>1. rq[s] \in Seq(Batches)
    BY <1>1 DEF Types
  <2>2. ToSet(Append(rq[s], b)) = ToSet(rq[s]) \cup {b}
    BY <2>1, AppendOnce
  <2> QED BY <1>1, <1>2, <1>5, <2>2 DEF Q, Types
<1>7. ASSUME NEW v \in Scheds, NEW c \in Own(v)
      PROVE  WaitsAt(v, c)' <=> WaitsAt(v, c)
  <2>1. c \in Batches /\ c # NoBatch
    BY OwnFacts
  <2>2. InSlot(v, c)' <=> InSlot(v, c)
    BY <1>2 DEF InSlot
  <2>3. Lined(v, c)' <=> Lined(v, c)
    <3>1. CASE v # s
      BY <1>4, <1>6, <2>2, <3>1 DEF Lined, Adding
    <3>2. CASE v = s
      BY <1>2, <1>4, <1>5, <1>6, <2>2, <3>2 DEF Lined, Adding, AddLabels
    <3> QED BY <3>1, <3>2
  <2>4. Pending(v, c)' <=> Pending(v, c)
    BY <1>2 DEF Pending
  <2>5. Pulled(v, c)' <=> Pulled(v, c)
    BY <1>2, <1>4, <1>6 DEF Pulled
  <2>6. \A t \in Scheds : Holds(t, c)' /\ pc'[t] # "steal_mark" <=> Holds(t, c) /\ pc[t] # "steal_mark"
    <3>1. pc[s] \notin ThiefLabels
      BY <1>2 DEF ThiefLabels
    <3> QED BY <1>4, <1>6, <3>1 DEF Holds
  <2>7. Lent(c)' <=> Lent(c)
    BY <2>6 DEF Lent
  <2> QED BY <2>3, <2>4, <2>5, <2>7 DEF WaitsAt
<1> QED BY <1>2, <1>7, KeptByOwner, StillStep

(* A batch is pulled out of the queue and its slot; one that has been      *)
(* stolen does not wait at its owner's.                                    *)
LEMMA PullVisibleMoves ==
  ASSUME IInv, IInv', JInv, NEW s \in Scheds, PullVisible(s)
  PROVE  JInv' /\ AbsStep
<1>1. Types /\ ControlAt(s) /\ BatchesAt(s)
  BY DEF IInv, Control, Kept
<1>2. PICK b : b = Head(rq[s])
  OBVIOUS
<1>3. PICK w : w = bat[b].win
  OBVIOUS
<1>4. /\ pc[s] \in {"sched", "pick"} /\ rq[s] # << >> /\ w # 0
      /\ rq' = [rq EXCEPT ![s] = Tail(@)]
      /\ UNCHANGED <<cur, curb, affinity, mail, pend, bat>>
  BY <1>2, <1>3 DEF PullVisible, Picks, AtTop, schedVars
<1>5. /\ Q(s)' = Q(s) \ {b} /\ b \in Q(s) /\ b \in Own(s) /\ b \in Batches /\ b # NoBatch
      /\ \A t \in Scheds : t # s => Q(t)' = Q(t)
  BY <1>2, <1>4, FirstBatch, OwnFacts DEF Q
<1>6. w \in Slots
  <2>1. bat[b] \in BatSet
    BY <1>1, <1>5 DEF Types
  <2> QED BY <1>3, <1>4, <2>1, MigrateAssumption DEF BatSet, Slots
<1>7. pc[s] \notin OwnLabels \cup AddLabels \cup ThiefLabels /\ pc[s] # "pull_clear" /\ job[s] = NoBatch
  BY <1>1, <1>4 DEF OwnLabels, AddLabels, ThiefLabels, ControlAt
<1>8. /\ \A v \in Scheds, c \in Batches : Pending(v, c)' <=> Pending(v, c)
      /\ bat' = bat
  BY <1>4 DEF Pending
<1>9. CASE slot[s][w] = b
  <2>1. /\ slot' = [slot EXCEPT ![s][w] = NoBatch] /\ job' = [job EXCEPT ![s] = b]
        /\ Goto(s, "pull_clear")
    BY <1>2, <1>3, <1>9 DEF PullVisible
  <2>2. /\ slot'[s][w] = NoBatch
        /\ \A t \in Scheds : t # s => slot'[t] = slot[t]
        /\ \A k \in Slots : k # w => slot'[s][k] = slot[s][k]
        /\ job'[s] = b /\ \A t \in Scheds : t # s => job'[t] = job[t]
    BY <1>1, <1>5, <1>6, <2>1 DEF Types
  <2>3. /\ pc'[s] = "pull_clear" /\ \A t \in Scheds : t # s => pc'[t] = pc[t]
    BY <1>1, <2>1, GotoPc DEF Labels, OwnLabels
  <2>4. pc'[s] \notin AddLabels \cup ThiefLabels
    BY <2>3 DEF AddLabels, ThiefLabels
  <2>5. ASSUME NEW v \in Scheds, NEW c \in Own(v)
        PROVE  WaitsAt(v, c)' <=> WaitsAt(v, c)
    <3>1. c \in Batches /\ c # NoBatch /\ (bat[c].win # 0 => bat[c].win \in Slots)
      <4>1. c \in Batches /\ c # NoBatch /\ bat[c] \in BatSet
        BY <1>1, OwnFacts DEF Types
      <4> QED BY <4>1, MigrateAssumption DEF BatSet, Slots
    <3>2. c # b => (InSlot(v, c)' <=> InSlot(v, c))
      BY <1>4, <1>9, <2>2, <3>1 DEF InSlot
    <3>3. \A t \in Scheds : Holds(t, c)' <=> Holds(t, c)
      BY <1>7, <2>2, <2>3, <2>4 DEF Holds
    <3>4. \A t \in Scheds : Holds(t, c) => pc'[t] = pc[t]
      BY <1>7, <2>3 DEF Holds
    <3>5. Lent(c)' <=> Lent(c)
      BY <3>3, <3>4 DEF Lent
    <3>6. CASE v # s
      <4>1. c # b
        BY <1>5, <3>1, <3>6, OwnFacts
      <4> QED BY <1>5, <1>8, <2>2, <2>3, <3>1, <3>2, <3>5, <3>6, <4>1
              DEF WaitsAt, Lined, Adding, Pulled
    <3>7. CASE v = s /\ c # b
      BY <1>5, <1>7, <1>8, <2>2, <2>4, <3>1, <3>2, <3>5, <3>7 DEF WaitsAt, Lined, Adding, Pulled
    <3>8. CASE v = s /\ c = b
      BY <1>3, <1>5, <1>9, <2>2, <2>3, <3>8 DEF WaitsAt, Lined, Pulled, InSlot
    <3> QED BY <3>6, <3>7, <3>8
  <2> QED BY <1>4, <1>8, <2>5, KeptByOwner, StillStep
<1>10. CASE slot[s][w] # b
  <2>1. UNCHANGED <<slot, job>> /\ Goto(s, "pick")
    BY <1>2, <1>3, <1>10 DEF PullVisible
  <2>2. pc'[s] = "pick" /\ \A t \in Scheds : t # s => pc'[t] = pc[t]
    BY <1>1, <2>1, GotoPc DEF Labels, HomeLabels
  <2>3. pc'[s] \notin AddLabels \cup ThiefLabels /\ pc'[s] # "pull_clear"
    BY <2>2 DEF AddLabels, ThiefLabels
  <2>4. ASSUME NEW v \in Scheds, NEW c \in Own(v)
        PROVE  WaitsAt(v, c)' <=> WaitsAt(v, c)
    <3>1. InSlot(v, c)' <=> InSlot(v, c)
      BY <1>4, <2>1 DEF InSlot
    <3>2. Pulled(v, c)' <=> Pulled(v, c)
      BY <1>7, <2>1, <2>2, <2>3 DEF Pulled
    <3>3. \A t \in Scheds : /\ Holds(t, c)' <=> Holds(t, c)
                            /\ Holds(t, c) => pc'[t] = pc[t]
      BY <1>7, <2>1, <2>2, <2>3 DEF Holds
    <3>4. Lent(c)' <=> Lent(c)
      BY <3>3 DEF Lent
    <3>5. Lined(v, c)' <=> Lined(v, c)
      <4>1. CASE v # s
        BY <1>5, <2>1, <2>2, <3>1, <4>1 DEF Lined, Adding
      <4>2. CASE v = s
        <5>1. c = b => ~InSlot(s, b)
          BY <1>3, <1>4, <1>10 DEF InSlot
        <5> QED BY <1>5, <1>7, <2>3, <3>1, <4>2, <5>1 DEF Lined, Adding
      <4> QED BY <4>1, <4>2
    <3>6. c \in Batches
      BY OwnFacts
    <3> QED BY <1>8, <3>2, <3>4, <3>5, <3>6 DEF WaitsAt
  <2> QED BY <1>4, <1>8, <2>4, KeptByOwner, StillStep
<1> QED BY <1>9, <1>10

(* A thief takes a batch out of its slot: it waits with the thief now.     *)
LEMMA MigrateSlotMoves ==
  ASSUME IInv, IInv', JInv, NEW s \in Scheds, MigrateSlot(s)
  PROVE  JInv' /\ AbsStep
<1>1. Types /\ ControlAt(s)
  BY DEF IInv, Control
<1>2. /\ pc[s] = "mig_slot"
      /\ UNCHANGED <<cur, affinity, mail, curb, pend, rq, bat>>
  BY DEF MigrateSlot, schedVars
<1>3. PICK w \in Slots : w = thief[s].w
  BY <1>1, <1>2 DEF ControlAt
<1>4. PICK v \in Scheds : v = thief[s].victim
  <2>1. thief[s] \in ThiefSet
    BY <1>1 DEF Types
  <2> QED BY <2>1 DEF ThiefSet
<1>5. PICK b \in Batches \cup {NoBatch} : b = slot[v][w]
  BY <1>1 DEF Types
<1>6. PICK l \in {"mig_bit", "mig_end"} :
        /\ Goto(s, l) /\ slot' = [slot EXCEPT ![v][w] = NoBatch] /\ job' = [job EXCEPT ![s] = b]
        /\ b # NoBatch => l = "mig_end"
  <2>1. Goto(s, IF b = NoBatch /\ thief[s].bm # {} THEN "mig_bit" ELSE "mig_end")
    BY <1>3, <1>4, <1>5 DEF MigrateSlot
  <2> QED BY <1>3, <1>4, <1>5, <2>1 DEF MigrateSlot
<1>7. job[s] = NoBatch /\ pc[s] \notin AddLabels \cup ThiefLabels /\ pc[s] # "pull_clear"
  BY <1>1, <1>2 DEF ControlAt, AddLabels, OwnLabels, ThiefLabels
<1>8. /\ pc'[s] = l /\ pc'[s] \notin AddLabels /\ pc'[s] # "pull_clear" /\ pc'[s] # "steal_mark"
      /\ l = "mig_end" => l \in ThiefLabels
      /\ \A t \in Scheds : t # s => pc'[t] = pc[t]
  <2>1. l \in Labels /\ l \notin AddLabels /\ (l = "mig_end" => l \in ThiefLabels)
    BY DEF Labels, LookLabels, AddLabels, ThiefLabels
  <2> QED BY <1>1, <1>6, <2>1, GotoPc
<1>9. /\ slot'[v][w] = NoBatch
      /\ \A t \in Scheds, k \in Slots : ~(t = v /\ k = w) => slot'[t][k] = slot[t][k]
      /\ job'[s] = b /\ \A t \in Scheds : t # s => job'[t] = job[t]
  BY <1>1, <1>6 DEF Types
<1>10. b # NoBatch => /\ b \in Own(v) /\ (b \in Q(v) \/ Adding(v, b)) /\ InSlot(v, b)
                      /\ bat[b].win = w
  BY <1>5, ShownFacts
<1>11. ASSUME NEW u \in Scheds, NEW c \in Own(u)
       PROVE  WaitsAt(u, c)' <=> WaitsAt(u, c)
  <2>1. c \in Batches /\ c # NoBatch /\ (bat[c].win # 0 => bat[c].win \in Slots)
    <3>1. c \in Batches /\ c # NoBatch /\ bat[c] \in BatSet
      BY <1>1, OwnFacts DEF Types
    <3> QED BY <3>1, MigrateAssumption DEF BatSet, Slots
  <2>2. Pending(u, c)' <=> Pending(u, c)
    BY <1>2 DEF Pending
  <2>3. Pulled(u, c)' <=> Pulled(u, c)
    BY <1>7, <1>8, <1>9 DEF Pulled
  <2>4. /\ Adding(u, c)' <=> Adding(u, c)
        /\ Q(u)' = Q(u)
    BY <1>2, <1>7, <1>8, <1>9 DEF Adding, Q
  <2>5. CASE c # b
    <3>1. InSlot(u, c)' <=> InSlot(u, c)
      BY <1>2, <1>5, <1>9, <2>1, <2>5 DEF InSlot
    <3>2. \A t \in Scheds : /\ Holds(t, c)' <=> Holds(t, c)
                            /\ Holds(t, c) => pc'[t] = pc[t]
      BY <1>7, <1>8, <1>9, <2>1, <2>5 DEF Holds
    <3>3. Lent(c)' <=> Lent(c)
      BY <3>2 DEF Lent
    <3> QED BY <2>2, <2>3, <2>4, <3>1, <3>3 DEF WaitsAt, Lined
  <2>6. CASE c = b
    <3>1. u = v
      BY <1>10, <2>1, <2>6, OwnFacts
    <3>2. WaitsAt(u, c)
      BY <1>10, <2>1, <2>6, <3>1 DEF WaitsAt, Lined
    <3>3. Holds(s, c)' /\ pc'[s] # "steal_mark"
      BY <1>6, <1>8, <1>9, <2>1, <2>6 DEF Holds
    <3>4. Lent(c)'
      BY <3>3 DEF Lent
    <3> QED BY <3>2, <3>4 DEF WaitsAt
  <2> QED BY <2>5, <2>6
<1> QED BY <1>2, <1>11, KeptByOwner, StillStep

(* The thief has loaded the batch and marks it clean. *)
LEMMA StealMarkMoves ==
  ASSUME IInv, IInv', JInv, NEW s \in Scheds, StealMark(s)
  PROVE  JInv' /\ AbsStep
<1>1. Types /\ ControlAt(s)
  BY DEF IInv, Control
<1>2. /\ pc[s] = "steal_mark" /\ Goto(s, "user") /\ job' = [job EXCEPT ![s] = NoBatch]
      /\ UNCHANGED <<cur, curb, affinity, mail, pend, rq, slot>>
  BY DEF StealMark, MarkClean, schedVars, windowVars
<1>3. PICK b \in Batches : b = job[s]
  BY <1>1, <1>2 DEF Types, ControlAt
<1>4. \A c \in Batches : bat'[c].win = bat[c].win /\ bat'[c].procs = bat[c].procs
  <2>1. bat' = [bat EXCEPT ![b].dirty = FALSE] /\ bat \in [Batches -> BatSet] /\ bat[b] \in BatSet
    BY <1>1, <1>3 DEF StealMark, MarkClean, Types
  <2>2. bat' = [bat EXCEPT ![b] = [bat[b] EXCEPT !.dirty = FALSE]]
    BY <2>1
  <2>3. /\ [bat[b] EXCEPT !.dirty = FALSE].win = bat[b].win
        /\ [bat[b] EXCEPT !.dirty = FALSE].procs = bat[b].procs
    BY <2>1 DEF BatSet
  <2> QED BY <2>1, <2>2, <2>3
<1>5. /\ pc'[s] = "user" /\ \A t \in Scheds : t # s => pc'[t] = pc[t]
      /\ pc[s] \notin AddLabels /\ pc'[s] \notin AddLabels \cup ThiefLabels
      /\ job'[s] = NoBatch /\ \A t \in Scheds : t # s => job'[t] = job[t]
  <2>1. pc'[s] = "user" /\ \A t \in Scheds : t # s => pc'[t] = pc[t]
    BY <1>1, <1>2, GotoPc DEF Labels, HomeLabels
  <2> QED BY <1>1, <1>2, <2>1 DEF AddLabels, ThiefLabels, Types
<1>6. ASSUME NEW v \in Scheds, NEW c \in Own(v)
      PROVE  WaitsAt(v, c)' <=> WaitsAt(v, c)
  <2>1. c \in Batches
    BY OwnFacts
  <2>2. InSlot(v, c)' <=> InSlot(v, c)
    BY <1>2, <1>4, <2>1 DEF InSlot
  <2>3. Lined(v, c)' <=> Lined(v, c)
    BY <1>2, <1>5, <2>2 DEF Lined, Adding, Q
  <2>4. (Pending(v, c)' <=> Pending(v, c)) /\ (Pulled(v, c)' <=> Pulled(v, c))
    BY <1>2, <1>5 DEF Pending, Pulled
  <2>5. Lent(c)' <=> Lent(c)
    BY <1>2, <1>5 DEF Lent, Holds
  <2> QED BY <2>3, <2>4, <2>5 DEF WaitsAt
<1>7. \A c \in Batches : BatKept(c)
  <2>1. \A v \in Scheds : Own(v) \subseteq Batches
    BY OwnFacts
  <2> QED BY <1>4, <1>6, <2>1, KeptByOwner
<1> QED BY <1>2, <1>7, StillStep

(* What is in the laundry and clean does not wait. *)
LEMMA NoWorkAnywhereMoves ==
  ASSUME IInv, IInv', JInv, NEW s \in Scheds, NoWorkAnywhere(s)
  PROVE  JInv' /\ AbsStep
<1>1. Types /\ ControlAt(s) /\ BatchesAt(s)
  BY DEF IInv, Control, Kept
<1>2. /\ pc[s] = "migrate" /\ Goto(s, "sched")
      /\ curb' = [curb EXCEPT ![s] = [NoCurb EXCEPT !.aff = curb[s].aff]]
      /\ UNCHANGED <<cur, affinity, mail, pend, rq, job, slot>>
  BY DEF NoWorkAnywhere, windowVars
<1>3. PICK W \in {CleanIn(s), {}} : bat' = Washed(W)
  <2>1. bat = Washed({})
    BY <1>1 DEF Types, Washed
  <2> QED BY <2>1 DEF NoWorkAnywhere, DoLaundry
<1>4. /\ W \subseteq Own(s) /\ W \subseteq Batches
      /\ W \cap (Q(s) \cup free[s] \cup {pend[s].batch}) = {}
      /\ \A t \in Scheds, b \in W : ~Holds(t, b)
  BY <1>3, CleanFacts
<1>5. \A c \in Batches : c \notin W => bat'[c] = bat[c]
  BY <1>1, <1>3, <1>4, WashedBatches
<1>6. \A t \in Scheds : curb'[t].procs = curb[t].procs /\ curb'[t].aff = curb[t].aff
  <2>1. curb[s].procs = << >>
    BY <1>1, <1>2 DEF ControlAt, Home, AddLabels
  <2>2. /\ [NoCurb EXCEPT !.aff = curb[s].aff].procs = << >>
        /\ [NoCurb EXCEPT !.aff = curb[s].aff].aff = curb[s].aff
    BY DEF NoCurb
  <2> QED BY <1>1, <1>2, <2>1, <2>2 DEF Types
<1>7. /\ pc'[s] = "sched" /\ \A t \in Scheds : t # s => pc'[t] = pc[t]
      /\ pc[s] \notin AddLabels \cup ThiefLabels /\ pc'[s] \notin AddLabels \cup ThiefLabels
  <2>1. pc'[s] = "sched" /\ \A t \in Scheds : t # s => pc'[t] = pc[t]
    BY <1>1, <1>2, GotoPc DEF Labels, HomeLabels
  <2> QED BY <1>2, <2>1 DEF AddLabels, ThiefLabels
<1>8. ASSUME NEW v \in Scheds, NEW c \in Own(v)
      PROVE  /\ WaitsAt(v, c)' <=> WaitsAt(v, c)
             /\ WaitsAt(v, c) => bat'[c].procs = bat[c].procs /\ (bat'[c].win # 0 => bat[c].win # 0)
  <2>1. c \in Batches
    BY OwnFacts
  <2>2. (Pending(v, c)' <=> Pending(v, c)) /\ (Pulled(v, c)' <=> Pulled(v, c))
    BY <1>2, <1>7 DEF Pending, Pulled
  <2>3. Lent(c)' <=> Lent(c)
    <3>1. \A t \in Scheds : /\ Holds(t, c)' <=> Holds(t, c)
                            /\ Holds(t, c) => pc'[t] = pc[t]
      BY <1>2, <1>7 DEF Holds
    <3> QED BY <3>1 DEF Lent
  <2>4. Q(v)' = Q(v) /\ (Adding(v, c)' <=> Adding(v, c))
    BY <1>2, <1>7 DEF Q, Adding
  <2>5. CASE c \notin W
    <3>1. bat'[c] = bat[c]
      BY <1>5, <2>1, <2>5
    <3>2. InSlot(v, c)' <=> InSlot(v, c)
      BY <1>2, <3>1 DEF InSlot
    <3> QED BY <2>2, <2>3, <2>4, <3>1, <3>2 DEF WaitsAt, Lined
  <2>6. CASE c \in W
    <3>1. v = s
      BY <1>4, <2>1, <2>6, OwnFacts
    <3>2. c \notin Q(s) /\ c # pend[s].batch
      BY <1>4, <2>6, Zenon
    <3>3. ~Pending(v, c) /\ ~Lined(v, c) /\ ~(Lined(v, c)')
      BY <1>7, <2>4, <3>1, <3>2 DEF Pending, Lined, Adding
    <3>4. ~Pulled(v, c) /\ ~Lent(c)
      BY <1>2, <1>4, <2>6, <3>1 DEF Pulled, Lent
    <3> QED BY <2>2, <2>3, <3>3, <3>4 DEF WaitsAt
  <2> QED BY <2>5, <2>6
<1> QED BY <1>2, <1>6, <1>8, KeptByOwner, StillStep

-----------------------------------------------------------------------------
(***************************************************************************)
(* Steps between the processor and the current batch.                      *)
(***************************************************************************)
(* A process that is in a place is in no other. *)
LEMMA OnlyAt ==
  ASSUME Apart, NEW p \in Procs, NEW x, Has(x, p)
  PROVE  /\ \A t \in Scheds : /\ cur[t] = p => x = <<"cur", t>>
                              /\ p \in mail[t] => x = <<"mail", t>>
                              /\ InCurb(t, p) => x = <<"curb", t>>
         /\ \A c \in Batches : InB(c, p) => x = <<"bat", c>>
BY DEF Apart, Has

(* A scheduler that is not concerned. *)
LEMMA CurbTiedSame ==
  ASSUME Types, NEW t \in Scheds, CurbTied(t), cur'[t] = cur[t], curb'[t] = curb[t],
         \A p \in Procs : cur[t] = p \/ InCurb(t, p) => affinity'[p] = affinity[p]
  PROVE  CurbTied(t)'
<1>1. \A p \in Procs : InCurb(t, p)' <=> InCurb(t, p)
  BY DEF InCurb
<1>2. cur[t] # NotProcess => cur[t] \in Procs
  BY DEF Types
<1> QED BY <1>1, <1>2 DEF CurbTied

(* The next process of the current batch is run. *)
LEMMA CurbMoves ==
  ASSUME IInv, IInv', JInv, NEW s \in Scheds, NextOfCurb(s) \/ ContinueCurb(s)
  PROVE  JInv' /\ AbsStep
<1>1. Types /\ ControlAt(s) /\ Apart /\ Tied
  BY DEF IInv, Control, JInv
<1>2. /\ pc[s] = "sched" /\ curb[s].procs # << >> /\ Goto(s, "user")
      /\ UNCHANGED <<affinity, mail, pend, rq, job, slot, bat>>
  BY DEF NextOfCurb, ContinueCurb, AtTop, EndOfCurb, GoesOn, queueVars, windowVars
<1>3. PICK c \in CurbSet :
        c.procs = curb[s].procs /\ c.aff = curb[s].aff /\ Dequeue(s, c)
  <2>1. curb[s] \in CurbSet
    BY <1>1 DEF Types
  <2>2. CASE NextOfCurb(s)
    BY <2>1, <2>2 DEF NextOfCurb, CurbSet
  <2>3. CASE ContinueCurb(s)
    <3>1. curb[s].procs \in Seq(Procs)
      BY <2>1 DEF CurbSet
    <3>2. Dispatches(Len(curb[s].procs)) \in Int
      BY <3>1, LenProperties, DispatchesInt
    <3> QED BY <2>1, <2>3, <3>2 DEF ContinueCurb, CurbSet
  <2> QED BY <2>2, <2>3
<1>4. PICK h \in Procs : h = Head(curb[s].procs)
  <2>1. c.procs \in Seq(Procs)
    BY DEF CurbSet
  <2> QED BY <1>2, <1>3, <2>1, TailOnce
<1>5. /\ cur'[s] = h /\ cur' = [cur EXCEPT ![s] = h]
      /\ curb'[s].procs = Tail(curb[s].procs) /\ curb'[s].aff = curb[s].aff
      /\ \A t \in Scheds : t # s => cur'[t] = cur[t] /\ curb'[t] = curb[t]
  <2>1. cur' = [cur EXCEPT ![s] = h]
    BY <1>3, <1>4 DEF Dequeue
  <2> QED BY <1>1, <1>2, <1>3, <1>4, <2>1, CurbTypes
<1>6. CurbTied(s) /\ Once(curb[s].procs)
  BY <1>1 DEF Tied, CurbTied
<1>7. /\ InCurb(s, h) /\ \A p \in Procs : InCurb(s, p)' <=> InCurb(s, p) /\ p # h
      /\ Once(curb'[s].procs)
  <2>1. curb[s].procs \in Seq(Procs)
    BY <1>3 DEF CurbSet
  <2> QED BY <1>2, <1>4, <1>5, <1>6, <2>1, TailOnce DEF InCurb
<1>8. cur[s] = NotProcess /\ NotProcess \notin Procs
  BY <1>1, <1>2, MigrateAssumption DEF ControlAt, Home, AddLabels
<1>9. Passes(s)
  <2>1. pc'[s] = "user" /\ \A t \in Scheds : t # s => pc'[t] = pc[t]
    BY <1>1, <1>2, GotoPc DEF Labels, HomeLabels
  <2> QED BY <1>2, <2>1 DEF Passes, AddLabels, ThiefLabels
<1>10. \A d \in Batches : BatKept(d)
  BY <1>9, PassesKept
<1>11. \A d \in Batches : BatTied(d)' /\ \A p \in Procs : InB(d, p)' <=> InB(d, p)
  BY <1>1, <1>2, <1>10, BatTiedKept DEF Tied
<1>12. PICK D : D = [r \in {h} |-> <<"cur", s>>]
  OBVIOUS
<1>13. /\ \A t \in Scheds : /\ cur[t] # h /\ h \notin mail[t]
                            /\ t # s => ~InCurb(t, h)
       /\ \A d \in Batches : ~InB(d, h)
  <2>1. Has(<<"curb", s>>, h)
    BY <1>7 DEF Has
  <2> QED BY <1>1, <2>1, OnlyAt
<1>14. Moves({h}, D)
  <2> SUFFICES ASSUME NEW p \in Procs
               PROVE
      /\ \A t \in Scheds : cur'[t] = p <=> MovesTo({h}, D, <<"cur", t>>, p, cur[t] = p)
      /\ \A t \in Scheds : p \in mail'[t] <=> MovesTo({h}, D, <<"mail", t>>, p, p \in mail[t])
      /\ \A t \in Scheds : InCurb(t, p)' <=> MovesTo({h}, D, <<"curb", t>>, p, InCurb(t, p))
      /\ \A d \in Batches : InB(d, p)' <=> MovesTo({h}, D, <<"bat", d>>, p, InB(d, p))
    BY DEF Moves
  <2>1. \A t \in Scheds : t # s => (InCurb(t, p)' <=> InCurb(t, p))
    BY <1>5 DEF InCurb
  <2>2. CASE p = h
    BY <1>2, <1>5, <1>7, <1>11, <1>12, <1>13, <2>1, <2>2 DEF MovesTo
  <2>3. CASE p # h
    BY <1>2, <1>5, <1>7, <1>8, <1>11, <2>1, <2>3 DEF MovesTo
  <2> QED BY <2>2, <2>3
<1>15. Apart' /\ \A p \in Procs : Runnable(p)' <=> IF p = h THEN FALSE ELSE Runnable(p)
  <2>1. D[h] \notin Queues
    BY <1>12 DEF Queues
  <2> QED BY <1>1, <1>14, <2>1, MoveStep
<1>16. Runnable(h)
  BY <1>7 DEF Runnable, InCurb
<1>17. AbsStep
  BY <1>5, <1>8, <1>15, <1>16, AbsDispatch
<1>18. ASSUME NEW t \in Scheds PROVE CurbTied(t)' /\ PendTied(t)'
  <2>1. CurbTied(t) /\ PendTied(t)
    BY <1>1 DEF Tied
  <2>2. PendTied(t)'
    BY <1>2, <1>10, <2>1, PendWaits, PendTiedKept
  <2>3. CASE t = s
    BY <1>2, <1>5, <1>7, <2>1, <2>2, <2>3 DEF CurbTied
  <2>4. CASE t # s
    BY <1>1, <1>2, <1>5, <2>1, <2>2, <2>4, CurbTiedSame
  <2> QED BY <2>3, <2>4
<1>19. Tied'
  BY <1>1, <1>2, <1>11, <1>18 DEF Tied, ChosenOnly
<1> QED BY <1>15, <1>17, <1>19 DEF JInv

(* A process is put at the end of the current batch. *)
LEMMA CurbAppended ==
  ASSUME Types, NEW s \in Scheds, NEW p \in Procs, curb' = CurbWith(s, p)
  PROVE  /\ \A r \in Procs : InCurb(s, r)' <=> InCurb(s, r) \/ r = p
         /\ curb'[s].aff = curb[s].aff
         /\ Once(curb[s].procs) /\ ~InCurb(s, p) => Once(curb'[s].procs)
         /\ \A t \in Scheds : t # s => curb'[t] = curb[t]
<1>1. curb \in [Scheds -> CurbSet] /\ curb[s] \in CurbSet
  BY DEF Types
<1>2. curb[s].procs \in Seq(Procs)
  BY <1>1 DEF CurbSet
<1>3. PICK q \in Seq(Procs) : /\ q = Append(curb[s].procs, p)
                              /\ ToSet(q) = ToSet(curb[s].procs) \cup {p}
                              /\ Once(curb[s].procs) /\ p \notin ToSet(curb[s].procs) => Once(q)
  BY <1>2, AppendOnce
<1>4. curb' = [curb EXCEPT ![s] = [curb[s] EXCEPT !.procs = q]]
  BY <1>1, <1>3 DEF CurbWith
<1>5. [curb[s] EXCEPT !.procs = q].procs = q /\ [curb[s] EXCEPT !.procs = q].aff = curb[s].aff
  BY <1>1, CurbUpdate
<1>6. curb'[s].procs = q /\ curb'[s].aff = curb[s].aff /\ \A t \in Scheds : t # s => curb'[t] = curb[t]
  BY <1>1, <1>4, <1>5
<1> QED BY <1>3, <1>6 DEF InCurb

(* The running process leaves; save_priofinity does not change anything.   *)
LEMMA LeaveMoves ==
  ASSUME IInv, IInv', JInv, NEW s \in Scheds, Pause(s) \/ Block(s)
  PROVE  JInv' /\ AbsStep
<1>1. Types /\ ControlAt(s) /\ Apart /\ Tied /\ CurbTied(s)
  BY DEF IInv, Control, JInv, Tied
<1>2. /\ pc[s] = "user" /\ Goto(s, "sched") /\ Leave(s)
      /\ affinity' = [affinity EXCEPT ![cur[s]] = SavedAffinity(s, cur[s])]
      /\ UNCHANGED <<mail, pend, rq, job, slot, bat>>
      /\ UNCHANGED curb \/ curb' = CurbWith(s, cur[s])
  BY DEF Pause, Block, queueVars, windowVars
<1>3. PICK h \in Procs : h = cur[s] /\ h # NotProcess
  <2>1. cur[s] # NotProcess
    BY <1>1, <1>2 DEF ControlAt, Home, AddLabels
  <2> QED BY <1>1, <2>1 DEF Types
<1>4. affinity' = affinity
  <2>1. SavedAffinity(s, h) = affinity[h]
    BY <1>1, <1>3 DEF CurbTied, SavedAffinity
  <2> QED BY <1>1, <1>2, <1>3, <2>1 DEF Types
<1>5. cur' = [cur EXCEPT ![s] = NotProcess] /\ cur'[s] = NotProcess /\ \A t \in Scheds : t # s => cur'[t] = cur[t]
  BY <1>1, <1>2 DEF Leave, Types
<1>6. NotProcess \notin Procs
  BY MigrateAssumption
<1>7. \A d \in Batches : BatKept(d)
  <2>1. pc'[s] = "sched" /\ \A t \in Scheds : t # s => pc'[t] = pc[t]
    BY <1>1, <1>2, GotoPc DEF Labels, HomeLabels
  <2>2. Passes(s)
    BY <1>2, <2>1 DEF Passes, AddLabels, ThiefLabels
  <2> QED BY <2>2, PassesKept
<1>8. \A d \in Batches : BatTied(d)' /\ \A p \in Procs : InB(d, p)' <=> InB(d, p)
  BY <1>1, <1>4, <1>7, BatTiedKept DEF Tied
<1>9. /\ \A t \in Scheds : /\ t # s => cur[t] # h
                           /\ h \notin mail[t] /\ ~InCurb(t, h)
      /\ \A d \in Batches : ~InB(d, h)
  <2>1. Has(<<"cur", s>>, h)
    BY <1>3 DEF Has
  <2> QED BY <1>1, <2>1, OnlyAt
<1>10. ~Runnable(h)
  <2>1. \A x \in Queues : ~Has(x, h)
    BY <1>9 DEF Has, Queues
  <2> QED BY <2>1, RunnableIs
<1>11. ASSUME NEW q \in BOOLEAN, NEW y, q <=> y \in Queues, q => y = <<"curb", s>>, ~q => y = <<"none", s>>,
              \A t \in Scheds : t # s => curb'[t] = curb[t],
              \A p \in Procs : InCurb(s, p)' <=> InCurb(s, p) \/ (q /\ p = h),
              Once(curb'[s].procs), curb'[s].aff = curb[s].aff
       PROVE  JInv' /\ AbsStep
  <2>1. PICK D : D = [r \in {h} |-> y]
    OBVIOUS
  <2>2. \A t \in Scheds : t # s => \A p \in Procs : InCurb(t, p)' <=> InCurb(t, p)
    BY <1>11 DEF InCurb
  <2>3. ASSUME NEW p \in Procs
        PROVE
      /\ \A t \in Scheds : cur'[t] = p <=> MovesTo({h}, D, <<"cur", t>>, p, cur[t] = p)
      /\ \A t \in Scheds : p \in mail'[t] <=> MovesTo({h}, D, <<"mail", t>>, p, p \in mail[t])
      /\ \A t \in Scheds : InCurb(t, p)' <=> MovesTo({h}, D, <<"curb", t>>, p, InCurb(t, p))
      /\ \A d \in Batches : InB(d, p)' <=> MovesTo({h}, D, <<"bat", d>>, p, InB(d, p))
    <3>1. CASE p # h
      BY <1>2, <1>3, <1>5, <1>6, <1>8, <1>11, <2>2, <3>1 DEF MovesTo
    <3>2. CASE p = h /\ q
      BY <1>2, <1>5, <1>6, <1>8, <1>9, <1>11, <2>1, <2>2, <3>2 DEF MovesTo
    <3>3. CASE p = h /\ ~q
      BY <1>2, <1>5, <1>6, <1>8, <1>9, <1>11, <2>1, <2>2, <3>3 DEF MovesTo
    <3> QED BY <3>1, <3>2, <3>3
  <2>4. Moves({h}, D)
    BY <2>3 DEF Moves
  <2>5. Apart' /\ \A p \in Procs : Runnable(p)' <=> IF p = h THEN q ELSE Runnable(p)
    BY <1>1, <1>11, <2>1, <2>4, MoveStep
  <2>6. AbsStep
    BY <1>3, <1>5, <1>10, <2>5, AbsLeave
  <2>7. ASSUME NEW t \in Scheds PROVE CurbTied(t)' /\ PendTied(t)'
    <3>1. CurbTied(t) /\ PendTied(t)
      BY <1>1 DEF Tied
    <3>2. PendTied(t)'
      BY <1>2, <1>4, <1>7, <3>1, PendWaits, PendTiedKept
    <3>3. CASE t = s
      BY <1>3, <1>4, <1>5, <1>11, <3>1, <3>2, <3>3 DEF CurbTied
    <3>4. CASE t # s
      BY <1>1, <1>4, <1>5, <1>11, <3>1, <3>2, <3>4, CurbTiedSame
    <3> QED BY <3>3, <3>4
  <2>8. Tied'
    BY <1>1, <1>4, <1>8, <2>7 DEF Tied, ChosenOnly
  <2> QED BY <2>5, <2>6, <2>8 DEF JInv
<1>12. CASE UNCHANGED curb
  <2>1. <<"none", s>> \notin Queues
    BY DEF Queues
  <2>2. \A p \in Procs : InCurb(s, p)' <=> InCurb(s, p)
    BY <1>12 DEF InCurb
  <2>3. Once(curb'[s].procs) /\ curb'[s].aff = curb[s].aff
    BY <1>1, <1>12 DEF CurbTied
  <2> QED BY <1>11, <1>12, <2>1, <2>2, <2>3
<1>13. CASE curb' = CurbWith(s, h)
  <2>1. <<"curb", s>> \in Queues
    BY DEF Queues
  <2>2. Once(curb[s].procs) /\ ~InCurb(s, h)
    BY <1>1, <1>9 DEF CurbTied
  <2> QED BY <1>1, <1>11, <1>13, <2>1, <2>2, CurbAppended
<1> QED BY <1>2, <1>3, <1>12, <1>13

-----------------------------------------------------------------------------
(***************************************************************************)
(* Loading a batch.                                                        *)
(***************************************************************************)
(* A batch that waits becomes the current batch of s, which has none.      *)
Loads(s, b) ==
  /\ b \in Batches /\ Waits(b) /\ ~Waits(b)' /\ Good(bat[b].procs)
  /\ b[1] = s \/ bat[b].win # 0
  /\ curb[s].procs = << >> /\ cur[s] = NotProcess
  /\ LoadCurb(s, b)
  /\ UNCHANGED <<affinity, mail>>
  /\ \A c \in Batches : c # b => BatKept(c)
  /\ \A t \in Scheds : \/ pend'[t] = pend[t] /\ pend[t].batch # b
                       \/ ~pend'[t].on /\ pend'[t].aff = {}

(* Its first process is run, the others are in the current batch. *)
LEMMA LoadMoves ==
  ASSUME IInv, IInv', JInv, NEW s \in Scheds, NEW b, Loads(s, b)
  PROVE  JInv' /\ AbsStep
<1>1. Types /\ Apart /\ Tied /\ b \in Batches /\ BatTied(b)
  BY DEF IInv, JInv, Tied, Loads
<1>2. PICK q \in Seq(Procs) : q = bat[b].procs /\ q # << >>
  BY DEF Loads, Good
<1>3. PICK h \in Procs : h = Head(q)
  BY <1>2, TailOnce
<1>4. PICK M : M = ToSet(q)
  OBVIOUS
<1>5. Once(q) /\ Waits(b)
  BY <1>1, <1>2 DEF BatTied, Loads
<1>6. /\ h \in M /\ M \subseteq Procs /\ Once(Tail(q)) /\ ToSet(Tail(q)) = M \ {h}
  BY <1>2, <1>3, <1>4, <1>5, TailOnce, InSeq
<1>7. /\ cur'[s] = h /\ cur' = [cur EXCEPT ![s] = h]
      /\ curb'[s].procs = Tail(q) /\ curb'[s].aff = affinity[h]
      /\ \A t \in Scheds : t # s => cur'[t] = cur[t] /\ curb'[t] = curb[t]
  <2>1. cur' = [cur EXCEPT ![s] = Head(bat[b].procs)]
    BY DEF Loads, LoadCurb, Dequeue
  <2> QED BY <1>1, <1>2, <1>3, <2>1, LoadTypes DEF Loads
<1>8. /\ UNCHANGED <<affinity, mail>> /\ cur[s] = NotProcess /\ NotProcess \notin Procs
      /\ curb[s].procs = << >> /\ ~Waits(b)'
      /\ \A c \in Batches : c # b => BatKept(c)
  BY MigrateAssumption DEF Loads
<1>9. \A p \in Procs : InB(b, p) <=> p \in M
  BY <1>2, <1>4, <1>5 DEF InB
<1>10. /\ \A c \in Batches : c # b => BatTied(c)' /\ \A p \in Procs : InB(c, p)' <=> InB(c, p)
       /\ \A p \in Procs : ~InB(b, p)'
  <2>1. \A p \in Procs : ~InB(b, p)'
    BY <1>8 DEF InB
  <2> QED BY <1>1, <1>8, <2>1, BatTiedKept DEF Tied
<1>11. BatTied(b)'
  BY <1>8, <1>10 DEF BatTied
<1>12. \A p \in M : /\ \A t \in Scheds : cur[t] # p /\ p \notin mail[t] /\ ~InCurb(t, p)
                    /\ \A c \in Batches : c # b => ~InB(c, p)
  <2> SUFFICES ASSUME NEW p \in M
               PROVE  /\ \A t \in Scheds : cur[t] # p /\ p \notin mail[t] /\ ~InCurb(t, p)
                      /\ \A c \in Batches : c # b => ~InB(c, p)
    OBVIOUS
  <2>1. p \in Procs /\ Has(<<"bat", b>>, p)
    BY <1>1, <1>6, <1>9 DEF Has
  <2> QED BY <1>1, <2>1, OnlyAt
<1>13. \A p \in Procs : /\ ~InCurb(s, p)
                        /\ InCurb(s, p)' <=> p \in M /\ p # h
                        /\ \A t \in Scheds : t # s => (InCurb(t, p)' <=> InCurb(t, p))
  <2>1. ToSet(<< >>) = {}
    BY DEF ToSet
  <2> QED BY <1>6, <1>7, <1>8, <2>1 DEF InCurb
<1>14. PICK D : D = [r \in M |-> IF r = h THEN <<"cur", s>> ELSE <<"curb", s>>]
  OBVIOUS
<1>15. Moves(M, D)
  <2> SUFFICES ASSUME NEW p \in Procs
               PROVE
      /\ \A t \in Scheds : cur'[t] = p <=> MovesTo(M, D, <<"cur", t>>, p, cur[t] = p)
      /\ \A t \in Scheds : p \in mail'[t] <=> MovesTo(M, D, <<"mail", t>>, p, p \in mail[t])
      /\ \A t \in Scheds : InCurb(t, p)' <=> MovesTo(M, D, <<"curb", t>>, p, InCurb(t, p))
      /\ \A c \in Batches : InB(c, p)' <=> MovesTo(M, D, <<"bat", c>>, p, InB(c, p))
    BY DEF Moves
  <2>1. CASE p \notin M
    BY <1>6, <1>7, <1>8, <1>9, <1>10, <1>13, <2>1 DEF MovesTo
  <2>2. CASE p = h
    <3>1. p \in M /\ D[p] = <<"cur", s>>
      BY <1>6, <1>14, <2>2
    <3> QED BY <1>7, <1>8, <1>10, <1>12, <1>13, <2>2, <3>1 DEF MovesTo
  <2>3. CASE p \in M /\ p # h
    <3>1. D[p] = <<"curb", s>>
      BY <1>14, <2>3
    <3> QED BY <1>7, <1>8, <1>10, <1>12, <1>13, <2>3, <3>1 DEF MovesTo
  <2> QED BY <2>1, <2>2, <2>3
<1>16. Apart' /\ \A p \in Procs : Runnable(p)' <=> IF p \in M THEN D[p] \in Queues ELSE Runnable(p)
  BY <1>1, <1>15, MoveStep
<1>17. \A p \in M : Runnable(p)
  <2>1. \A p \in M : Has(<<"bat", b>>, p) /\ <<"bat", b>> \in Queues
    BY <1>1, <1>6, <1>9 DEF Has, Queues
  <2> QED BY <1>6, <2>1, RunnableIs
<1>18. \A p \in Procs : Runnable(p)' <=> IF p = h THEN FALSE ELSE Runnable(p)
  <2>1. <<"cur", s>> \notin Queues /\ <<"curb", s>> \in Queues
    BY DEF Queues
  <2> QED BY <1>6, <1>14, <1>16, <1>17, <2>1
<1>19. AbsStep
  BY <1>6, <1>7, <1>8, <1>17, <1>18, AbsDispatch
<1>20. Allowed(s, affinity[h]) /\ \A p \in M : affinity[p] = affinity[h]
  <2>1. /\ Allowed(b[1], affinity[h]) /\ (bat[b].win # 0 => affinity[h] = {})
        /\ \A p \in M : affinity[p] = affinity[h]
    BY <1>1, <1>6, <1>9 DEF BatTied
  <2> QED BY <2>1 DEF Loads, Allowed
<1>21. CurbTied(s)'
  BY <1>6, <1>7, <1>8, <1>13, <1>20 DEF CurbTied
<1>22. ASSUME NEW t \in Scheds PROVE CurbTied(t)' /\ PendTied(t)'
  <2>1. CurbTied(t) /\ PendTied(t)
    BY <1>1 DEF Tied
  <2>2. PendTied(t)'
    <3>1. CASE pend'[t] = pend[t] /\ pend[t].batch # b
      BY <1>8, <2>1, <3>1, PendWaits, PendTiedKept
    <3>2. CASE ~pend'[t].on /\ pend'[t].aff = {}
      BY <3>2 DEF PendTied, Allowed
    <3> QED BY <3>1, <3>2 DEF Loads
  <2>3. t # s => CurbTied(t)'
    BY <1>1, <1>7, <1>8, <2>1, CurbTiedSame
  <2> QED BY <1>21, <2>2, <2>3
<1>23. Tied'
  BY <1>1, <1>8, <1>10, <1>11, <1>22 DEF Tied, ChosenOnly
<1> QED BY <1>16, <1>19, <1>23 DEF JInv

(* A batch that is not touched waits as before. *)
LEMMA UntouchedKept ==
  ASSUME IInv, IInv', UNCHANGED slot, NEW c \in Batches, bat'[c] = bat[c],
         \A t \in Scheds : /\ c \in Q(t)' <=> c \in Q(t)
                           /\ Adding(t, c)' <=> Adding(t, c)
                           /\ Pulled(t, c)' <=> Pulled(t, c)
                           /\ Pending(t, c)' <=> Pending(t, c)
                           /\ (Holds(t, c) /\ pc[t] # "steal_mark")' <=> Holds(t, c) /\ pc[t] # "steal_mark"
  PROVE  BatKept(c)
<1>1. PICK v \in Scheds : c \in Own(v)
  BY DEF Batches, Own
<1>2. InSlot(v, c)' <=> InSlot(v, c)
  BY DEF InSlot
<1>3. Lined(v, c)' <=> Lined(v, c)
  BY <1>2 DEF Lined
<1>4. Lent(c)' <=> Lent(c)
  BY DEF Lent
<1>5. WaitsAt(v, c)' <=> WaitsAt(v, c)
  BY <1>3, <1>4 DEF WaitsAt
<1>6. (Waits(c) <=> WaitsAt(v, c)) /\ (Waits(c)' <=> WaitsAt(v, c)')
  BY <1>1, WaitsIs, WaitsNext
<1> QED BY <1>5, <1>6 DEF BatKept

(* A batch without processes does not wait. *)
LEMMA EmptyIdle ==
  ASSUME IInv', NEW c \in Batches, ~Good(bat'[c].procs)
  PROVE  ~Waits(c)'
<1>1. PICK v \in Scheds : c \in Own(v)
  BY DEF Batches, Own
<1> QED BY <1>1, WaitsNext

(* A batch that only its owner can see is loaded. *)
LEMMA PullOwnMoves ==
  ASSUME IInv, IInv', JInv, NEW s \in Scheds, PullOwn(s)
  PROVE  JInv' /\ AbsStep
<1>1. Types /\ ControlAt(s) /\ BatchesAt(s)
  BY DEF IInv, Control, Kept
<1>2. PICK b : b = Head(rq[s])
  OBVIOUS
<1>3. /\ pc[s] \in {"sched", "pick"} /\ Goto(s, "user") /\ rq[s] # << >> /\ bat[b].win = 0
      /\ pc[s] = "sched" => curb[s].procs = << >>
      /\ rq' = [rq EXCEPT ![s] = Tail(@)] /\ LoadCurb(s, b)
      /\ bat' = Washed({b})
      /\ UNCHANGED <<affinity, mail, pend, job, slot>>
  BY <1>2 DEF PullOwn, Picks, AtTop, windowVars
<1>4. /\ Q(s)' = Q(s) \ {b} /\ b \in Q(s) /\ b \in Own(s) /\ b \in Batches /\ b[1] = s
      /\ \A t \in Scheds : t # s => Q(t)' = Q(t)
  BY <1>2, <1>3, FirstBatch, OwnFacts DEF Q
<1>5. /\ bat'[b] = CleanBatch /\ \A c \in Batches : c # b => bat'[c] = bat[c]
  BY <1>1, <1>3, <1>4, WashedBatches
<1>6. ~Waits(b)'
  <2>1. ~Good(bat'[b].procs)
    BY <1>5 DEF Good, CleanBatch
  <2> QED BY <1>4, <2>1, EmptyIdle
<1>7. Waits(b) /\ Good(bat[b].procs)
  <2>1. WaitsAt(s, b)
    BY <1>3, <1>4 DEF WaitsAt, Lined, InSlot
  <2> QED BY <1>4, <2>1, WaitsIs
<1>8. /\ pc'[s] = "user" /\ \A t \in Scheds : t # s => pc'[t] = pc[t]
      /\ pc'[s] \notin AddLabels \cup ThiefLabels /\ pc[s] \notin AddLabels \cup ThiefLabels
  <2>1. pc'[s] = "user" /\ \A t \in Scheds : t # s => pc'[t] = pc[t]
    BY <1>1, <1>3, GotoPc DEF Labels, HomeLabels
  <2> QED BY <1>3, <2>1 DEF AddLabels, ThiefLabels
<1>9. \A c \in Batches : c # b => BatKept(c)
  BY <1>3, <1>4, <1>5, <1>8, UntouchedKept DEF Adding, Pulled, Pending, Holds
<1>10. curb[s].procs = << >> /\ cur[s] = NotProcess
  BY <1>1, <1>3 DEF ControlAt, Home, AddLabels
<1>11. \A t \in Scheds : pend[t].batch # b
  <2>1. pend[s].batch # b
    BY <1>1, <1>4 DEF BatchesAt, ApartAt
  <2> QED BY <1>4, <2>1, PendWaits, OwnFacts
<1>12. Loads(s, b)
  BY <1>3, <1>4, <1>6, <1>7, <1>9, <1>10, <1>11 DEF Loads
<1> QED BY <1>12, LoadMoves

(* A batch that has been taken out of its slot is loaded by its owner. *)
LEMMA PullClearMoves ==
  ASSUME IInv, IInv', JInv, NEW s \in Scheds, PullClear(s)
  PROVE  JInv' /\ AbsStep
<1>1. Types /\ ControlAt(s) /\ BatchesAt(s)
  BY DEF IInv, Control, Kept
<1>2. pc[s] = "pull_clear" /\ pc[s] \in OwnLabels /\ pc[s] \notin AddLabels \cup ThiefLabels
  BY DEF PullClear, OwnLabels, AddLabels, ThiefLabels
<1>3. PICK b \in Batches : b = job[s] /\ b \in Own(s) /\ b[1] = s
  BY <1>1, <1>2, OwnFacts DEF BatchesAt, OwnedAt
<1>4. /\ Goto(s, "user") /\ LoadCurb(s, b) /\ bat' = Washed({b})
      /\ job' = [job EXCEPT ![s] = NoBatch]
      /\ UNCHANGED <<affinity, mail, pend, rq, slot>>
  BY <1>3 DEF PullClear
<1>5. /\ bat'[b] = CleanBatch /\ \A c \in Batches : c # b => bat'[c] = bat[c]
      /\ job'[s] = NoBatch /\ \A t \in Scheds : t # s => job'[t] = job[t]
  <2>1. /\ bat'[b] = CleanBatch /\ \A c \in Batches : c # b => bat'[c] = bat[c]
    BY <1>1, <1>4, WashedBatches
  <2> QED BY <1>1, <1>4, <2>1 DEF Types
<1>6. ~Waits(b)'
  <2>1. ~Good(bat'[b].procs)
    BY <1>5 DEF Good, CleanBatch
  <2> QED BY <2>1, EmptyIdle
<1>7. Waits(b) /\ Good(bat[b].procs)
  <2>1. WaitsAt(s, b)
    BY <1>2, <1>3 DEF WaitsAt, Pulled
  <2> QED BY <1>3, <2>1, WaitsIs
<1>8. /\ pc'[s] = "user" /\ \A t \in Scheds : t # s => pc'[t] = pc[t]
      /\ pc'[s] \notin AddLabels \cup ThiefLabels
  <2>1. pc'[s] = "user" /\ \A t \in Scheds : t # s => pc'[t] = pc[t]
    BY <1>1, <1>4, GotoPc DEF Labels, HomeLabels
  <2> QED BY <2>1 DEF AddLabels, ThiefLabels
<1>9. \A c \in Batches : c # b => BatKept(c)
  BY <1>2, <1>3, <1>4, <1>5, <1>8, UntouchedKept DEF Adding, Pulled, Pending, Holds, Q
<1>10. curb[s].procs = << >> /\ cur[s] = NotProcess
  BY <1>1, <1>2 DEF ControlAt, Home, AddLabels
<1>11. \A t \in Scheds : pend[t].batch # b
  <2>1. pend[s].batch # b
    BY <1>1, <1>2, <1>3 DEF BatchesAt, ApartAt
  <2> QED BY <1>3, <2>1, PendWaits, OwnFacts
<1>12. Loads(s, b)
  BY <1>3, <1>4, <1>6, <1>7, <1>9, <1>10, <1>11 DEF Loads
<1> QED BY <1>12, LoadMoves

(* A thief loads the batch it has taken. *)
LEMMA StealLoadMoves ==
  ASSUME IInv, IInv', JInv, NEW s \in Scheds, StealLoad(s)
  PROVE  JInv' /\ AbsStep
<1>1. Types /\ ControlAt(s)
  BY DEF IInv, Control
<1>2. /\ pc[s] = "steal_load" /\ Goto(s, "steal_mark") /\ LoadCurb(s, job[s])
      /\ UNCHANGED <<affinity, mail, pend, rq, job, slot>>
  BY DEF StealLoad, queueVars, windowVars
<1>3. PICK b \in Batches : b = job[s]
  BY <1>1, <1>2 DEF Types, ControlAt
<1>4. Holds(s, b) /\ pc[s] # "steal_mark"
  BY <1>2, <1>3, OwnFacts DEF Holds, ThiefLabels
<1>5. /\ Good(bat[b].procs) /\ bat[b].win # 0 /\ \A t \in Scheds : pend[t].batch # b
  BY <1>2, <1>4, HeldFacts DEF StolenBy
<1>6. bat'[b].procs = Dangling /\ \A c \in Batches : c # b => bat'[c] = bat[c]
  <2>1. bat' = [bat EXCEPT ![b].procs = Dangling] /\ bat \in [Batches -> BatSet] /\ bat[b] \in BatSet
    BY <1>1, <1>3 DEF StealLoad, Types
  <2>2. bat' = [bat EXCEPT ![b] = [bat[b] EXCEPT !.procs = Dangling]]
    BY <2>1
  <2>3. [bat[b] EXCEPT !.procs = Dangling].procs = Dangling
    BY <2>1 DEF BatSet
  <2> QED BY <2>1, <2>2, <2>3
<1>7. ~Waits(b)'
  <2>1. <<NotProcess>> \notin Seq(Procs)
    <3>1. 1 \in DOMAIN <<NotProcess>> /\ <<NotProcess>>[1] = NotProcess /\ NotProcess \notin Procs
      BY MigrateAssumption
    <3> QED BY <3>1, LenProperties
  <2>2. ~Good(bat'[b].procs)
    BY <1>6, <2>1 DEF Good, Dangling
  <2> QED BY <2>2, EmptyIdle
<1>8. Waits(b)
  <2>1. PICK v \in Scheds : b \in Own(v)
    BY DEF Batches, Own
  <2>2. WaitsAt(v, b)
    BY <1>4 DEF WaitsAt, Lent
  <2> QED BY <2>1, <2>2, WaitsIs
<1>9. /\ pc'[s] = "steal_mark" /\ \A t \in Scheds : t # s => pc'[t] = pc[t]
      /\ pc'[s] \notin AddLabels /\ pc[s] \notin AddLabels
  <2>1. pc'[s] = "steal_mark" /\ \A t \in Scheds : t # s => pc'[t] = pc[t]
    BY <1>1, <1>2, GotoPc DEF Labels, ThiefLabels
  <2> QED BY <1>2, <2>1 DEF AddLabels
<1>10. \A c \in Batches : c # b => BatKept(c)
  BY <1>2, <1>3, <1>6, <1>9, UntouchedKept DEF Adding, Pulled, Pending, Holds, Q
<1>11. curb[s].procs = << >> /\ cur[s] = NotProcess
  BY <1>1, <1>2 DEF ControlAt, Home, AddLabels
<1>12. Loads(s, b)
  BY <1>2, <1>3, <1>5, <1>7, <1>8, <1>10, <1>11 DEF Loads
<1> QED BY <1>12, LoadMoves

(* What can be allocated does not wait. *)
LEMMA StockIdle ==
  ASSUME IInv, NEW s \in Scheds, Stock(s) # {}, NEW c, c \in Stock(s)
  PROVE  ~Waits(c) /\ c \in Own(s) /\ c \in Batches
<1>1. PICK b : b = Allocated(s)
  OBVIOUS
<1>2. /\ c \in Own(s) /\ ~(c \in Q(s)) /\ c # pend[s].batch
      /\ pc[s] \in OwnLabels => job[s] # c
      /\ \A t \in Scheds : ~Holds(t, c)
  <2>1. /\ Stock(s) \subseteq Own(s)
        /\ Stock(s) \cap (Q(s) \cup {pend[s].batch} \cup (laundry[s] \ ToWash(s))) = {}
        /\ pc[s] \in OwnLabels => job[s] \notin Stock(s)
        /\ \A t \in Scheds, d \in Stock(s) : ~Holds(t, d)
    BY <1>1, StockFacts
  <2>2. ~(c \in Q(s)) /\ c # pend[s].batch
    BY <2>1, Zenon
  <2> QED BY <2>1, <2>2
<1>3. ~WaitsAt(s, c)
  BY <1>2 DEF WaitsAt, Lined, Adding, Pending, Pulled, Lent, OwnLabels
<1> QED BY <1>2, <1>3, OwnFacts, WaitsIs

(* The pending batch is loaded, with a new one in its place. *)
LEMMA PullPendingMoves ==
  ASSUME IInv, IInv', JInv, NEW s \in Scheds, PullPending(s)
  PROVE  JInv' /\ AbsStep
<1>1. Types /\ ControlAt(s) /\ BatchesAt(s)
  BY DEF IInv, Control, Kept
<1>2. PICK b \in Batches, old \in Batches : b = Allocated(s) /\ old = pend[s].batch
  <2>1. Stock(s) # {}
    BY DEF PullPending
  <2> QED BY <2>1, WashedToo
<1>3. PICK W \in SUBSET Batches : W = ToWash(s)
  BY CleanFacts
<1>4. /\ pc[s] \in {"sched", "pick"} /\ pend[s].on /\ Stock(s) # {} /\ LoadCurb(s, old)
      /\ pc[s] = "sched" => curb[s].procs = << >>
      /\ pend' = [pend EXCEPT ![s] = [batch |-> b, on |-> FALSE, aff |-> {}]]
      /\ bat' = Washed(W \cup {old}) /\ Goto(s, "user")
      /\ UNCHANGED <<affinity, mail, rq, job, slot>>
  BY <1>2, <1>3 DEF PullPending, Picks, AtTop, windowVars
<1>5. /\ pend'[s].batch = b /\ ~pend'[s].on /\ pend'[s].aff = {}
      /\ \A t \in Scheds : t # s => pend'[t] = pend[t]
  BY <1>1, <1>4 DEF Types
<1>6. old \in Own(s) /\ old[1] = s /\ Waits(old) /\ Good(bat[old].procs)
  <2>1. old \in Own(s) /\ Waits(old)
    BY <1>2, <1>4, PendWaits
  <2> QED BY <2>1, OwnFacts, WaitsIs
<1>7. /\ bat'[old] = CleanBatch
      /\ \A c \in W : bat'[c] = CleanBatch
      /\ \A c \in Batches : c \notin W \cup {old} => bat'[c] = bat[c]
  <2>1. W \cup {old} \in SUBSET Batches
    OBVIOUS
  <2> QED BY <1>1, <1>4, <2>1, WashedBatches
<1>8. /\ pc'[s] = "user" /\ \A t \in Scheds : t # s => pc'[t] = pc[t]
      /\ pc'[s] \notin AddLabels \cup ThiefLabels /\ pc[s] \notin AddLabels \cup ThiefLabels
  <2>1. pc'[s] = "user" /\ \A t \in Scheds : t # s => pc'[t] = pc[t]
    BY <1>1, <1>4, GotoPc DEF Labels, HomeLabels
  <2> QED BY <1>4, <2>1 DEF AddLabels, ThiefLabels
<1>9. \A c \in Batches : ~Good(bat'[c].procs) => ~Waits(c)'
  BY EmptyIdle
<1>10. ~Waits(old)' /\ \A c \in W : ~Waits(c)'
  <2>1. ~Good(CleanBatch.procs)
    BY DEF Good, CleanBatch
  <2> QED BY <1>7, <1>9, <2>1
<1>11. \A c \in Batches : c # old => BatKept(c)
  <2>1. \A c \in W : BatKept(c)
    <3>1. W \subseteq Stock(s)
      BY <1>3 DEF Stock
    <3> QED BY <1>4, <1>10, <3>1, StockIdle DEF BatKept
  <2>2. ASSUME NEW c \in Batches, c # old, c \notin W PROVE BatKept(c)
    <3>1. bat'[c] = bat[c]
      BY <1>7, <2>2
    <3>2. \A t \in Scheds : /\ Pending(t, c)' <=> Pending(t, c)
                            /\ c \in Q(t)' <=> c \in Q(t)
      BY <1>2, <1>4, <1>5, <1>8, <2>2 DEF Pending, Q
    <3>3. \A t \in Scheds : /\ Adding(t, c)' <=> Adding(t, c)
                            /\ Pulled(t, c)' <=> Pulled(t, c)
                            /\ (Holds(t, c) /\ pc[t] # "steal_mark")' <=> Holds(t, c) /\ pc[t] # "steal_mark"
      BY <1>4, <1>8 DEF Adding, Pulled, Holds
    <3> QED BY <1>4, <3>1, <3>2, <3>3, UntouchedKept
  <2> QED BY <2>1, <2>2
<1>12. curb[s].procs = << >> /\ cur[s] = NotProcess
  BY <1>1, <1>4 DEF ControlAt, Home, AddLabels
<1>13. \A t \in Scheds : t # s => pend[t].batch # old
  BY <1>6, PendWaits, OwnFacts
<1>14. Loads(s, old)
  BY <1>4, <1>5, <1>6, <1>10, <1>11, <1>12, <1>13 DEF Loads
<1> QED BY <1>14, LoadMoves

-----------------------------------------------------------------------------
(***************************************************************************)
(* Steps that put processes into the pending batch.                        *)
(***************************************************************************)
(* A batch waits as before, unless it was the pending batch and is shown.  *)
BatPassed(s, c) ==
  /\ Waits(c)' <=> Waits(c)
  /\ Waits(c) => /\ bat'[c].procs = bat[c].procs
                 /\ bat'[c].win # 0 => bat[c].win # 0 \/ (Pending(s, c) /\ pend[s].aff = {})

(* The processes N of affinity a are put into b, the pending batch of s;   *)
(* what was in b before has the same affinity.                             *)
Pended(s, b, N, a) ==
  /\ b \in Own(s)
  /\ pend'[s].batch = b /\ pend'[s].on /\ pend'[s].aff = a
  /\ \A t \in Scheds : t # s => pend'[t] = pend[t]
  /\ \A c \in Batches : c # b => BatPassed(s, c)
  /\ Waits(b)' /\ bat'[b].win = 0
  /\ \A p \in Procs : p \in ToSet(bat'[b].procs) <=> p \in N \/ InB(b, p)
  /\ (Waits(b) => Once(bat[b].procs)) /\ (\A p \in N : ~InB(b, p)) => Once(bat'[b].procs)
  /\ Waits(b) => Pending(s, b) /\ pend[s].aff = a

(* N were in no batch and have affinity a, which allows s.                 *)
Fits(s, N, a) ==
  /\ N \subseteq Procs /\ Allowed(s, a)
  /\ \A p \in N : affinity'[p] = a /\ \A c \in Batches : ~InB(c, p)
  /\ \A p \in Procs : p \notin N => affinity'[p] = affinity[p]

(* Every batch still has one affinity. *)
LEMMA PendedTied ==
  ASSUME IInv, Tied, NEW s \in Scheds, NEW b, NEW N, NEW a, Pended(s, b, N, a), Fits(s, N, a)
  PROVE  /\ \A c \in Batches : BatTied(c)'
         /\ \A t \in Scheds : PendTied(t)'
         /\ \A c \in Batches, p \in Procs : InB(c, p)' <=> (p \in N /\ c = b) \/ InB(c, p)
<1>0. /\ N \subseteq Procs /\ Allowed(s, a)
      /\ \A p \in N : affinity'[p] = a /\ \A c \in Batches : ~InB(c, p)
      /\ \A p \in Procs : p \notin N => affinity'[p] = affinity[p]
  BY DEF Fits
<1>1. b \in Own(s) /\ b \in Batches /\ b[1] = s /\ Waits(b)' /\ bat'[b].win = 0
  BY OwnFacts DEF Pended
<1>2. \A p \in Procs : InB(b, p)' <=> p \in N \/ InB(b, p)
  BY <1>1 DEF Pended, InB
<1>3. \A c \in Batches : c # b => /\ BatPassed(s, c)
                                  /\ \A p \in Procs : InB(c, p)' <=> InB(c, p)
  BY DEF Pended, BatPassed, InB
<1>4. \A p \in Procs : InB(b, p) => affinity[p] = a
  <2> SUFFICES ASSUME NEW p \in Procs, InB(b, p) PROVE affinity[p] = a
    OBVIOUS
  <2>1. Waits(b) /\ Pending(s, b) /\ pend[s].aff = a /\ PendTied(s)
    BY DEF Pended, InB, Tied
  <2> QED BY <2>1 DEF PendTied, Pending, InB
<1>5. \A p \in Procs : InB(b, p)' => affinity'[p] = a
  BY <1>0, <1>1, <1>2, <1>4
<1>6. BatTied(b)'
  <2>1. BatTied(b)
    BY <1>1 DEF Tied
  <2>2. Once(bat'[b].procs)
    BY <1>0, <1>1, <2>1 DEF Pended, BatTied
  <2>3. \A p \in Procs : InB(b, p)' => Allowed(b[1], affinity'[p])
    BY <1>0, <1>1, <1>5
  <2> QED BY <1>1, <1>5, <2>2, <2>3 DEF BatTied
<1>7. ASSUME NEW c \in Batches, c # b PROVE BatTied(c)'
  <2>1. BatTied(c) /\ BatPassed(s, c) /\ \A p \in Procs : InB(c, p)' <=> InB(c, p)
    BY <1>3, <1>7 DEF Tied
  <2>2. CASE ~Waits(c)
    BY <2>1, <2>2 DEF BatTied, BatPassed, InB
  <2>3. CASE Waits(c)
    <3>1. \A p \in Procs : InB(c, p) => affinity'[p] = affinity[p]
      BY <1>0
    <3>2. ASSUME NEW p \in Procs, InB(c, p), bat'[c].win # 0 PROVE affinity[p] = {}
      <4>1. CASE bat[c].win # 0
        BY <2>1, <3>2, <4>1 DEF BatTied
      <4>2. CASE Pending(s, c) /\ pend[s].aff = {}
        BY <3>2, <4>2 DEF Tied, PendTied, Pending, InB
      <4> QED BY <2>1, <2>3, <3>2, <4>1, <4>2 DEF BatPassed
    <3>3. Waits(c)' /\ bat'[c].procs = bat[c].procs
      BY <2>1, <2>3 DEF BatPassed
    <3> QED BY <2>1, <2>3, <3>1, <3>2, <3>3 DEF BatTied
  <2> QED BY <2>2, <2>3
<1>8. ASSUME NEW t \in Scheds PROVE PendTied(t)'
  <2>1. CASE t = s
    <3>1. pend'[s].batch = b /\ pend'[s].aff = a
      BY DEF Pended
    <3>2. \A p \in Procs : p \in ToSet(bat'[b].procs) => affinity'[p] = a
      BY <1>1, <1>5 DEF InB
    <3> QED BY <1>0, <2>1, <3>1, <3>2 DEF PendTied
  <2>2. CASE t # s
    <3>1. PendTied(t) /\ pend'[t] = pend[t]
      BY <2>2 DEF Tied, Pended
    <3>2. pend[t].batch \in Batches /\ pend[t].batch # b /\ (pend[t].on => Waits(pend[t].batch))
      BY <1>1, <2>2, PendWaits, OwnFacts
    <3>3. BatPassed(s, pend[t].batch)
      BY <1>3, <3>2
    <3>4. ASSUME pend[t].on, NEW p \in Procs, p \in ToSet(bat'[pend[t].batch].procs)
          PROVE  affinity'[p] = pend[t].aff
      <4>1. p \in ToSet(bat[pend[t].batch].procs) /\ InB(pend[t].batch, p)
        BY <3>2, <3>3, <3>4 DEF BatPassed, InB
      <4> QED BY <1>0, <3>1, <3>2, <3>4, <4>1 DEF PendTied
    <3> QED BY <3>1, <3>4 DEF PendTied
  <2> QED BY <2>1, <2>2
<1>9. ASSUME NEW c \in Batches, NEW p \in Procs
      PROVE  InB(c, p)' <=> (p \in N /\ c = b) \/ InB(c, p)
  <2>1. CASE c = b
    BY <1>0, <1>2, <2>1
  <2>2. CASE c # b
    BY <1>0, <1>3, <2>2
  <2> QED BY <2>1, <2>2
<1> QED BY <1>6, <1>7, <1>8, <1>9

(* A process is added to the pending batch. *)
LEMMA AddPended ==
  ASSUME IInv, IInv', NEW s \in Scheds, NEW p \in Procs, NEW a \in SUBSET Scheds, NEW from,
         AddPending(s, p, a), SameBatch(s, a), Goto(s, from), pc[s] \in HomeLabels, from \in HomeLabels
  PROVE  \E b : Pended(s, b, {p}, a)
<1>1. Types /\ ControlAt(s) /\ BatchesAt(s)
  BY DEF IInv, Control, Kept
<1>2. PICK o \in Batches : o = pend[s].batch /\ o \in Own(s)
  BY <1>1, OwnFacts DEF BatchesAt, OwnedAt
<1>3. PICK r \in Seq(Procs) : r = bat[o].procs /\ (~pend[s].on => r = << >>) /\ bat[o].win = 0
  <2>1. CleanBatch.procs \in Seq(Procs) /\ CleanBatch.procs = << >>
    BY DEF CleanBatch
  <2>2. /\ bat[o].win = 0
        /\ ~pend[s].on => bat[o] = CleanBatch
        /\ pend[s].on => Good(bat[o].procs)
    BY <1>1, <1>2 DEF BatchesAt, StockedAt
  <2> QED BY <2>1, <2>2 DEF Good
<1>4. PICK q \in Seq(Procs) : /\ q = Append(r, p) /\ ToSet(q) = ToSet(r) \cup {p}
                              /\ Once(r) /\ p \notin ToSet(r) => Once(q)
  BY AppendOnce
<1>5. UNCHANGED <<job, rq, slot>>
  BY DEF AddPending
<1>6. /\ bat'[o].procs = q /\ bat'[o].win = 0
      /\ \A c \in Batches : c # o => bat'[c] = bat[c]
  <2>1. bat \in [Batches -> BatSet] /\ bat[o] \in BatSet
    BY <1>1 DEF Types
  <2>2. bat' = [bat EXCEPT ![o] = [bat[o] EXCEPT !.procs = q]]
    BY <1>2, <1>3, <1>4, <2>1 DEF AddPending
  <2>3. PICK z \in BatSet : z = bat[o] /\ z.win = 0
    BY <1>3, <2>1
  <2>4. PICK y : y = [z EXCEPT !.procs = q]
    OBVIOUS
  <2>5. y.procs = q /\ y.win = z.win
    BY <2>4 DEF BatSet
  <2>6. bat' = [bat EXCEPT ![o] = y]
    BY <2>2, <2>3, <2>4
  <2> QED BY <2>1, <2>3, <2>5, <2>6
<1>7. /\ pend'[s].batch = o /\ pend'[s].on /\ pend'[s].aff = a
      /\ \A t \in Scheds : t # s => pend'[t] = pend[t]
  <2>1. pend \in [Scheds -> PendSet] /\ pend[s] \in PendSet
    BY <1>1 DEF Types
  <2>2. pend' = [pend EXCEPT ![s] = [pend[s] EXCEPT !.on = TRUE, !.aff = a]]
    BY <2>1 DEF AddPending
  <2>3. PICK z \in PendSet : z = pend[s]
    BY <2>1
  <2>4. PICK y : y = [z EXCEPT !.on = TRUE, !.aff = a]
    OBVIOUS
  <2>5. y.batch = z.batch /\ y.on /\ y.aff = a
    BY <2>4 DEF PendSet
  <2>6. pend' = [pend EXCEPT ![s] = y]
    BY <2>2, <2>3, <2>4
  <2> QED BY <1>2, <2>1, <2>3, <2>5, <2>6
<1>8. /\ pc'[s] = from /\ \A t \in Scheds : t # s => pc'[t] = pc[t]
      /\ from \notin AddLabels \cup ThiefLabels /\ pc[s] \notin AddLabels \cup ThiefLabels
      /\ from # "pull_clear" /\ pc[s] # "pull_clear"
  BY <1>1, GotoPc, HomeKinds
<1>9. \A c \in Batches : c # o => BatKept(c)
  BY <1>2, <1>5, <1>6, <1>7, <1>8, UntouchedKept DEF Adding, Pulled, Pending, Holds, Q
<1>10. Waits(o)' /\ (Waits(o) => pend[s].on)
  <2>1. WaitsAt(s, o)'
    BY <1>7 DEF WaitsAt, Pending
  <2>2. Waits(o) => Good(bat[o].procs)
    BY <1>2, WaitsIs
  <2> QED BY <1>2, <1>3, <2>1, <2>2, WaitsNext DEF Good
<1>11. pend[s].on => pend[s].aff = a /\ Waits(o)
  BY <1>2, PendWaits DEF SameBatch
<1>12. \A x \in Procs : x \in ToSet(bat'[o].procs) <=> x \in {p} \/ InB(o, x)
  <2>1. ToSet(<< >>) = {}
    BY DEF ToSet
  <2>2. \A x \in Procs : InB(o, x) <=> x \in ToSet(r)
    BY <1>3, <1>10, <1>11, <2>1 DEF InB
  <2> QED BY <1>4, <1>6, <2>2
<1>13. ASSUME Waits(o) => Once(bat[o].procs), ~InB(o, p) PROVE Once(bat'[o].procs)
  <2>1. ToSet(<< >>) = {} /\ Once(<< >>)
    BY DEF ToSet, Once
  <2>2. Once(r) /\ p \notin ToSet(r)
    <3>1. CASE pend[s].on
      BY <1>3, <1>11, <1>13, <3>1 DEF InB
    <3>2. CASE ~pend[s].on
      BY <1>3, <2>1, <3>2
    <3> QED BY <3>1, <3>2
  <2> QED BY <1>4, <1>6, <2>2
<1>14. \A c \in Batches : c # o => BatPassed(s, c)
  BY <1>9 DEF BatKept, BatPassed
<1>15. Waits(o) => Pending(s, o) /\ pend[s].aff = a
  BY <1>2, <1>10, <1>11 DEF Pending
<1>16. Pended(s, o, {p}, a)
  BY <1>2, <1>6, <1>7, <1>10, <1>12, <1>13, <1>14, <1>15 DEF Pended
<1> QED BY <1>16

(* A new pending batch. *)
LEMMA NewPended ==
  ASSUME IInv, IInv', NEW s \in Scheds, NEW procs \in Seq(Procs), Once(procs), NEW a,
         NEW b \in Own(s), ~Waits(b),
         bat'[b] = [procs |-> procs, dirty |-> FALSE, win |-> 0],
         pend'[s].batch = b, pend'[s].on, pend'[s].aff = a,
         \A t \in Scheds : t # s => pend'[t] = pend[t],
         \A c \in Batches : c # b => BatPassed(s, c)
  PROVE  Pended(s, b, ToSet(procs), a)
<1>1. bat'[b].procs = procs /\ bat'[b].win = 0
  OBVIOUS
<1>2. WaitsAt(s, b)'
  BY DEF WaitsAt, Pending
<1>3. Waits(b)'
  BY <1>2, WaitsNext
<1>4. \A p \in Procs : ~InB(b, p)
  BY DEF InB
<1> QED BY <1>1, <1>3, <1>4 DEF Pended

(* The pending batch was not in use. *)
LEMMA SwapPended ==
  ASSUME IInv, IInv', NEW s \in Scheds, NEW procs \in Seq(Procs), Once(procs), NEW a \in SUBSET Scheds,
         NEW from, SwapPending(s, procs, TRUE, a), ~pend[s].on, Goto(s, from),
         pc[s] \in HomeLabels, from \in HomeLabels
  PROVE  \E b : Pended(s, b, ToSet(procs), a)
<1>1. Types /\ BatchesAt(s)
  BY DEF IInv, Kept
<1>2. Stock(s) # {}
  BY DEF SwapPending
<1>3. PICK b \in Batches, old \in Batches : b = Allocated(s) /\ old = pend[s].batch
  BY <1>2, WashedToo
<1>4. PICK f \in [Batches -> BatSet] : f = Washed(ToWash(s)) /\ f[b] = CleanBatch
  BY <1>2, <1>3, WashedToo
<1>5. bat[old] = CleanBatch /\ ~Good(CleanBatch.procs) /\ old \in Own(s)
  BY <1>1, <1>3, PendWaits DEF BatchesAt, StockedAt, Good, CleanBatch
<1>6. /\ pend' = [pend EXCEPT ![s] = [batch |-> b, on |-> TRUE, aff |-> a]]
      /\ bat' = [f EXCEPT ![b].procs = procs]
      /\ UNCHANGED <<rq, slot, job>>
  <2>1. Washed(ToWash(s) \cup {old}) = f
    BY <1>2, <1>3, <1>4, <1>5, WashedToo
  <2> QED BY <1>3, <2>1 DEF SwapPending
<1>7. /\ bat'[b] = [procs |-> procs, dirty |-> FALSE, win |-> 0]
      /\ \A c \in Batches : c # b => bat'[c] = f[c]
  <2>1. PICK g : g = bat'
    OBVIOUS
  <2>2. g = [f EXCEPT ![b].procs = procs]
    BY <1>6, <2>1
  <2>3. /\ g[b] = [procs |-> procs, dirty |-> FALSE, win |-> 0]
        /\ \A c \in Batches : c # b => g[c] = f[c]
    <3>1. f[b] = CleanBatch
      BY <1>4
    <3> QED BY ONLY f \in [Batches -> BatSet], b \in Batches, procs \in Seq(Procs), <2>2, <3>1, BatUpdate
  <2> QED BY <2>1, <2>3
<1>8. /\ \A c \in ToWash(s) : f[c] = CleanBatch
      /\ \A c \in Batches : c \notin ToWash(s) => f[c] = bat[c]
      /\ ToWash(s) \subseteq Stock(s)
  <2>1. ToWash(s) \in SUBSET Batches
    BY CleanFacts
  <2> QED BY <1>1, <1>4, <2>1, WashedBatches DEF Stock
<1>9. /\ pend'[s].batch = b /\ pend'[s].on /\ pend'[s].aff = a
      /\ \A t \in Scheds : t # s => pend'[t] = pend[t]
  BY <1>1, <1>6 DEF Types
<1>10. b \in Own(s) /\ ~Waits(b)
  <2>1. b \in Stock(s)
    BY <1>2, <1>3, StockFacts
  <2> QED BY <1>2, <2>1, StockIdle
<1>11. /\ pc'[s] = from /\ \A t \in Scheds : t # s => pc'[t] = pc[t]
       /\ from \notin AddLabels \cup ThiefLabels /\ pc[s] \notin AddLabels \cup ThiefLabels
       /\ from # "pull_clear" /\ pc[s] # "pull_clear"
  BY <1>1, GotoPc, HomeKinds
<1>12. ASSUME NEW c \in Batches, c # b PROVE BatKept(c)
  <2>1. CASE c \in ToWash(s)
    <3>1. ~Waits(c)
      BY <1>2, <1>8, <2>1, StockIdle
    <3>2. ~Waits(c)'
      <4>1. ~Good(bat'[c].procs)
        BY <1>5, <1>7, <1>8, <1>12, <2>1
      <4> QED BY <4>1, EmptyIdle
    <3> QED BY <3>1, <3>2 DEF BatKept
  <2>2. CASE c \notin ToWash(s)
    <3>1. bat'[c] = bat[c]
      BY <1>7, <1>8, <1>12, <2>2
    <3>2. \A t \in Scheds : Pending(t, c)' <=> Pending(t, c)
      BY <1>9, <1>12 DEF Pending
    <3> QED BY <1>6, <1>11, <3>1, <3>2, UntouchedKept DEF Adding, Pulled, Holds, Q
  <2> QED BY <2>1, <2>2
<1>13. \A c \in Batches : c # b => BatPassed(s, c)
  BY <1>12 DEF BatKept, BatPassed
<1>14. Pended(s, b, ToSet(procs), a)
  BY <1>7, <1>9, <1>10, <1>13, NewPended
<1> QED BY <1>14

(* The pending batch is added to the run queue out of sight. *)
LEMMA HiddenPended ==
  ASSUME IInv, IInv', NEW s \in Scheds, NEW procs \in Seq(Procs), procs # << >>, Once(procs),
         NEW a \in SUBSET Scheds, NEW from, ReplacePending(s, procs, a, from),
         pc[s] \in HomeLabels, from \in HomeLabels, Hides(pend[s].aff)
  PROVE  \E b : Pended(s, b, ToSet(procs), a)
<1>1. Types /\ BatchesAt(s)
  BY DEF IInv, Kept
<1>2. PICK b, old, S, W, g : Replaced(s, procs, a, from, b, old, S, W, g)
  BY ReplaceFacts
<1>3. /\ b \in S /\ b \in Own(s) /\ b \in Batches /\ old \in Own(s) /\ old \in Batches
      /\ S \subseteq Own(s) /\ S \subseteq Batches /\ b # old /\ old \notin S
      /\ old \notin Q(s) \cup laundry[s]
      /\ S = Stock(s) /\ Stock(s) # {} /\ old = pend[s].batch /\ pend[s].on
  BY <1>2 DEF Replaced
<1>4. /\ g \in [Batches -> BatSet] /\ g[b] = [procs |-> procs, dirty |-> FALSE, win |-> 0]
      /\ \A c \in S \ {b} : g[c] = CleanBatch
      /\ \A c \in Batches : c \notin S => g[c] = bat[c]
      /\ AddToRunqueue(s, old, pend[s].aff, g, from)
      /\ bat[old].win = 0 /\ ~bat[old].dirty
  BY <1>2 DEF Replaced
<1>5. /\ pend'[s].batch = b /\ pend'[s].on /\ pend'[s].aff = a
      /\ \A t \in Scheds : t # s => pend'[t] = pend[t]
  BY <1>2 DEF Replaced
<1>6. /\ rq' = [rq EXCEPT ![s] = Append(@, old)] /\ bat' = SetClean(g, old) /\ Goto(s, from)
      /\ UNCHANGED <<slot, job>>
  BY <1>4 DEF AddToRunqueue, AddLocal
<1>7. bat' = g
  <2>1. g[old] \in BatSet /\ g[old].dirty = FALSE /\ g[old].win = 0
    <3>1. g[old] = bat[old] /\ g[old] \in BatSet
      BY <1>3, <1>4
    <3> QED BY <1>4, <3>1 DEF BatSet
  <2>2. bat' = [g EXCEPT ![old].dirty = FALSE, ![old].win = 0]
    BY <1>6 DEF SetClean
  <2>3. bat' = [g EXCEPT ![old] = [g[old] EXCEPT !.dirty = FALSE, !.win = 0]]
    BY <1>3, <1>4, <2>2
  <2>4. [g[old] EXCEPT !.dirty = FALSE, !.win = 0] = g[old]
    BY <2>1 DEF BatSet
  <2> QED BY <1>4, <2>3, <2>4
<1>8. /\ Q(s)' = Q(s) \cup {old}
      /\ \A t \in Scheds : t # s => rq'[t] = rq[t]
  <2>1. rq \in [Scheds -> Seq(Batches)] /\ rq[s] \in Seq(Batches)
    BY <1>1 DEF Types
  <2>2. ToSet(Append(rq[s], old)) = ToSet(rq[s]) \cup {old}
    BY <1>3, <2>1, AppendOnce
  <2>3. rq'[s] = Append(rq[s], old) /\ \A t \in Scheds : t # s => rq'[t] = rq[t]
    BY <1>6, <2>1
  <2> QED BY <2>2, <2>3 DEF Q
<1>9. /\ pc'[s] = from /\ \A t \in Scheds : t # s => pc'[t] = pc[t]
      /\ from \notin AddLabels \cup ThiefLabels /\ pc[s] \notin AddLabels \cup ThiefLabels
      /\ from # "pull_clear" /\ pc[s] # "pull_clear"
  BY <1>1, <1>6, GotoPc, HomeKinds
<1>10. ASSUME NEW c \in Batches, c # b PROVE BatKept(c)
  <2>1. CASE c \in S
    <3>1. ~Waits(c)
      BY <1>3, <2>1, StockIdle
    <3>2. ~Good(CleanBatch.procs)
      BY DEF Good, CleanBatch
    <3>3. ~Waits(c)'
      BY <1>4, <1>7, <1>10, <2>1, <3>2, EmptyIdle
    <3> QED BY <3>1, <3>3 DEF BatKept
  <2>2. CASE c = old
    <3>1. Waits(old)
      BY <1>3, PendWaits
    <3>2. bat'[old] = bat[old]
      BY <1>3, <1>4, <1>7
    <3>3. WaitsAt(s, old)'
      BY <1>4, <1>8, <3>2 DEF WaitsAt, Lined, InSlot
    <3>4. Waits(old)'
      BY <1>3, <3>3, WaitsNext
    <3> QED BY <2>2, <3>1, <3>2, <3>4 DEF BatKept
  <2>3. CASE c \notin S /\ c # old
    <3>1. bat'[c] = bat[c]
      BY <1>4, <1>7, <2>3
    <3>2. \A t \in Scheds : /\ Pending(t, c)' <=> Pending(t, c)
                            /\ c \in Q(t)' <=> c \in Q(t)
      BY <1>3, <1>5, <1>8, <1>10, <2>3 DEF Pending, Q
    <3> QED BY <1>6, <1>9, <3>1, <3>2, UntouchedKept DEF Adding, Pulled, Holds
  <2> QED BY <2>1, <2>2, <2>3
<1>11. \A c \in Batches : c # b => BatPassed(s, c)
  BY <1>10 DEF BatKept, BatPassed
<1>12. Pended(s, b, ToSet(procs), a)
  <2>1. ~Waits(b)
    BY <1>3, StockIdle
  <2> QED BY <1>3, <1>4, <1>5, <1>7, <1>11, <2>1, NewPended
<1> QED BY <1>12

(* The pending batch, without affinity, is put into a slot; the batch that *)
(* was in this slot, if any, still waits in the run queue.                 *)
LEMMA ShownPended ==
  ASSUME IInv, IInv', NEW s \in Scheds, NEW procs \in Seq(Procs), procs # << >>, Once(procs),
         NEW a \in SUBSET Scheds, NEW from, ReplacePending(s, procs, a, from),
         pc[s] \in HomeLabels, from \in HomeLabels, ~Hides(pend[s].aff)
  PROVE  \E b : Pended(s, b, ToSet(procs), a)
<1>1. Types /\ BatchesAt(s)
  BY DEF IInv, Kept
<1>2. PICK b, old, S, W, g : Replaced(s, procs, a, from, b, old, S, W, g)
  BY ReplaceFacts
<1>3. /\ b \in S /\ b \in Own(s) /\ b \in Batches /\ old \in Own(s) /\ old \in Batches
      /\ S \subseteq Own(s) /\ S \subseteq Batches /\ b # old /\ old \notin S
      /\ old \notin Q(s) \cup laundry[s]
      /\ \A k \in Slots : slot[s][k] \notin S \cup {old}
      /\ S = Stock(s) /\ Stock(s) # {} /\ old = pend[s].batch /\ pend[s].on
  BY <1>2 DEF Replaced
<1>4. /\ g \in [Batches -> BatSet] /\ g[b] = [procs |-> procs, dirty |-> FALSE, win |-> 0]
      /\ \A c \in S \ {b} : g[c] = CleanBatch
      /\ \A c \in Batches : c \notin S => g[c] = bat[c]
      /\ AddToRunqueue(s, old, pend[s].aff, g, from)
  BY <1>2 DEF Replaced
<1>5. /\ pend'[s].batch = b /\ pend'[s].on /\ pend'[s].aff = a
      /\ \A t \in Scheds : t # s => pend'[t] = pend[t]
  BY <1>2 DEF Replaced
<1>6. PICK w : w = IncrementHead(head[s]) /\ w \in Slots /\ w \in 0..Size /\ w # 0
  BY <1>1, NextHead DEF Types
<1>7. PICK x \in Batches \cup {NoBatch} : x = slot[s][w]
  BY <1>1, <1>6 DEF Types
<1>8. /\ slot' = [slot EXCEPT ![s][w] = old]
      /\ bat' = ReclaimOld(Marked(g, old, w), x)
      /\ job' = [job EXCEPT ![s] = old]
      /\ Goto(s, "add_state") /\ rq' = rq
  BY <1>4, <1>6, <1>7 DEF AddToRunqueue, FillSlot, Marked
<1>9. /\ slot'[s][w] = old
      /\ \A t \in Scheds : t # s => slot'[t] = slot[t]
      /\ \A k \in Slots : k # w => slot'[s][k] = slot[s][k]
      /\ job'[s] = old /\ \A t \in Scheds : t # s => job'[t] = job[t]
  BY <1>1, <1>3, <1>6, <1>8 DEF Types
<1>10. /\ pc'[s] \in AddLabels /\ pc'[s] \notin ThiefLabels /\ pc'[s] # "pull_clear"
       /\ \A t \in Scheds : t # s => pc'[t] = pc[t]
       /\ pc[s] \notin AddLabels \cup ThiefLabels /\ pc[s] # "pull_clear"
  <2>1. pc'[s] = "add_state" /\ \A t \in Scheds : t # s => pc'[t] = pc[t]
    BY <1>1, <1>8, GotoPc DEF Labels, OwnLabels, AddLabels
  <2>2. "add_state" \in AddLabels /\ "add_state" \notin ThiefLabels /\ "add_state" # "pull_clear"
    BY DEF AddLabels, ThiefLabels
  <2> QED BY <2>1, <2>2, HomeKinds
<1>11. /\ x # old /\ x \notin S
       /\ x # NoBatch => x \in Batches /\ x \in Q(s) /\ bat[x].win = w
  <2>1. x # old /\ x \notin S
    BY <1>3, <1>6, <1>7
  <2>2. ASSUME x # NoBatch PROVE x \in Batches /\ x \in Q(s) /\ bat[x].win = w
    <3>1. x \in Batches /\ slot[s][w] = x
      BY <1>7, <2>2
    <3> QED BY <1>1, <1>6, <1>10, <3>1 DEF BatchesAt, ShownAt, Adding
  <2> QED BY <2>1, <2>2
<1>12. /\ bat'[old].procs = bat[old].procs /\ bat'[old].win = w
       /\ x # NoBatch => bat'[x].procs = bat[x].procs /\ bat'[x].win = 0
       /\ bat'[b] = [procs |-> procs, dirty |-> FALSE, win |-> 0]
       /\ \A c \in S \ {b} : bat'[c] = CleanBatch
       /\ \A c \in Batches : c \notin S \cup {old, x} => bat'[c] = bat[c]
  <2>1. /\ bat'[old].procs = g[old].procs /\ bat'[old].win = w
        /\ x # NoBatch => bat'[x].procs = g[x].procs /\ bat'[x].win = 0
        /\ \A c \in Batches : c \notin {old, x} => bat'[c] = g[c]
    <3>1. PICK h : h = bat'
      OBVIOUS
    <3>2. h = ReclaimOld(Marked(g, old, w), x)
      BY <1>8, <3>1
    <3>3. g \in [Batches -> BatSet] /\ old \in Batches /\ x # old
      BY <1>3, <1>4, <1>11
    <3>4. /\ h[old].procs = g[old].procs /\ h[old].win = w
          /\ x # NoBatch => h[x].procs = g[x].procs /\ h[x].win = 0
          /\ \A c \in Batches : c \notin {old, x} => h[c] = g[c]
      BY <1>6, <1>7, <3>2, <3>3, FilledBatches
    <3> QED BY <3>1, <3>4
  <2>2. g[old] = bat[old] /\ (x # NoBatch => g[x] = bat[x])
    BY <1>3, <1>4, <1>11
  <2>3. b \notin {old, x} /\ \A c \in S : c \in Batches /\ c \notin {old, x}
    BY <1>3, <1>11
  <2>4. bat'[b] = g[b] /\ \A c \in S \ {b} : bat'[c] = g[c]
    BY <1>3, <2>1, <2>3
  <2>5. \A c \in Batches : c \notin S \cup {old, x} => bat'[c] = bat[c]
    BY <1>4, <2>1
  <2> QED BY <1>4, <2>1, <2>2, <2>4, <2>5
<1>13. Q(s)' = Q(s) /\ \A t \in Scheds : Q(t)' = Q(t)
  BY <1>8 DEF Q
<1>14. ASSUME NEW c \in S, c # b PROVE BatPassed(s, c)
  <2>1. ~Waits(c) /\ c \in Batches
    BY <1>3, StockIdle
  <2>2. ~Good(CleanBatch.procs)
    BY DEF Good, CleanBatch
  <2>3. ~Waits(c)'
    BY <1>12, <1>14, <2>1, <2>2, EmptyIdle
  <2> QED BY <2>1, <2>3 DEF BatPassed
<1>15. BatPassed(s, old)
  <2>1. Waits(old) /\ Pending(s, old) /\ pend[s].aff = {}
    BY <1>3, PendWaits DEF Pending, Hides
  <2>2. Adding(s, old)' /\ InSlot(s, old)'
    BY <1>9, <1>10, <1>12 DEF Adding, InSlot
  <2>3. WaitsAt(s, old)'
    BY <2>2 DEF WaitsAt, Lined
  <2>4. Waits(old)'
    BY <1>3, <2>3, WaitsNext
  <2> QED BY <1>12, <2>1, <2>4 DEF BatPassed
<1>16. ASSUME x # NoBatch PROVE BatPassed(s, x)
  <2>1. x \in Own(s)
    BY <1>1, <1>11, <1>16 DEF BatchesAt, OwnedAt
  <2>2. InSlot(s, x) /\ InSlot(s, x)'
    BY <1>7, <1>11, <1>12, <1>16 DEF InSlot
  <2>3. WaitsAt(s, x) /\ WaitsAt(s, x)'
    BY <1>11, <1>13, <1>16, <2>2 DEF WaitsAt, Lined
  <2>4. Waits(x) /\ Waits(x)'
    BY <2>1, <2>3, WaitsIs, WaitsNext
  <2> QED BY <1>12, <1>16, <2>4 DEF BatPassed
<1>17. ASSUME NEW c \in Batches, c \notin S \cup {old, x} PROVE BatPassed(s, c)
  <2>1. PICK v \in Scheds : c \in Own(v)
    BY DEF Batches, Own
  <2>2. bat'[c] = bat[c] /\ c # b /\ (bat[c].win # 0 => bat[c].win \in Slots)
    <3>1. bat[c] \in BatSet
      BY <1>1 DEF Types
    <3>2. bat[c].win # 0 => bat[c].win \in Slots
      BY <3>1, MigrateAssumption DEF BatSet, Slots
    <3> QED BY <1>3, <1>12, <1>17, <3>2
  <2>3. InSlot(v, c)' <=> InSlot(v, c)
    <3>1. CASE v # s \/ bat[c].win = 0
      BY <1>9, <2>2, <3>1 DEF InSlot
    <3>2. CASE v = s /\ bat[c].win # 0 /\ bat[c].win # w
      BY <1>9, <2>2, <3>2 DEF InSlot
    <3>3. CASE v = s /\ bat[c].win = w
      BY <1>6, <1>7, <1>9, <1>17, <2>2, <3>3 DEF InSlot
    <3> QED BY <3>1, <3>2, <3>3
  <2>4. Adding(v, c)' <=> Adding(v, c)
    BY <1>9, <1>10, <1>17 DEF Adding
  <2>5. Lined(v, c)' <=> Lined(v, c)
    BY <1>13, <2>3, <2>4 DEF Lined
  <2>6. Pending(v, c)' <=> Pending(v, c)
    BY <1>3, <1>5, <1>17, <2>2 DEF Pending
  <2>7. Pulled(v, c)' <=> Pulled(v, c)
    BY <1>9, <1>10 DEF Pulled
  <2>8. ASSUME NEW t \in Scheds
        PROVE  (Holds(t, c) /\ pc[t] # "steal_mark")' <=> Holds(t, c) /\ pc[t] # "steal_mark"
    <3>1. CASE t = s
      BY <1>10, <3>1 DEF Holds
    <3>2. CASE t # s
      BY <1>9, <1>10, <3>2 DEF Holds
    <3> QED BY <3>1, <3>2
  <2>9. Lent(c)' <=> Lent(c)
    BY <2>8 DEF Lent
  <2>10. WaitsAt(v, c)' <=> WaitsAt(v, c)
    BY <2>5, <2>6, <2>7, <2>9 DEF WaitsAt
  <2>11. Waits(c)' <=> Waits(c)
    BY <2>1, <2>10, WaitsIs, WaitsNext
  <2> QED BY <2>2, <2>11 DEF BatPassed
<1>18. \A c \in Batches : c # b => BatPassed(s, c)
  <2> SUFFICES ASSUME NEW c \in Batches, c # b PROVE BatPassed(s, c)
    OBVIOUS
  <2>1. c # NoBatch
    BY OwnFacts
  <2> QED BY <1>14, <1>15, <1>16, <1>17, <2>1
<1>19. ~Waits(b)
  BY <1>3, StockIdle
<1>20. Pended(s, b, ToSet(procs), a)
  BY <1>3, <1>5, <1>12, <1>18, <1>19, NewPended
<1> QED BY <1>20

(* push_batch. *)
LEMMA PushPended ==
  ASSUME IInv, IInv', NEW s \in Scheds, NEW procs \in Seq(Procs), procs # << >>, Once(procs), NEW from,
         PushBatch(s, procs, from), pc[s] \in HomeLabels, from \in HomeLabels
  PROVE  \E b : Pended(s, b, ToSet(procs), curb[s].aff)
<1>1. Types /\ BatchesAt(s)
  BY DEF IInv, Kept
<1>2. PICK a \in SUBSET Scheds : a = curb[s].aff
  <2>1. curb[s] \in CurbSet
    BY <1>1 DEF Types
  <2> QED BY <2>1 DEF CurbSet
<1>3. CASE pend[s].on
  <2>1. ReplacePending(s, procs, a, from)
    BY <1>2, <1>3 DEF PushBatch, ReplacePending, HasPending
  <2>2. \E b : Pended(s, b, ToSet(procs), a)
    BY <2>1, HiddenPended, ShownPended
  <2> QED BY <1>2, <2>2
<1>4. CASE ~pend[s].on
  <2>1. bat[pend[s].batch] = CleanBatch /\ Stock(s) # {}
    BY <1>1, <1>4 DEF BatchesAt, StockedAt, PushBatch
  <2>2. Washed(ToWash(s) \cup {pend[s].batch}) = Washed(ToWash(s))
    BY <2>1, WashedToo
  <2>3. /\ pend' = [pend EXCEPT ![s] = [batch |-> Allocated(s), on |-> TRUE, aff |-> a]]
        /\ free' = [free EXCEPT ![s] = (Stock(s) \ {Allocated(s)}) \cup {pend[s].batch}]
        /\ laundry' = [laundry EXCEPT ![s] = @ \ ToWash(s)]
        /\ bat' = [Washed(ToWash(s)) EXCEPT ![Allocated(s)].procs = procs]
        /\ Goto(s, from) /\ UNCHANGED <<rq, slot, job, ret>>
    BY <1>2, <1>4 DEF PushBatch, HasPending
  <2>4. SwapPending(s, procs, TRUE, a)
    BY <2>1, <2>2, <2>3 DEF SwapPending
  <2>5. \E b : Pended(s, b, ToSet(procs), a)
    BY <1>4, <2>3, <2>4, SwapPended
  <2> QED BY <1>2, <2>5
<1> QED BY <1>3, <1>4

(* The processes q of the current batch are pushed, r are left in it.      *)
Parts(s, q, r) ==
  /\ Once(q) /\ Once(r)
  /\ \A p \in Procs : /\ InCurb(s, p) <=> p \in ToSet(q) \/ p \in ToSet(r)
                      /\ ~(p \in ToSet(q) /\ p \in ToSet(r))

(* They move from the current to the pending batch. *)
LEMMA PushMoves ==
  ASSUME IInv, IInv', JInv, NEW s \in Scheds, NEW q \in Seq(Procs), q # << >>, NEW r \in Seq(Procs),
         Parts(s, q, r), NEW from, PushBatch(s, q, from), pc[s] \in HomeLabels, from \in HomeLabels,
         curb' = [curb EXCEPT ![s].procs = r], UNCHANGED <<cur, affinity, mail>>
  PROVE  JInv' /\ AbsStep
<1>1. Types /\ Apart /\ Tied /\ CurbTied(s) /\ Once(q) /\ Once(r)
  BY DEF IInv, JInv, Tied, Parts
<1>2. PICK b : Pended(s, b, ToSet(q), curb[s].aff)
  BY <1>1, PushPended
<1>3. PICK N \in SUBSET Procs : N = ToSet(q)
  BY InSeq
<1>4. /\ curb'[s].procs = r /\ curb'[s].aff = curb[s].aff
      /\ \A t \in Scheds : t # s => curb'[t] = curb[t]
  <2>1. curb \in [Scheds -> CurbSet] /\ curb[s] \in CurbSet
    BY <1>1 DEF Types
  <2>2. curb' = [curb EXCEPT ![s] = [curb[s] EXCEPT !.procs = r]]
    BY <2>1
  <2>3. [curb[s] EXCEPT !.procs = r].procs = r /\ [curb[s] EXCEPT !.procs = r].aff = curb[s].aff
    BY <2>1, CurbUpdate
  <2> QED BY <2>1, <2>2, <2>3
<1>5. \A p \in Procs : /\ p \in N => InCurb(s, p)
                       /\ InCurb(s, p)' <=> InCurb(s, p) /\ p \notin N
                       /\ \A t \in Scheds : t # s => (InCurb(t, p)' <=> InCurb(t, p))
  BY <1>3, <1>4 DEF Parts, InCurb
<1>6. \A p \in N : /\ affinity'[p] = curb[s].aff
                   /\ \A t \in Scheds : cur[t] # p /\ p \notin mail[t] /\ (t # s => ~InCurb(t, p))
                   /\ \A c \in Batches : ~InB(c, p)
  <2> SUFFICES ASSUME NEW p \in N
               PROVE  /\ affinity'[p] = curb[s].aff
                      /\ \A t \in Scheds : cur[t] # p /\ p \notin mail[t] /\ (t # s => ~InCurb(t, p))
                      /\ \A c \in Batches : ~InB(c, p)
    OBVIOUS
  <2>1. InCurb(s, p) /\ Has(<<"curb", s>>, p)
    BY <1>5 DEF Has
  <2> QED BY <1>1, <2>1, OnlyAt DEF CurbTied
<1>7. /\ \A c \in Batches : BatTied(c)'
      /\ \A t \in Scheds : PendTied(t)'
      /\ \A c \in Batches, p \in Procs : InB(c, p)' <=> (p \in N /\ c = b) \/ InB(c, p)
  <2>1. PICK a : a = curb[s].aff
    OBVIOUS
  <2>2. Allowed(s, a) /\ Pended(s, b, N, a)
    BY <1>1, <1>2, <1>3, <2>1 DEF CurbTied
  <2>3. Fits(s, N, a)
    BY <1>6, <2>1, <2>2 DEF Fits
  <2> QED BY <1>1, <2>2, <2>3, PendedTied
<1>8. b \in Batches
  BY <1>2, OwnFacts DEF Pended
<1>9. PICK D : D = [p \in N |-> <<"bat", b>>]
  OBVIOUS
<1>10. Moves(N, D)
  <2> SUFFICES ASSUME NEW p \in Procs
               PROVE
      /\ \A t \in Scheds : cur'[t] = p <=> MovesTo(N, D, <<"cur", t>>, p, cur[t] = p)
      /\ \A t \in Scheds : p \in mail'[t] <=> MovesTo(N, D, <<"mail", t>>, p, p \in mail[t])
      /\ \A t \in Scheds : InCurb(t, p)' <=> MovesTo(N, D, <<"curb", t>>, p, InCurb(t, p))
      /\ \A c \in Batches : InB(c, p)' <=> MovesTo(N, D, <<"bat", c>>, p, InB(c, p))
    BY DEF Moves
  <2>1. CASE p \notin N
    BY <1>5, <1>7, <2>1 DEF MovesTo
  <2>2. CASE p \in N
    <3>1. D[p] = <<"bat", b>>
      BY <1>9, <2>2
    <3> QED BY <1>5, <1>6, <1>7, <2>2, <3>1 DEF MovesTo
  <2> QED BY <2>1, <2>2
<1>11. Apart' /\ \A p \in Procs : Runnable(p)' <=> Runnable(p)
  <2>1. \A p \in N : D[p] \in Queues
    BY <1>8, <1>9 DEF Queues
  <2>2. \A p \in N : Runnable(p)
    BY <1>5 DEF Runnable, InCurb
  <2> QED BY <1>1, <1>10, <2>1, <2>2, MoveStep
<1>12. AbsStep
  BY <1>11, AbsStutter
<1>13. ASSUME NEW t \in Scheds PROVE CurbTied(t)'
  <2>1. CASE t = s
    BY <1>1, <1>4, <1>5, <2>1 DEF CurbTied
  <2>2. CASE t # s
    BY <1>1, <1>4, <2>2, CurbTiedSame DEF Tied
  <2> QED BY <2>1, <2>2
<1>14. Tied'
  BY <1>1, <1>7, <1>13 DEF Tied, ChosenOnly
<1> QED BY <1>11, <1>12, <1>14 DEF JInv

(* The current batch is split, or saved. *)
LEMMA SaveMoves ==
  ASSUME IInv, IInv', JInv, NEW s \in Scheds, SplitCurb(s) \/ SaveCurb(s)
  PROVE  JInv' /\ AbsStep
<1>1. Types /\ ControlAt(s) /\ CurbTied(s)
  BY DEF IInv, Control, JInv, Tied
<1>2. PICK q \in Seq(Procs) : q = curb[s].procs /\ Once(q) /\ Len(q) \in Nat
  <2>1. curb[s] \in CurbSet
    BY <1>1 DEF Types
  <2> QED BY <1>1, <2>1, LenProperties DEF CurbSet, CurbTied
<1>3. UNCHANGED <<cur, affinity, mail>> /\ pc[s] \in HomeLabels
  BY DEF SplitCurb, SaveCurb, AtTop, HomeLabels
<1>4. "save" \in HomeLabels /\ "pick" \in HomeLabels
  BY DEF HomeLabels
<1>5. CASE SplitCurb(s)
  <2>1. /\ PushBatch(s, <<Head(q)>>, "save") /\ Len(q) > 1
        /\ curb' = [curb EXCEPT ![s].procs = Tail(q)]
    BY <1>2, <1>5 DEF SplitCurb, Splits
  <2>2. q # << >>
    BY <1>2, <2>1, EmptySeq
  <2>3. PICK h \in Procs, r \in Seq(Procs) :
          /\ h = Head(q) /\ r = Tail(q) /\ Once(r) /\ ToSet(r) = ToSet(q) \ {h} /\ h \in ToSet(q)
    BY <1>2, <2>2, TailOnce
  <2>4. <<h>> \in Seq(Procs) /\ <<h>> # << >> /\ Once(<<h>>) /\ ToSet(<<h>>) = {h}
    BY DEF Once, ToSet
  <2>5. Parts(s, <<h>>, r)
    BY <1>2, <2>3, <2>4 DEF Parts, InCurb
  <2> QED BY <1>3, <1>4, <2>1, <2>3, <2>4, <2>5, PushMoves
<1>6. CASE SaveCurb(s)
  <2>1. PushBatch(s, q, "pick") /\ curb' = [curb EXCEPT ![s].procs = << >>]
    BY <1>2, <1>6 DEF SaveCurb
  <2>2. q # << >>
    BY <1>1, <1>2, <1>6 DEF SaveCurb, ControlAt, Home, AddLabels
  <2>3. << >> \in Seq(Procs) /\ Once(<< >>) /\ ToSet(<< >>) = {}
    BY DEF Once, ToSet
  <2>4. Parts(s, q, << >>)
    BY <1>2, <2>3 DEF Parts, InCurb
  <2> QED BY <1>3, <1>4, <2>1, <2>2, <2>3, <2>4, PushMoves
<1> QED BY <1>5, <1>6

-----------------------------------------------------------------------------
(***************************************************************************)
(* enqueue_process.                                                        *)
(***************************************************************************)
(* Process p, of affinity a from now on, is nowhere once the processors    *)
(* and the mail have changed; the others are where they were.              *)
Uprooted(p, a, mails) ==
  /\ a \in Affinities[p] \cup {{}}
  /\ affinity'[p] = a
  /\ \A r \in Procs : r # p => affinity'[r] = affinity[r]
  /\ \A t \in Scheds : /\ cur'[t] # p /\ p \notin mails[t] /\ ~InCurb(t, p)
                       /\ cur'[t] # NotProcess => cur'[t] = cur[t]
                       /\ \A r \in Procs : r # p => /\ cur'[t] = r <=> cur[t] = r
                                                    /\ r \in mails[t] <=> r \in mail[t]
  /\ \A c \in Batches : ~InB(c, p)

(* It is put into the queue y. *)
Planted(y, p) ==
  /\ y \in Queues
  /\ \A t \in Scheds : p \in mail'[t] <=> y = <<"mail", t>>
  /\ \A t \in Scheds, r \in Procs : r # p => (r \in mail'[t] <=> r \in mail[t])
  /\ \A t \in Scheds, r \in Procs : InCurb(t, r)' <=> (r = p /\ y = <<"curb", t>>) \/ InCurb(t, r)
  /\ \A c \in Batches, r \in Procs : InB(c, r)' <=> (r = p /\ y = <<"bat", c>>) \/ InB(c, r)

(* It is only there, and runnable. *)
LEMMA PlantedStep ==
  ASSUME IInv, IInv', Apart, NEW p \in Procs, NEW a, NEW mails, Uprooted(p, a, mails),
         NEW y, Planted(y, p)
  PROVE  Apart' /\ \A r \in Procs : Runnable(r)' <=> r = p \/ Runnable(r)
<1>1. PICK D : D = [r \in {p} |-> y]
  OBVIOUS
<1>2. D[p] = y /\ \A t \in Scheds : y # <<"cur", t>>
  BY <1>1 DEF Planted, Queues
<1>3. Moves({p}, D)
  <2> SUFFICES ASSUME NEW r \in Procs
               PROVE
      /\ \A t \in Scheds : cur'[t] = r <=> MovesTo({p}, D, <<"cur", t>>, r, cur[t] = r)
      /\ \A t \in Scheds : r \in mail'[t] <=> MovesTo({p}, D, <<"mail", t>>, r, r \in mail[t])
      /\ \A t \in Scheds : InCurb(t, r)' <=> MovesTo({p}, D, <<"curb", t>>, r, InCurb(t, r))
      /\ \A c \in Batches : InB(c, r)' <=> MovesTo({p}, D, <<"bat", c>>, r, InB(c, r))
    BY DEF Moves
  <2>1. CASE r = p
    BY <1>2, <2>1 DEF MovesTo, Planted, Uprooted
  <2>2. CASE r # p
    BY <2>2 DEF MovesTo, Planted, Uprooted
  <2> QED BY <2>1, <2>2
<1>4. D[p] \in Queues
  BY <1>2 DEF Planted
<1> QED BY <1>3, <1>4, MoveStep

(* A current batch it is not put into. *)
LEMMA UprootedCurb ==
  ASSUME Types, NEW p \in Procs, NEW a, NEW mails, Uprooted(p, a, mails),
         NEW t \in Scheds, CurbTied(t), curb'[t] = curb[t]
  PROVE  CurbTied(t)'
<1>1. \A r \in Procs : InCurb(t, r)' <=> InCurb(t, r)
  BY DEF InCurb
<1>2. \A r \in Procs : InCurb(t, r) => affinity'[r] = affinity[r]
  BY DEF Uprooted
<1>3. cur'[t] # NotProcess => cur[t] # NotProcess /\ affinity'[cur'[t]] = affinity[cur[t]] /\ cur'[t] = cur[t]
  BY DEF Uprooted, Types
<1> QED BY <1>1, <1>2, <1>3 DEF CurbTied

(* The batches and the pending batches if they are not touched. *)
LEMMA UprootedBatches ==
  ASSUME IInv, IInv', Tied, NEW s \in Scheds, NEW p \in Procs, NEW a, NEW mails, Uprooted(p, a, mails),
         Passes(s)
  PROVE  /\ \A c \in Batches : BatTied(c)' /\ \A r \in Procs : InB(c, r)' <=> InB(c, r)
         /\ \A t \in Scheds : PendTied(t)'
<1>1. \A c \in Batches : BatKept(c) /\ \A r \in Procs : InB(c, r) => affinity'[r] = affinity[r]
  BY PassesKept DEF Uprooted
<1>2. \A c \in Batches : BatTied(c)' /\ \A r \in Procs : InB(c, r)' <=> InB(c, r)
  BY <1>1, BatTiedKept DEF Tied
<1>3. \A t \in Scheds : PendTied(t) /\ pend'[t] = pend[t]
  BY DEF Tied, Passes
<1> QED BY <1>1, <1>2, <1>3, PendWaits, PendTiedKept

(* Processes have affinities they have chosen. *)
LEMMA UprootedChosen ==
  ASSUME Tied, NEW p \in Procs, NEW a, NEW mails, Uprooted(p, a, mails)
  PROVE  ChosenOnly'
<1>1. ASSUME NEW r \in Procs PROVE affinity'[r] \in Affinities[r] \cup {{}}
  <2>1. CASE r = p
    BY <2>1 DEF Uprooted
  <2>2. CASE r # p
    BY <2>2 DEF Uprooted, Tied, ChosenOnly
  <2> QED BY <2>1, <2>2
<1> QED BY <1>1 DEF ChosenOnly

(* enqueue_far_process: the pending batch. *)
LEMMA FarPended ==
  ASSUME IInv, IInv', NEW s \in Scheds, NEW p \in Procs, NEW a \in SUBSET Scheds,
         NEW from \in HomeLabels, ToPending(s, p, a, from), pc[s] \in HomeLabels
  PROVE  \E b : Pended(s, b, {p}, a)
<1>1. Types /\ BatchesAt(s)
  BY DEF IInv, Kept
<1>2. CASE SameBatch(s, a)
  <2>1. AddPending(s, p, a) /\ Goto(s, from)
    BY <1>2 DEF ToPending, AddPending
  <2> QED BY <1>2, <2>1, AddPended
<1>3. CASE ~SameBatch(s, a)
  <2>1. pend[s].on /\ Stock(s) # {}
    BY <1>1, <1>3 DEF BatchesAt, StockedAt, SameBatch, ToPending
  <2>2. PICK b \in Batches : b = Allocated(s)
    BY <2>1, WashedToo
  <2>3. PICK f \in [Batches -> BatSet] : f = Washed(ToWash(s)) /\ f[b] = CleanBatch
    BY <2>1, <2>2, WashedToo
  <2>4. /\ pend' = [pend EXCEPT ![s] = [batch |-> b, on |-> TRUE, aff |-> a]]
        /\ free' = [free EXCEPT ![s] = Stock(s) \ {b}]
        /\ laundry' = [laundry EXCEPT ![s] = @ \ ToWash(s)]
        /\ AddToRunqueue(s, pend[s].batch, pend[s].aff, [f EXCEPT ![b].procs = Append(@, p)], from)
    BY <1>3, <2>2, <2>3 DEF ToPending
  <2>5. [f EXCEPT ![b].procs = Append(@, p)] = [f EXCEPT ![b].procs = <<p>>]
    <3>1. f[b].procs = << >> /\ Append(<< >>, p) = <<p>>
      BY <2>3 DEF CleanBatch
    <3> QED BY <3>1
  <2>6. ReplacePending(s, <<p>>, a, from)
    BY <2>1, <2>2, <2>3, <2>4, <2>5 DEF ReplacePending
  <2>7. PICK q \in Seq(Procs) : q = <<p>> /\ q # << >> /\ Once(q) /\ ToSet(q) = {p}
    <3>1. <<p>> \in Seq(Procs) /\ <<p>> # << >> /\ Once(<<p>>) /\ ToSet(<<p>>) = {p}
      BY DEF Once, ToSet
    <3> QED BY <3>1
  <2>8. \E c : Pended(s, c, ToSet(q), a)
    BY <2>6, <2>7, HiddenPended, ShownPended
  <2> QED BY <2>7, <2>8
<1> QED BY <1>2, <1>3

(* enqueue_process of p on s: p is in one queue, where its affinity allows. *)
LEMMA EnqueueMoves ==
  ASSUME IInv, IInv', JInv, NEW s \in Scheds, NEW p \in Procs, NEW a \in SUBSET Scheds,
         NEW from \in {"user", "sched"}, NEW mails \in [Scheds -> SUBSET Procs],
         EnqueueProcess(s, p, a, from, mails), pc[s] \in {"user", "sched"}, Uprooted(p, a, mails)
  PROVE  JInv' /\ \A r \in Procs : Runnable(r)' <=> r = p \/ Runnable(r)
<1>1. Types /\ Apart /\ Tied
  BY DEF IInv, JInv
<1>2. from \in HomeLabels /\ pc[s] \in HomeLabels
  BY DEF HomeLabels
<1>3. \A t \in Scheds, r \in Procs : /\ ~InCurb(t, p) /\ p \notin mails[t]
                                     /\ r # p => (r \in mails[t] <=> r \in mail[t])
  BY DEF Uprooted
<1>4. ASSUME Goto(s, from), UNCHANGED <<pend, rq, job, slot, bat>> PROVE Passes(s)
  <2>1. pc'[s] = from /\ \A t \in Scheds : t # s => pc'[t] = pc[t]
    BY <1>1, <1>2, <1>4, GotoPc, HomeKinds
  <2>2. /\ from \notin AddLabels \cup ThiefLabels /\ from # "pull_clear"
        /\ pc[s] \notin AddLabels \cup ThiefLabels /\ pc[s] # "pull_clear"
    BY <1>2, HomeKinds
  <2> QED BY <1>4, <2>1, <2>2 DEF Passes
<1>5. ASSUME NEW y, Planted(y, p), \A t \in Scheds : CurbTied(t)' /\ PendTied(t)',
             \A c \in Batches : BatTied(c)'
      PROVE  JInv' /\ \A r \in Procs : Runnable(r)' <=> r = p \/ Runnable(r)
  <2>1. Apart' /\ \A r \in Procs : Runnable(r)' <=> r = p \/ Runnable(r)
    BY <1>1, <1>5, PlantedStep
  <2>2. ChosenOnly'
    BY <1>1, UprootedChosen
  <2> QED BY <1>5, <2>1, <2>2 DEF JInv, Tied
<1>6. CASE ToCurb(s, p, a) /\ Goto(s, from) /\ mail' = mails
  <2>1. /\ curb[s].aff = a /\ curb' = CurbWith(s, p) /\ UNCHANGED <<pend, rq, job, slot, bat>>
    BY <1>6 DEF ToCurb, queueVars
  <2>2. Passes(s)
    BY <1>4, <1>6, <2>1
  <2>3. /\ \A c \in Batches : BatTied(c)' /\ \A r \in Procs : InB(c, r)' <=> InB(c, r)
        /\ \A t \in Scheds : PendTied(t)'
    BY <1>1, <2>2, UprootedBatches
  <2>4. CurbTied(s) /\ ~InCurb(s, p)
    BY <1>1, <1>3 DEF Tied
  <2>5. /\ \A r \in Procs : InCurb(s, r)' <=> InCurb(s, r) \/ r = p
        /\ curb'[s].aff = curb[s].aff
        /\ Once(curb'[s].procs)
        /\ \A t \in Scheds : t # s => curb'[t] = curb[t]
    BY <1>1, <2>1, <2>4, CurbAppended DEF CurbTied
  <2>6. Planted(<<"curb", s>>, p)
    <3>1. \A t \in Scheds, r \in Procs : t # s => (InCurb(t, r)' <=> InCurb(t, r))
      BY <2>5 DEF InCurb
    <3>2. <<"curb", s>> \in Queues
      BY DEF Queues
    <3> QED BY <1>3, <1>6, <2>3, <2>5, <3>1, <3>2 DEF Planted
  <2>7. CurbTied(s)'
    <3>1. \A r \in Procs : InCurb(s, r)' => affinity'[r] = curb'[s].aff
      BY <2>1, <2>4, <2>5 DEF CurbTied, Uprooted
    <3>2. cur'[s] # NotProcess => affinity'[cur'[s]] = curb'[s].aff
      BY <1>1, <2>4, <2>5 DEF CurbTied, Uprooted, Types
    <3> QED BY <2>4, <2>5, <3>1, <3>2 DEF CurbTied
  <2>8. \A t \in Scheds : CurbTied(t)'
    BY <1>1, <2>5, <2>7, UprootedCurb DEF Tied
  <2> QED BY <1>5, <2>3, <2>6, <2>8
<1>7. CASE ToPending(s, p, a, from) /\ mail' = mails /\ UNCHANGED curb
  <2>1. PICK b : Pended(s, b, {p}, a)
    BY <1>2, <1>7, FarPended
  <2>2. b \in Batches /\ Allowed(s, a)
    BY <1>7, <2>1, OwnFacts DEF Pended, ToPending, Allowed
  <2>3. Fits(s, {p}, a)
    BY <2>2 DEF Fits, Uprooted
  <2>4. PICK N : N = {p} /\ Pended(s, b, N, a) /\ Fits(s, N, a)
    BY <2>1, <2>3
  <2>5. /\ \A c \in Batches : BatTied(c)'
        /\ \A t \in Scheds : PendTied(t)'
        /\ \A c \in Batches, r \in Procs : InB(c, r)' <=> (r \in N /\ c = b) \/ InB(c, r)
    BY <1>1, <2>4, PendedTied
  <2>6. Planted(<<"bat", b>>, p)
    <3>1. \A t \in Scheds, r \in Procs : InCurb(t, r)' <=> InCurb(t, r)
      BY <1>7 DEF InCurb
    <3>2. <<"bat", b>> \in Queues
      BY <2>2 DEF Queues
    <3> QED BY <1>3, <1>7, <2>4, <2>5, <3>1, <3>2 DEF Planted
  <2>7. \A t \in Scheds : CurbTied(t)'
    BY <1>1, <1>7, UprootedCurb DEF Tied
  <2> QED BY <1>5, <2>5, <2>6, <2>7
<1>8. CASE /\ \E u \in a : mail' = [mails EXCEPT ![u] = @ \cup {p}]
           /\ Goto(s, from) /\ UNCHANGED <<curb, queueVars, bat, slot>>
  <2>1. UNCHANGED <<curb, pend, rq, job, slot, bat>>
    BY <1>8 DEF queueVars
  <2>2. PICK u \in Scheds : mail' = [mails EXCEPT ![u] = @ \cup {p}]
    BY <1>8
  <2>3. Passes(s)
    BY <1>4, <1>8, <2>1
  <2>4. /\ \A c \in Batches : BatTied(c)' /\ \A r \in Procs : InB(c, r)' <=> InB(c, r)
        /\ \A t \in Scheds : PendTied(t)'
    BY <1>1, <2>3, UprootedBatches
  <2>5. /\ \A t \in Scheds : p \in mail'[t] <=> t = u
        /\ \A t \in Scheds, r \in Procs : r # p => (r \in mail'[t] <=> r \in mail[t])
    BY <1>3, <2>2
  <2>6. Planted(<<"mail", u>>, p)
    <3>1. \A t \in Scheds, r \in Procs : InCurb(t, r)' <=> InCurb(t, r)
      BY <2>1 DEF InCurb
    <3>2. <<"mail", u>> \in Queues
      BY DEF Queues
    <3> QED BY <2>4, <2>5, <3>1, <3>2 DEF Planted
  <2>7. \A t \in Scheds : CurbTied(t)'
    BY <1>1, <2>1, UprootedCurb DEF Tied
  <2> QED BY <1>5, <2>4, <2>6, <2>7
<1> QED BY <1>6, <1>7, <1>8 DEF EnqueueProcess

(* The running process makes another one runnable. *)
LEMMA WakeMoves ==
  ASSUME IInv, IInv', JInv, NEW s \in Scheds, NEW p \in Procs, Wake(s, p)
  PROVE  JInv' /\ AbsStep
<1>1. Types /\ Tied
  BY DEF IInv, JInv
<1>2. PICK a \in SUBSET Scheds, m \in [Scheds -> SUBSET Procs] : a = affinity[p] /\ m = mail
  BY <1>1 DEF Types
<1>3. /\ pc[s] = "user" /\ Blocked(p) /\ EnqueueProcess(s, p, a, "user", m)
      /\ UNCHANGED <<cur, affinity>>
  BY <1>2 DEF Wake
<1>4. \A x \in Queues : ~Has(x, p)
  BY <1>3, RunnableIs DEF Blocked
<1>5. /\ \A t \in Scheds : cur[t] # p /\ p \notin mail[t] /\ ~InCurb(t, p)
      /\ \A c \in Batches : ~InB(c, p)
  <2>1. /\ \A t \in Scheds : <<"mail", t>> \in Queues /\ <<"curb", t>> \in Queues
        /\ \A c \in Batches : <<"bat", c>> \in Queues
    BY DEF Queues
  <2> QED BY <1>3, <1>4, <2>1 DEF Has, Blocked
<1>6. Uprooted(p, a, m)
  BY <1>1, <1>2, <1>3, <1>5 DEF Uprooted, Tied, ChosenOnly
<1>7. JInv' /\ \A r \in Procs : Runnable(r)' <=> r = p \/ Runnable(r)
  BY <1>3, <1>6, EnqueueMoves
<1>8. \A r \in Procs : Runnable(r)' <=> IF r = p THEN TRUE ELSE Runnable(r)
  BY <1>7
<1> QED BY <1>3, <1>7, <1>8, AbsEnqueue

(* Mail is taken: the process stays runnable. *)
LEMMA TakeMailMoves ==
  ASSUME IInv, IInv', JInv, NEW s \in Scheds, NEW p \in Procs, TakeMail(s, p)
  PROVE  JInv' /\ AbsStep
<1>1. Types /\ Tied /\ Apart
  BY DEF IInv, JInv
<1>2. PICK a \in SUBSET Scheds : a = affinity[p]
  BY <1>1 DEF Types
<1>3. PICK m \in [Scheds -> SUBSET Procs] : m = [mail EXCEPT ![s] = @ \ {p}]
  BY <1>1 DEF Types
<1>4. /\ pc[s] = "sched" /\ p \in mail[s] /\ EnqueueProcess(s, p, a, "sched", m)
      /\ UNCHANGED <<cur, affinity>>
  BY <1>2, <1>3 DEF TakeMail
<1>5. /\ \A t \in Scheds : cur[t] # p /\ (t # s => p \notin mail[t]) /\ ~InCurb(t, p)
      /\ \A c \in Batches : ~InB(c, p)
  <2>1. Has(<<"mail", s>>, p)
    BY <1>4 DEF Has
  <2> QED BY <1>1, <2>1, OnlyAt
<1>6. \A t \in Scheds, r \in Procs : p \notin m[t] /\ (r # p => (r \in m[t] <=> r \in mail[t]))
  <2>1. mail \in [Scheds -> SUBSET Procs]
    BY <1>1 DEF Types
  <2> QED BY <1>3, <1>5, <2>1
<1>7. Uprooted(p, a, m)
  BY <1>1, <1>2, <1>4, <1>5, <1>6 DEF Uprooted, Tied, ChosenOnly
<1>8. JInv' /\ \A r \in Procs : Runnable(r)' <=> r = p \/ Runnable(r)
  BY <1>4, <1>7, EnqueueMoves
<1>9. Runnable(p)
  BY <1>4 DEF Runnable
<1>10. \A r \in Procs : Runnable(r)' <=> Runnable(r)
  BY <1>8, <1>9
<1> QED BY <1>4, <1>8, <1>10, AbsStutter

(* The running process sets its affinity, and is enqueued with it. *)
LEMMA SetAffMoves ==
  ASSUME IInv, IInv', JInv, NEW s \in Scheds, NEW a \in SUBSET Scheds, SetAff(s, a)
  PROVE  JInv' /\ AbsStep
<1>1. Types /\ ControlAt(s) /\ Tied /\ Apart
  BY DEF IInv, Control, JInv
<1>2. PICK p \in Procs : p = cur[s] /\ p # NotProcess
  BY <1>1, MigrateAssumption DEF SetAff, Types, ControlAt, Home, AddLabels
<1>3. PICK m \in [Scheds -> SUBSET Procs] : m = mail
  BY <1>1 DEF Types
<1>4. /\ pc[s] = "user" /\ a \in Affinities[p] /\ EnqueueProcess(s, p, a, "sched", m)
      /\ cur' = [cur EXCEPT ![s] = NotProcess] /\ affinity' = [affinity EXCEPT ![p] = a]
  BY <1>2, <1>3 DEF SetAff, Leave
<1>5. /\ affinity'[p] = a /\ \A r \in Procs : r # p => affinity'[r] = affinity[r]
      /\ cur'[s] = NotProcess /\ \A t \in Scheds : t # s => cur'[t] = cur[t]
  BY <1>1, <1>4 DEF Types
<1>6. /\ \A t \in Scheds : (t # s => cur[t] # p) /\ p \notin mail[t] /\ ~InCurb(t, p)
      /\ \A c \in Batches : ~InB(c, p)
  <2>1. Has(<<"cur", s>>, p)
    BY <1>2 DEF Has
  <2> QED BY <1>1, <2>1, OnlyAt
<1>7. Uprooted(p, a, m)
  <2>1. NotProcess \notin Procs
    BY MigrateAssumption
  <2> QED BY <1>2, <1>3, <1>4, <1>5, <1>6, <2>1 DEF Uprooted
<1>8. JInv' /\ \A r \in Procs : Runnable(r)' <=> r = p \/ Runnable(r)
  BY <1>4, <1>7, EnqueueMoves
<1>9. ~Runnable(p)
  <2>1. \A x \in Queues : ~Has(x, p)
    BY <1>6 DEF Has, Queues
  <2> QED BY <2>1, RunnableIs
<1>10. PICK queue \in BOOLEAN : queue
  OBVIOUS
<1>11. \A r \in Procs : Runnable(r)' <=> IF r = p THEN queue ELSE Runnable(r)
  BY <1>8, <1>10
<1> QED BY <1>2, <1>4, <1>8, <1>9, <1>11, AbsLeave

-----------------------------------------------------------------------------
(***************************************************************************)
(* The invariant and the refinement.                                       *)
(***************************************************************************)
(* The program starts with one process, in the current batch of the        *)
(* scheduler that has it.                                                  *)
LEMMA InitJInv == Init => JInv
<1> SUFFICES ASSUME Init PROVE JInv
  OBVIOUS
<1>1. IInv
  BY InitIInv
<1>2. PICK st \in Starts :
        curb = [s \in Scheds |-> IF s = st[1] THEN [NoCurb EXCEPT !.procs = <<st[2]>>] ELSE NoCurb]
  BY DEF Init
<1>3. PICK v \in Scheds, h \in Procs : v = st[1] /\ h = st[2]
  BY MigrateAssumption
<1>4. /\ << >> \in Seq(Procs) /\ Once(<< >>) /\ ToSet(<< >>) = {}
      /\ Once(<<h>>) /\ ToSet(<<h>>) = {h}
  BY DEF Once, ToSet
<1>5. \A s \in Scheds : /\ curb[s].procs = IF s = v THEN <<h>> ELSE << >>
                        /\ curb[s].aff = {}
  BY <1>2, <1>3 DEF NoCurb
<1>6. \A s \in Scheds, p \in Procs : InCurb(s, p) <=> s = v /\ p = h
  BY <1>4, <1>5 DEF InCurb
<1>7. \A c \in Batches : ~Waits(c)
  <2> SUFFICES ASSUME NEW c \in Batches PROVE ~Waits(c)
    OBVIOUS
  <2>1. PICK s \in Scheds : c \in Own(s)
    BY DEF Batches, Own
  <2>2. ~Good(bat[c].procs)
    BY DEF Init, CleanBatch, Good
  <2> QED BY <1>1, <2>1, <2>2, WaitsIs
<1>8. /\ \A s \in Scheds : cur[s] = NotProcess /\ mail[s] = {} /\ ~pend[s].on /\ pend[s].aff = {}
      /\ \A p \in Procs : affinity[p] = {} /\ p # NotProcess
  BY MigrateAssumption DEF Init
<1>9. Apart
  <2>1. ASSUME NEW p \in Procs, NEW x, Has(x, p) PROVE x = <<"curb", v>>
    BY <1>6, <1>7, <1>8, <2>1 DEF Has, InB
  <2> QED BY <2>1 DEF Apart
<1>10. \A s \in Scheds : CurbTied(s) /\ PendTied(s)
  BY <1>4, <1>5, <1>8 DEF CurbTied, PendTied, Allowed
<1>11. \A c \in Batches : BatTied(c)
  BY <1>7 DEF BatTied, InB
<1>12. ChosenOnly
  BY <1>8 DEF ChosenOnly
<1> QED BY <1>9, <1>10, <1>11, <1>12 DEF JInv, Tied

(* Every step preserves the invariant, and is a step of Scheduling or      *)
(* changes nothing that Scheduling can see.                                *)
LEMMA NextMoves ==
  ASSUME IInv, IInv', JInv, Next
  PROVE  JInv' /\ AbsStep
<1>1. PICK s \in Scheds : \/ Kernel(s) \/ Pause(s) \/ Block(s)
                          \/ (\E p \in Procs : Wake(s, p)) \/ (\E a \in SUBSET Scheds : SetAff(s, a))
  BY DEF Next
<1>2. CASE Pause(s) \/ Block(s)
  BY <1>2, LeaveMoves
<1>3. CASE \E p \in Procs : Wake(s, p) \/ TakeMail(s, p)
  BY <1>3, WakeMoves, TakeMailMoves
<1>4. CASE \E a \in SUBSET Scheds : SetAff(s, a)
  BY <1>4, SetAffMoves
<1>5. CASE \/ AddState(s) \/ PickNone(s) \/ StartMigrate(s) \/ MigrateBit(s)
           \/ MigrateEnd(s) \/ MigrateMw(s) \/ (\E v \in Scheds : NoWork(s, v) \/ TryMigrate(s, v))
  BY <1>5, LookMoves
<1>6. CASE AddMw(s) \/ PullVisible(s) \/ MigrateSlot(s) \/ StealMark(s) \/ NoWorkAnywhere(s)
  BY <1>6, AddMwMoves, PullVisibleMoves, MigrateSlotMoves, StealMarkMoves, NoWorkAnywhereMoves
<1>7. CASE NextOfCurb(s) \/ ContinueCurb(s)
  BY <1>7, CurbMoves
<1>8. CASE SplitCurb(s) \/ SaveCurb(s)
  BY <1>8, SaveMoves
<1>9. CASE PullOwn(s) \/ PullClear(s) \/ PullPending(s) \/ StealLoad(s)
  BY <1>9, PullOwnMoves, PullClearMoves, PullPendingMoves, StealLoadMoves
<1> QED BY <1>1, <1>2, <1>3, <1>4, <1>5, <1>6, <1>7, <1>8, <1>9 DEF Kernel

(* The same for a step that changes nothing. *)
LEMMA StutterMoves ==
  ASSUME IInv, IInv', JInv, UNCHANGED vars
  PROVE  JInv' /\ AbsStep
<1>1. UNCHANGED <<pc, cur, affinity, mail, curb, pend, rq, job, bat, slot>>
  BY DEF vars, schedVars, queueVars, windowVars
<1>2. ASSUME NEW c \in Batches PROVE BatKept(c)
  <2>1. PICK v \in Scheds : c \in Own(v)
    BY DEF Batches, Own
  <2>2. Passes(v)
    BY <1>1 DEF Passes
  <2> QED BY <2>2, PassesKept
<1> QED BY <1>1, <1>2, StillStep

(* In every state a process is in one place only: on a processor, in a     *)
(* mail box, in a current batch or in a batch that somebody will load; and *)
(* the processes of a batch share an affinity that allows whoever can load *)
(* it.                                                                     *)
THEOREM PlacesInvariance == Spec => []JInv
<1>1. Init => JInv
  BY InitJInv
<1>2. IInv /\ IInv' /\ JInv /\ [Next]_vars => JInv'
  BY NextMoves, StutterMoves
<1> QED BY <1>1, <1>2, Invariance, PTL DEF Spec

(* A process only runs on a scheduler its affinity allows, the processes   *)
(* of a current batch have the affinity the scheduler runs under, and no   *)
(* process gets an affinity it did not set, whoever pulls or steals its    *)
(* batch (save_priofinity, load_curb).                                     *)
THEOREM AffinityHolds == Spec => []AffinityRespected
<1>1. IInv /\ JInv => AffinityRespected
  <2> SUFFICES ASSUME IInv, JInv PROVE AffinityRespected
    OBVIOUS
  <2>1. Types /\ ChosenOnly /\ \A s \in Scheds : CurbTied(s)
    BY DEF IInv, JInv, Tied
  <2>2. ASSUME NEW s \in Scheds
        PROVE  /\ cur[s] # NotProcess => affinity[cur[s]] = {} \/ s \in affinity[cur[s]]
               /\ \A p \in ToSet(curb[s].procs) : affinity[p] = curb[s].aff
    <3>1. CurbTied(s)
      BY <2>1
    <3>2. ToSet(curb[s].procs) \subseteq Procs
      <4>1. curb[s] \in CurbSet
        BY <2>1 DEF Types
      <4>2. curb[s].procs \in Seq(Procs)
        BY <4>1 DEF CurbSet
      <4> QED BY <4>2, InSeq
    <3> QED BY <3>1, <3>2 DEF CurbTied, InCurb, Allowed
  <2> QED BY <2>1, <2>2 DEF AffinityRespected, ChosenOnly
<1> QED BY <1>1, Invariance, PlacesInvariance, PTL

(* Batches and their migration implement Scheduling: a process that is     *)
(* made runnable is resumed by exactly one scheduler, and only a process   *)
(* that neither runs nor is runnable is ever made runnable.                *)
THEOREM MigrateIsScheduling == Spec => ImplementsScheduling
<1>1. Init => Abstract!Init
  <2> SUFFICES ASSUME Init PROVE Abstract!Init
    OBVIOUS
  <2>1. cur = [s \in Scheds |-> NotProcess]
    BY DEF Init
  <2>2. {p \in Procs : Runnable(p)} \in SUBSET Procs
    OBVIOUS
  <2> QED BY <2>1, <2>2 DEF Abstract!Init
<1>2. IInv /\ IInv' /\ JInv /\ [Next]_vars => [Abstract!Next]_(Abstract!vars)
  BY NextMoves, StutterMoves DEF AbsStep
<1> QED BY <1>1, <1>2, Invariance, PlacesInvariance, PTL DEF Spec, ImplementsScheduling, Abstract!Spec
=============================================================================
