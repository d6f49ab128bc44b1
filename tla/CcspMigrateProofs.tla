-------------------------- MODULE CcspMigrateProofs --------------------------
(***************************************************************************)
(* Batches and their migration, for any number of schedulers, processes,   *)
(* batches and slots: the assertions of the code hold, a batch is never    *)
(* reused while a thief has it, and a visible batch can be found.          *)
(*                                                                         *)
(* None of these is inductive.  The inductive invariant says that a batch  *)
(* is in at most one list of its owner (OwnedAt, ApartAt), what is known   *)
(* of its contents there (StockedAt, LinedAt, ShownAt), what a thief       *)
(* relies on (Stolen), who knows of a full slot (Found), and what a        *)
(* scheduler is doing (Control).                                           *)
(***************************************************************************)
EXTENDS CcspMigrate, WellFoundedInduction, SequenceTheorems, TLAPS

AddLabels == {"add_state", "add_mw"}
OwnLabels == AddLabels \cup {"pull_clear"}
LookLabels == {"mig_bit", "mig_slot", "mig_end", "mig_mw"}
ThiefLabels == {"mig_end", "mig_mw", "steal_load", "steal_mark"}
HomeLabels == {"sched", "user", "save", "pick"}
Labels == HomeLabels \cup OwnLabels \cup LookLabels \cup ThiefLabels \cup {"migrate"}

Own(v) == {v} \X (1..PoolSize)
Q(v) == ToSet(rq[v])
Once(q) == \A i, j \in 1..Len(q) : q[i] = q[j] => i = j
Good(procs) == procs \in Seq(Procs) /\ procs # << >>

CurbSet == [procs : Seq(Procs), emptied : BOOLEAN, disp : Int, aff : SUBSET Scheds]
PendSet == [batch : Batches, on : BOOLEAN, aff : SUBSET Scheds]
BatSet == [procs : Seq(Procs \cup {NotProcess}), dirty : BOOLEAN, win : 0..Size]
ThiefSet == [active : SUBSET Scheds, victim : Scheds, head : 0..Size, bm : SUBSET Slots, w : 0..Size]

(* The types of all variables. *)
Types ==
  /\ pc \in [Scheds -> Labels] /\ cur \in [Scheds -> Procs \cup {NotProcess}]
  /\ affinity \in [Procs -> SUBSET Scheds] /\ mail \in [Scheds -> SUBSET Procs]
  /\ curb \in [Scheds -> CurbSet]
  /\ pend \in [Scheds -> PendSet]
  /\ rq \in [Scheds -> Seq(Batches)] /\ rqstate \in [Scheds -> BOOLEAN]
  /\ free \in [Scheds -> SUBSET Batches] /\ laundry \in [Scheds -> SUBSET Batches]
  /\ bat \in [Batches -> BatSet]
  /\ slot \in [Scheds -> [Slots -> Batches \cup {NoBatch}]]
  /\ head \in [Scheds -> 0..Size] /\ bm \in [Scheds -> SUBSET Slots]
  /\ mwstate \in [Scheds -> BOOLEAN]
  /\ job \in [Scheds -> Batches \cup {NoBatch}] /\ ret \in [Scheds -> HomeLabels]
  /\ thief \in [Scheds -> ThiefSet]

(* What a scheduler is doing fits where it is, or where it goes once a     *)
(* batch has been added.                                                   *)
Home(s) == IF pc[s] \in AddLabels THEN ret[s] ELSE pc[s]
ControlAt(s) ==
  /\ cur[s] # NotProcess <=> Home(s) \in {"user", "steal_mark"}
  /\ Home(s) = "save" => curb[s].procs # << >>
  /\ Home(s) \notin {"sched", "user", "save", "steal_mark"} => curb[s].procs = << >>
  /\ pc[s] \in OwnLabels \cup {"steal_load", "steal_mark"} => job[s] # NoBatch
  /\ job[s] # NoBatch => pc[s] \in OwnLabels \cup ThiefLabels
  /\ pc[s] \in AddLabels => rqstate[s]
  /\ pc[s] \in LookLabels \cup {"migrate"} => ~rqstate[s]
  /\ mwstate[s] => rqstate[s]
  /\ pc[s] \in LookLabels => thief[s].victim # s
  /\ pc[s] = "mig_bit" => thief[s].bm # {}
  /\ pc[s] = "mig_slot" => thief[s].w \in Slots
Control == \A s \in Scheds : ControlAt(s)

(* The lists of a scheduler hold batches of its own, each at most once.    *)
OwnedAt(s) ==
  /\ Once(rq[s])
  /\ Q(s) \cup free[s] \cup laundry[s] \cup {pend[s].batch} \subseteq Own(s)
  /\ pc[s] \in OwnLabels => job[s] \in Own(s)
ApartAt(s) ==
  /\ free[s] \cap laundry[s] = {}
  /\ Q(s) \cap (free[s] \cup laundry[s]) = {}
  /\ pend[s].batch \notin Q(s) \cup free[s] \cup laundry[s]
  /\ pc[s] \in OwnLabels => job[s] \notin Q(s) \cup free[s] \cup laundry[s] \cup {pend[s].batch}

(* A free batch, and a pending batch that is not in use, is as good as     *)
(* new; one in use holds processes and nobody else knows of it.            *)
StockedAt(s) ==
  /\ \A b \in free[s] : bat[b] = CleanBatch
  /\ ~pend[s].on => bat[pend[s].batch] = CleanBatch /\ pend[s].aff = {}
  /\ bat[pend[s].batch].win = 0 /\ ~bat[pend[s].batch].dirty
  /\ pend[s].on => Good(bat[pend[s].batch].procs)

(* A batch of the run queue, or on its way there or out of it.             *)
LinedAt(s) ==
  /\ \A b \in Q(s) : InSlot(s, b) => Good(bat[b].procs)
  /\ \A b \in Q(s) : bat[b].win = 0 => ~bat[b].dirty
  /\ pc[s] \in OwnLabels => bat[job[s]].win # 0
  /\ pc[s] \in AddLabels /\ InSlot(s, job[s]) => Good(bat[job[s]].procs)
  /\ pc[s] = "pull_clear" => Good(bat[job[s]].procs) /\ slot[s][bat[job[s]].win] = NoBatch

(* A batch in a slot. *)
Adding(s, b) == pc[s] \in AddLabels /\ job[s] = b
ShownAt(s) ==
  \A w \in Slots, b \in Batches : slot[s][w] = b =>
    /\ b \in Q(s) \/ Adding(s, b)
    /\ bat[b].win = w /\ bat[b].dirty
FoundAt(s) ==
  \A w \in Slots : slot[s][w] # NoBatch =>
    \/ w \in bm[s]
    \/ pc[s] = "add_state" /\ w = IncrementHead(head[s])
    \/ \E t \in Scheds : pc[t] = "mig_slot" /\ thief[t].victim = s /\ thief[t].w = w

(* A batch a thief has taken out of its slot and has not marked clean.     *)
Holds(s, b) == pc[s] \in ThiefLabels /\ job[s] = b /\ b # NoBatch
StolenBy(s, b) ==
  /\ b[1] # s
  /\ bat[b].dirty /\ ~InSlot(b[1], b)
  /\ b \in Q(b[1]) \cup laundry[b[1]] \/ Adding(b[1], b)
  /\ pc[s] # "steal_mark" => Good(bat[b].procs)
Stolen ==
  /\ \A s \in Scheds, b \in Batches : Holds(s, b) => StolenBy(s, b)
  /\ \A s, t \in Scheds, b \in Batches : Holds(s, b) /\ Holds(t, b) => s = t

BatchesAt(s) == OwnedAt(s) /\ ApartAt(s) /\ StockedAt(s) /\ LinedAt(s) /\ ShownAt(s)
Kept == \A s \in Scheds : BatchesAt(s)
Found == \A s \in Scheds : FoundAt(s)

IInv == Types /\ Control /\ Kept /\ Found /\ Stolen

-----------------------------------------------------------------------------
(***************************************************************************)
(* Least and greatest numbers, and what is chosen by them.                 *)
(***************************************************************************)
(* A nonempty set of natural numbers has a least element. *)
LEMMA LeastNat ==
  ASSUME NEW T \in SUBSET Nat, T # {}
  PROVE  \E x \in T : \A y \in T : x <= y
<1>1. PICK x \in T : \A y \in T : ~(<<y, x>> \in OpToRel(<, Nat))
  BY NatLessThanWellFounded, WFMin
<1>2. ASSUME NEW y \in T PROVE x <= y
  <2>1. y < x => <<y, x>> \in OpToRel(<, Nat)
    BY DEF OpToRel
  <2>2. ~(y < x)
    BY <1>1, <2>1, Zenon
  <2> QED BY <2>2
<1> QED BY <1>2

(* A nonempty set of slots has a highest one. *)
LEMMA HighestSlot ==
  ASSUME NEW S \in SUBSET Slots, S # {}
  PROVE  Highest(S) \in S
<1> DEFINE T == {n \in Nat : \E x \in S : n = Size - x}
<1>1. Size \in Nat /\ \A x \in S : x \in Nat /\ Size - x \in Nat
  BY MigrateAssumption DEF Slots
<1>2. T \in SUBSET Nat /\ T # {}
  BY <1>1
<1>3. PICK m \in T : \A y \in T : m <= y
  BY <1>2, LeastNat
<1>4. PICK x \in S : m = Size - x
  OBVIOUS
<1>5. \A z \in S : z <= x
  <2> SUFFICES ASSUME NEW z \in S PROVE z <= x
    OBVIOUS
  <2>1. Size - z \in T
    BY <1>1
  <2>2. m <= Size - z
    BY <1>3, <2>1
  <2> QED BY <1>1, <1>4, <2>2
<1> QED BY <1>5 DEF Highest

(* The slot a thief looks at is one it has seen a bit of. *)
LEMMA PickSlotSeen ==
  ASSUME NEW S \in SUBSET Slots, S # {}, NEW h
  PROVE  PickSlot(S, h) \in S
BY HighestSlot DEF PickSlot

(* What is allocated comes from the stock. *)
LEMMA AllocatedStock ==
  ASSUME NEW s \in Scheds, Stock(s) \subseteq Batches, Stock(s) # {}
  PROVE  Allocated(s) \in Stock(s)
<1> DEFINE T == {b[2] : b \in Stock(s)}
<1>1. T \in SUBSET Nat /\ T # {}
  BY DEF Batches
<1>2. PICK m \in T : \A y \in T : m <= y
  BY <1>1, LeastNat
<1>3. PICK b \in Stock(s) : m = b[2]
  OBVIOUS
<1>4. \A x \in Stock(s) : b[2] <= x[2]
  BY <1>2, <1>3
<1> QED BY <1>4 DEF Allocated

-----------------------------------------------------------------------------
(***************************************************************************)
(* Sequences in which everything is once.                                  *)
(***************************************************************************)
(* What is in a sequence. *)
LEMMA InSeq ==
  ASSUME NEW S, NEW q \in Seq(S)
  PROVE  /\ ToSet(q) \subseteq S
         /\ \A x : x \in ToSet(q) <=> \E i \in 1..Len(q) : q[i] = x
         /\ q = << >> <=> ToSet(q) = {}
<1>1. DOMAIN q = 1..Len(q) /\ Len(q) \in Nat /\ q \in [1..Len(q) -> S]
  BY LenProperties
<1>2. q # << >> => 1 \in 1..Len(q)
  BY EmptySeq
<1>3. q = << >> => 1..Len(q) = {}
  BY EmptySeq
<1> QED BY <1>1, <1>2, <1>3 DEF ToSet

(* Append adds one element. *)
LEMMA AppendOnce ==
  ASSUME NEW S, NEW q \in Seq(S), NEW x \in S
  PROVE  /\ Append(q, x) \in Seq(S) /\ Append(q, x) # << >>
         /\ ToSet(Append(q, x)) = ToSet(q) \cup {x}
         /\ Once(q) /\ x \notin ToSet(q) => Once(Append(q, x))
<1> DEFINE a == Append(q, x)
<1>1. /\ a \in Seq(S) /\ Len(a) = Len(q) + 1 /\ Len(q) \in Nat
      /\ \A i \in 1..Len(q) : a[i] = q[i]
      /\ a[Len(q) + 1] = x
  OBVIOUS
<1>2. /\ \A y : y \in ToSet(q) <=> \E i \in 1..Len(q) : q[i] = y
      /\ \A y : y \in ToSet(a) <=> \E i \in 1..Len(a) : a[i] = y
  BY <1>1, InSeq
<1>3. a # << >>
  BY <1>1, EmptySeq
<1>4. ASSUME Once(q), x \notin ToSet(q) PROVE Once(a)
  <2>1. \A i \in 1..Len(q) : q[i] # x
    BY <1>4, InSeq
  <2> QED BY <1>1, <1>4, <2>1 DEF Once
<1> HIDE DEF a
<1>5. ToSet(a) = ToSet(q) \cup {x}
  <2>1. \A y : y \in ToSet(q) => y \in ToSet(a)
    BY <1>1, <1>2
  <2>2. x \in ToSet(a)
    BY <1>1, <1>2
  <2>3. \A y : y \in ToSet(a) => y \in ToSet(q) \/ y = x
    <3> SUFFICES ASSUME NEW y, y \in ToSet(a), y # x PROVE y \in ToSet(q)
      OBVIOUS
    <3>1. PICK i \in 1..Len(a) : a[i] = y
      BY <1>2
    <3>2. i \in 1..Len(q) /\ q[i] = y
      BY <1>1, <3>1
    <3> QED BY <1>2, <3>2
  <2> QED BY <2>1, <2>2, <2>3
<1> QED BY <1>1, <1>3, <1>4, <1>5 DEF a

(* Tail takes the first element away. *)
LEMMA TailOnce ==
  ASSUME NEW S, NEW q \in Seq(S), q # << >>
  PROVE  /\ Head(q) \in S /\ Head(q) \in ToSet(q)
         /\ Tail(q) \in Seq(S)
         /\ ToSet(Tail(q)) \subseteq ToSet(q)
         /\ ToSet(q) = ToSet(Tail(q)) \cup {Head(q)}
         /\ Once(q) => Once(Tail(q)) /\ ToSet(Tail(q)) = ToSet(q) \ {Head(q)}
         /\ Len(q) > 1 => Tail(q) # << >>
<1> DEFINE t == Tail(q)
<1>1. /\ Len(q) \in Nat \ {0} /\ Head(q) \in S /\ t \in Seq(S) /\ Len(t) = Len(q) - 1
      /\ \A i \in 1..Len(t) : t[i] = q[i + 1]
      /\ Head(q) = q[1]
  BY HeadTailProperties, EmptySeq
<1>2. /\ \A x : x \in ToSet(q) <=> \E i \in 1..Len(q) : q[i] = x
      /\ \A x : x \in ToSet(t) <=> \E i \in 1..Len(t) : t[i] = x
  BY <1>1, InSeq
<1> HIDE DEF t
<1>3. Head(q) \in ToSet(q)
  BY <1>1, <1>2
<1>4. \A x : x \in ToSet(t) => x \in ToSet(q)
  BY <1>1, <1>2
<1>5. \A x : x \in ToSet(q) => x \in ToSet(t) \/ x = Head(q)
  <2> SUFFICES ASSUME NEW x, x \in ToSet(q), x # Head(q) PROVE x \in ToSet(t)
    OBVIOUS
  <2>1. PICK i \in 1..Len(q) : q[i] = x
    BY <1>2
  <2>2. i # 1 /\ i - 1 \in 1..Len(t) /\ t[i - 1] = x
    BY <1>1, <2>1
  <2> QED BY <1>2, <2>2
<1>6. ToSet(q) = ToSet(t) \cup {Head(q)}
  BY <1>3, <1>4, <1>5
<1>7. ASSUME Once(q) PROVE Once(t) /\ Head(q) \notin ToSet(t)
  <2>1. Once(t)
    BY <1>1, <1>7 DEF Once
  <2>2. \A i \in 1..Len(t) : t[i] # Head(q)
    BY <1>1, <1>7 DEF Once
  <2> QED BY <1>2, <2>1, <2>2
<1>8. Len(q) > 1 => t # << >>
  BY <1>1, EmptySeq
<1>9. Once(q) => ToSet(t) = ToSet(q) \ {Head(q)}
  BY <1>6, <1>7
<1> QED BY <1>1, <1>3, <1>4, <1>6, <1>7, <1>8, <1>9 DEF t

-----------------------------------------------------------------------------
(***************************************************************************)
(* What a scheduler does to its own data.                                  *)
(***************************************************************************)
SameAt(t) ==
  /\ pc'[t] = pc[t] /\ cur'[t] = cur[t] /\ curb'[t] = curb[t] /\ job'[t] = job[t]
  /\ ret'[t] = ret[t] /\ rqstate'[t] = rqstate[t] /\ mwstate'[t] = mwstate[t]
  /\ thief'[t] = thief[t] /\ pend'[t] = pend[t] /\ rq'[t] = rq[t] /\ free'[t] = free[t]
  /\ laundry'[t] = laundry[t] /\ slot'[t] = slot[t] /\ head'[t] = head[t] /\ bm'[t] = bm[t]

(* Only the data of s and its batches change, and s becomes no thief. *)
OwnerOnly(s) ==
  /\ \A t \in Scheds : t # s => SameAt(t)
  /\ \A b \in Batches : b \notin Own(s) => bat'[b] = bat[b]
  /\ pc'[s] \notin ThiefLabels

(* What thieves hold of the batches of s is left alone. *)
HeldKept(s) ==
  \A t \in Scheds, b \in Batches : Holds(t, b) /\ b \in Own(s) =>
    /\ bat'[b] = bat[b] /\ ~(InSlot(s, b)')
    /\ b \in Q(s)' \cup laundry'[s] \/ Adding(s, b)'

(* A batch belongs to one scheduler. *)
LEMMA OwnFacts ==
  ASSUME NEW s \in Scheds
  PROVE  /\ Own(s) \subseteq Batches
         /\ \A b \in Batches : b \in Own(s) <=> b[1] = s
         /\ \A b \in Batches : b[1] \in Scheds /\ b \in Own(b[1]) /\ b # NoBatch
BY MigrateAssumption DEF Own, Batches

(* The batches of a scheduler nobody touches. *)
LEMMA BatchesSame ==
  ASSUME IInv, NEW t \in Scheds, SameAt(t), \A b \in Own(t) : bat'[b] = bat[b]
  PROVE  BatchesAt(t)'
<1>1. BatchesAt(t)
  BY DEF IInv, Kept
<1>2. Q(t)' = Q(t) /\ Q(t) \subseteq Own(t) /\ pend[t].batch \in Own(t) /\ free[t] \subseteq Own(t)
  BY <1>1 DEF SameAt, Q, BatchesAt, OwnedAt
<1>3. OwnedAt(t)'
  BY <1>1, <1>2 DEF SameAt, BatchesAt, OwnedAt
<1>4. ApartAt(t)'
  BY <1>1, <1>2 DEF SameAt, BatchesAt, ApartAt
<1>5. StockedAt(t)'
  BY <1>1, <1>2 DEF SameAt, BatchesAt, StockedAt
<1>6. pc[t] \in OwnLabels => job[t] \in Own(t)
  BY <1>1 DEF BatchesAt, OwnedAt
<1>7. LinedAt(t)'
  BY <1>1, <1>2, <1>6 DEF SameAt, BatchesAt, LinedAt, InSlot, OwnLabels, AddLabels
<1>8. ShownAt(t)'
  <2>1. \A w \in Slots, b \in Batches : slot[t][w] = b => b \in Own(t)
    BY <1>1, <1>2, <1>6 DEF BatchesAt, ShownAt, Adding, OwnLabels
  <2> QED BY <1>1, <1>2, <2>1 DEF SameAt, BatchesAt, ShownAt, Adding
<1> QED BY <1>3, <1>4, <1>5, <1>7, <1>8 DEF BatchesAt

(* A scheduler nobody touches. *)
LEMMA ControlSame ==
  ASSUME IInv, NEW t \in Scheds, SameAt(t)
  PROVE  ControlAt(t)'
BY DEF IInv, Control, SameAt, ControlAt, Home

(* What a scheduler does to its own data preserves the invariant if it     *)
(* preserves the parts that are about this scheduler.                      *)
LEMMA OwnerStep ==
  ASSUME IInv, NEW s \in Scheds, OwnerOnly(s), HeldKept(s),
         Types', ControlAt(s)', BatchesAt(s)', FoundAt(s)', pc[s] # "mig_slot"
  PROVE  IInv'
<1>1. Control'
  BY ControlSame DEF OwnerOnly, Control
<1>2. Kept'
  <2> SUFFICES ASSUME NEW t \in Scheds, t # s PROVE BatchesAt(t)'
    BY DEF Kept
  <2>1. \A b \in Own(t) : bat'[b] = bat[b]
    BY OwnFacts DEF OwnerOnly
  <2> QED BY <2>1, BatchesSame DEF OwnerOnly
<1>3. Found'
  <2> SUFFICES ASSUME NEW t \in Scheds, t # s PROVE FoundAt(t)'
    BY DEF Found
  <2>1. FoundAt(t) /\ SameAt(t)
    BY DEF IInv, Found, OwnerOnly
  <2>2. \A u \in Scheds : pc[u] = "mig_slot" => pc'[u] = "mig_slot" /\ thief'[u] = thief[u]
    BY DEF OwnerOnly, SameAt
  <2> QED BY <2>1, <2>2 DEF FoundAt, SameAt
<1>4. Stolen'
  <2>1. \A t \in Scheds, b \in Batches : Holds(t, b)' => Holds(t, b) /\ t # s /\ SameAt(t)
    BY DEF OwnerOnly, SameAt, Holds
  <2>2. ASSUME NEW t \in Scheds, NEW b \in Batches, Holds(t, b)'
        PROVE  StolenBy(t, b)'
    <3>1. StolenBy(t, b) /\ Holds(t, b) /\ SameAt(t)
      BY <2>1, <2>2 DEF IInv, Stolen
    <3>2. CASE b \in Own(s)
      <4>1. b[1] = s
        BY <3>2, OwnFacts
      <4> QED BY <3>1, <3>2, <4>1 DEF StolenBy, HeldKept, SameAt
    <3>3. CASE b \notin Own(s)
      <4>1. b[1] \in Scheds /\ b[1] # s /\ SameAt(b[1]) /\ bat'[b] = bat[b]
        BY <3>3, OwnFacts DEF OwnerOnly
      <4> QED BY <3>1, <4>1 DEF StolenBy, SameAt, InSlot, Q, Adding
    <3> QED BY <3>2, <3>3
  <2> QED BY <2>1, <2>2 DEF IInv, Stolen
<1> QED BY <1>1, <1>2, <1>3, <1>4 DEF IInv

(* Steps that leave batches, lists and slots alone. *)
LEMMA Quiet ==
  ASSUME IInv, NEW s \in Scheds, NEW l \in Labels \ (OwnLabels \cup {"steal_mark"}),
         UNCHANGED <<pend, rq, free, laundry, bat, slot, job, head, bm>>,
         Goto(s, l), pc[s] \notin OwnLabels \cup {"mig_slot", "steal_mark"},
         l \in ThiefLabels /\ job[s] # NoBatch => pc[s] \in ThiefLabels,
         \A t \in Scheds : t # s => thief'[t] = thief[t],
         Types', Control'
  PROVE  IInv'
<1>1. /\ \A t \in Scheds : t # s => pc'[t] = pc[t]
      /\ pc'[s] = l
  BY DEF IInv, Types, Goto
<1>2. /\ \A t \in Scheds : pc'[t] \in OwnLabels <=> pc[t] \in OwnLabels
      /\ \A t \in Scheds : pc'[t] \in AddLabels <=> pc[t] \in AddLabels
      /\ \A t \in Scheds : pc'[t] = "pull_clear" <=> pc[t] = "pull_clear"
      /\ \A t \in Scheds : pc'[t] = "add_state" <=> pc[t] = "add_state"
      /\ \A t \in Scheds : pc[t] = "mig_slot" => pc'[t] = "mig_slot" /\ thief'[t] = thief[t]
      /\ \A t \in Scheds : pc'[t] = "steal_mark" <=> pc[t] = "steal_mark"
  BY <1>1 DEF OwnLabels, AddLabels
<1>3. \A t \in Scheds : Q(t)' = Q(t)
  BY DEF Q
<1>4. \A t \in Scheds, b \in Batches : /\ Adding(t, b)' <=> Adding(t, b)
                                       /\ InSlot(t, b)' <=> InSlot(t, b)
  BY <1>2 DEF Adding, InSlot
<1>5. ASSUME NEW t \in Scheds PROVE BatchesAt(t)'
  <2>1. BatchesAt(t)
    BY DEF IInv, Kept
  <2>2. OwnedAt(t)' /\ ApartAt(t)' /\ StockedAt(t)'
    BY <1>2, <1>3, <2>1 DEF BatchesAt, OwnedAt, ApartAt, StockedAt
  <2>3. LinedAt(t)'
    BY <1>2, <1>3, <2>1 DEF BatchesAt, LinedAt, InSlot
  <2>4. ShownAt(t)'
    BY <1>2, <1>3, <2>1 DEF BatchesAt, ShownAt, Adding
  <2> QED BY <2>2, <2>3, <2>4 DEF BatchesAt
<1>6. Found'
  BY <1>2 DEF IInv, Found, FoundAt
<1>7. \A t \in Scheds, b \in Batches : Holds(t, b)' => Holds(t, b)
  BY <1>1 DEF Holds
<1>8. ASSUME NEW t \in Scheds, NEW b \in Batches, Holds(t, b)'
      PROVE  StolenBy(t, b)'
  <2>1. StolenBy(t, b) /\ b[1] \in Scheds
    BY <1>7, <1>8, OwnFacts DEF IInv, Stolen
  <2> QED BY <1>2, <1>3, <1>4, <2>1 DEF StolenBy
<1>9. Stolen'
  BY <1>7, <1>8 DEF IInv, Stolen
<1> QED BY <1>5, <1>6, <1>9 DEF IInv, Kept

-----------------------------------------------------------------------------
(***************************************************************************)
(* Steps of kernel_scheduler that leave the batches alone.                 *)
(***************************************************************************)
(* The processes of a current batch are replaced. *)
LEMMA CurbUpdate ==
  ASSUME NEW c \in CurbSet, NEW q \in Seq(Procs)
  PROVE  /\ [c EXCEPT !.procs = q] \in CurbSet
         /\ [c EXCEPT !.procs = q].procs = q /\ [c EXCEPT !.procs = q].aff = c.aff
BY DEF CurbSet

(* The processes of one of the current batches are updated. *)
LEMMA CurbNested ==
  ASSUME NEW f \in [Scheds -> CurbSet], NEW s \in Scheds, NEW q
  PROVE  [f EXCEPT ![s].procs = q] = [f EXCEPT ![s] = [f[s] EXCEPT !.procs = q]]
OBVIOUS

(* The current batch of s becomes c. *)
LEMMA CurbTypes ==
  ASSUME Types, NEW s \in Scheds, NEW c, c \in CurbSet,
         c.procs # << >>, Dequeue(s, c)
  PROVE  /\ cur' \in [Scheds -> Procs \cup {NotProcess}] /\ cur'[s] = Head(c.procs)
         /\ cur'[s] \in Procs /\ cur'[s] # NotProcess
         /\ curb' \in [Scheds -> CurbSet]
         /\ curb'[s].procs = Tail(c.procs) /\ curb'[s].aff = c.aff
         /\ \A t \in Scheds : t # s => cur'[t] = cur[t] /\ curb'[t] = curb[t]
<1> DEFINE d == [c EXCEPT !.procs = Tail(@), !.emptied = @ \/ Len(c.procs) = 1]
<1>1. Head(c.procs) \in Procs /\ Tail(c.procs) \in Seq(Procs)
  BY TailOnce DEF CurbSet
<1>2. /\ d \in CurbSet
      /\ d.procs = Tail(c.procs) /\ d.aff = c.aff
  BY <1>1 DEF CurbSet
<1>3. cur' = [cur EXCEPT ![s] = Head(c.procs)] /\ curb' = [curb EXCEPT ![s] = d]
  BY DEF Dequeue
<1> HIDE DEF d
<1>4. NotProcess \notin Procs
  BY MigrateAssumption
<1> QED BY <1>1, <1>2, <1>3, <1>4 DEF Types

(* The number of dispatches is a number. *)
LEMMA DispatchesInt ==
  ASSUME NEW n \in Nat
  PROVE  Dispatches(n) \in Int
BY MigrateAssumption DEF Dispatches

(* NextOfCurb and ContinueCurb. *)
LEMMA CurbStep ==
  ASSUME IInv, NEW s \in Scheds, NextOfCurb(s) \/ ContinueCurb(s)
  PROVE  IInv'
<1>1. Types /\ ControlAt(s)
  BY DEF IInv, Control
<1>2. /\ pc[s] = "sched" /\ curb[s].procs # << >> /\ Goto(s, "user")
      /\ UNCHANGED <<affinity, calls, mail, queueVars, bat, windowVars, thief>>
  BY DEF NextOfCurb, ContinueCurb, AtTop, EndOfCurb, GoesOn
<1>3. UNCHANGED <<affinity, mail, pend, rq, rqstate, free, laundry, job, ret, bat, slot, head, bm,
                  mwstate, thief>>
  BY <1>2 DEF queueVars, windowVars
<1>4. PICK c \in CurbSet :
        c.procs = curb[s].procs /\ c.aff = curb[s].aff /\ Dequeue(s, c)
  <2>1. curb[s] \in CurbSet
    BY <1>1 DEF Types
  <2>2. CASE NextOfCurb(s)
    BY <2>1, <2>2 DEF NextOfCurb, CurbSet
  <2>3. CASE ContinueCurb(s)
    <3>1. Dispatches(Len(curb[s].procs)) \in Int
      BY <2>1, DispatchesInt DEF CurbSet
    <3> QED BY <2>1, <2>3, <3>1 DEF ContinueCurb, CurbSet
  <2> QED BY <2>2, <2>3
<1>5. /\ cur' \in [Scheds -> Procs \cup {NotProcess}] /\ cur'[s] # NotProcess
      /\ curb' \in [Scheds -> CurbSet]
      /\ \A t \in Scheds : t # s => cur'[t] = cur[t] /\ curb'[t] = curb[t]
  BY <1>1, <1>2, <1>4, CurbTypes
<1>6. /\ pc' \in [Scheds -> Labels] /\ pc'[s] = "user"
      /\ \A t \in Scheds : t # s => pc'[t] = pc[t]
  BY <1>1, <1>2 DEF Types, Goto, Labels, HomeLabels
<1>7. Types'
  BY <1>1, <1>3, <1>5, <1>6 DEF Types
<1>8. ControlAt(s)'
  BY <1>1, <1>2, <1>3, <1>5, <1>6 DEF ControlAt, Home, AddLabels, OwnLabels, LookLabels, ThiefLabels
<1>9. Control'
  <2> SUFFICES ASSUME NEW t \in Scheds, t # s PROVE ControlAt(t)'
    BY <1>8 DEF Control
  <2>1. SameAt(t)
    BY <1>3, <1>5, <1>6 DEF SameAt
  <2> QED BY <2>1, ControlSame
<1>10. /\ "user" \in Labels \ (OwnLabels \cup {"steal_mark"}) /\ "user" \notin ThiefLabels
       /\ pc[s] \notin OwnLabels \cup {"mig_slot", "steal_mark"}
  BY <1>2 DEF Labels, HomeLabels, OwnLabels, AddLabels, ThiefLabels
<1> QED BY <1>2, <1>3, <1>7, <1>9, <1>10, Quiet

(* The same, when only the data of s change. *)
LEMMA QuietOwn ==
  ASSUME IInv, NEW s \in Scheds, NEW l \in Labels \ (OwnLabels \cup {"steal_mark"}),
         UNCHANGED <<pend, rq, free, laundry, bat, slot, job, head, bm>>,
         Goto(s, l), pc[s] \notin OwnLabels \cup {"mig_slot", "steal_mark"},
         l \in ThiefLabels /\ job[s] # NoBatch => pc[s] \in ThiefLabels,
         \A t \in Scheds : t # s =>
           /\ cur'[t] = cur[t] /\ curb'[t] = curb[t] /\ ret'[t] = ret[t]
           /\ rqstate'[t] = rqstate[t] /\ mwstate'[t] = mwstate[t] /\ thief'[t] = thief[t],
         Types', ControlAt(s)'
  PROVE  IInv'
<1>1. Control'
  <2> SUFFICES ASSUME NEW t \in Scheds, t # s PROVE ControlAt(t)'
    BY DEF Control
  <2>1. pc'[t] = pc[t]
    BY DEF IInv, Types, Goto
  <2>2. SameAt(t)
    BY <2>1 DEF SameAt
  <2> QED BY <2>2, ControlSame
<1> QED BY <1>1, Quiet

(* Where a scheduler goes. *)
LEMMA GotoPc ==
  ASSUME Types, NEW s \in Scheds, NEW l \in Labels, Goto(s, l)
  PROVE  /\ pc' \in [Scheds -> Labels] /\ pc'[s] = l
         /\ \A t \in Scheds : t # s => pc'[t] = pc[t]
BY DEF Types, Goto

(* The running process leaves: Pause, Block. *)
LEMMA LeaveStep ==
  ASSUME IInv, NEW s \in Scheds, Pause(s) \/ Block(s)
  PROVE  IInv'
<1>1. Types /\ ControlAt(s)
  BY DEF IInv, Control
<1>2. /\ pc[s] = "user" /\ Goto(s, "sched") /\ Leave(s)
      /\ affinity' = [affinity EXCEPT ![cur[s]] = SavedAffinity(s, cur[s])]
      /\ curb' \in {curb, CurbWith(s, cur[s])}
      /\ UNCHANGED <<mail, queueVars, bat, windowVars, thief>>
  BY DEF Pause, Block
<1>3. UNCHANGED <<mail, pend, rq, rqstate, free, laundry, job, ret, bat, slot, head, bm,
                  mwstate, thief>>
  BY <1>2 DEF queueVars, windowVars
<1>4. cur[s] \in Procs
  BY <1>1, <1>2 DEF Types, ControlAt, Home, AddLabels
<1>5. curb' \in [Scheds -> CurbSet]
  <2>1. curb[s] \in CurbSet /\ curb[s].procs \in Seq(Procs)
    BY <1>1 DEF Types, CurbSet
  <2>2. Append(curb[s].procs, cur[s]) \in Seq(Procs)
    BY <1>4, <2>1
  <2>3. CurbWith(s, cur[s]) = [curb EXCEPT ![s] = [curb[s] EXCEPT !.procs = Append(curb[s].procs, cur[s])]]
    BY <1>1, CurbNested DEF CurbWith, Types
  <2>4. [curb[s] EXCEPT !.procs = Append(curb[s].procs, cur[s])] \in CurbSet
    BY <2>1, <2>2, CurbUpdate
  <2>5. CurbWith(s, cur[s]) \in [Scheds -> CurbSet]
    BY <1>1, <2>3, <2>4 DEF Types
  <2> QED BY <1>1, <1>2, <2>5 DEF Types
<1>6. affinity' \in [Procs -> SUBSET Scheds]
  BY <1>1, <1>2, <1>4 DEF SavedAffinity, Types, CurbSet
<1>7. /\ cur' \in [Scheds -> Procs \cup {NotProcess}] /\ cur'[s] = NotProcess
      /\ \A t \in Scheds : t # s => cur'[t] = cur[t] /\ curb'[t] = curb[t]
  BY <1>1, <1>2 DEF Types, Leave, CurbWith
<1>8. /\ pc' \in [Scheds -> Labels] /\ pc'[s] = "sched"
      /\ \A t \in Scheds : t # s => pc'[t] = pc[t]
  BY <1>1, <1>2, GotoPc DEF Labels, HomeLabels
<1>9. Types'
  BY <1>1, <1>3, <1>5, <1>6, <1>7, <1>8 DEF Types
<1>10. ControlAt(s)'
  BY <1>1, <1>2, <1>3, <1>7, <1>8 DEF ControlAt, Home, AddLabels, OwnLabels, LookLabels, ThiefLabels
<1>11. /\ "sched" \in Labels \ (OwnLabels \cup {"steal_mark"}) /\ "sched" \notin ThiefLabels
       /\ pc[s] \notin OwnLabels \cup {"mig_slot", "steal_mark"}
  BY <1>2 DEF Labels, HomeLabels, OwnLabels, AddLabels, ThiefLabels
<1> QED BY <1>2, <1>3, <1>7, <1>9, <1>10, <1>11, QuietOwn

(* The run queue of s is found empty. *)
LEMMA PickNoneStep ==
  ASSUME IInv, NEW s \in Scheds, PickNone(s)
  PROVE  IInv'
<1>1. Types /\ ControlAt(s)
  BY DEF IInv, Control
<1>2. /\ pc[s] \in {"sched", "pick"} /\ Goto(s, "pick") /\ (pc[s] = "sched" => curb[s].procs = << >>)
      /\ rqstate' = [rqstate EXCEPT ![s] = FALSE] /\ mwstate' = [mwstate EXCEPT ![s] = FALSE]
      /\ UNCHANGED <<schedVars, pend, rq, free, laundry, job, ret, bat, slot, head, bm, thief>>
  BY DEF PickNone, Picks, AtTop
<1>3. UNCHANGED <<cur, affinity, mail, curb>>
  BY <1>2 DEF schedVars
<1>4. /\ pc' \in [Scheds -> Labels] /\ pc'[s] = "pick"
      /\ \A t \in Scheds : t # s => pc'[t] = pc[t]
  BY <1>1, <1>2, GotoPc DEF Labels, HomeLabels
<1>5. Types'
  BY <1>1, <1>2, <1>3, <1>4 DEF Types
<1>6. ControlAt(s)'
  BY <1>1, <1>2, <1>3, <1>4 DEF Types, ControlAt, Home, AddLabels, OwnLabels, LookLabels, ThiefLabels
<1>7. /\ "pick" \in Labels \ (OwnLabels \cup {"steal_mark"}) /\ "pick" \notin ThiefLabels
      /\ pc[s] \notin OwnLabels \cup {"mig_slot", "steal_mark"}
  BY <1>2 DEF Labels, HomeLabels, OwnLabels, AddLabels, ThiefLabels
<1>8. \A t \in Scheds : t # s => rqstate'[t] = rqstate[t] /\ mwstate'[t] = mwstate[t]
  BY <1>1, <1>2 DEF Types
<1> QED BY <1>2, <1>3, <1>5, <1>6, <1>7, <1>8, QuietOwn

(* A scheduler looks for work elsewhere, up to the state word of a window. *)
LEMMA LookStep ==
  ASSUME IInv, NEW s \in Scheds,
         StartMigrate(s) \/ (\E v \in Scheds : NoWork(s, v) \/ TryMigrate(s, v))
  PROVE  IInv'
<1>1. Types /\ ControlAt(s)
  BY DEF IInv, Control
<1>2. UNCHANGED <<schedVars, queueVars, bat, windowVars>>
  BY DEF StartMigrate, NoWork, TryMigrate
<1>3. UNCHANGED <<cur, affinity, mail, curb, pend, rq, rqstate, free, laundry, job, ret, bat,
                  slot, head, bm, mwstate>>
  BY <1>2 DEF schedVars, queueVars, windowVars
<1>4. /\ pc[s] \in {"sched", "pick", "migrate"} /\ job[s] = NoBatch /\ ~rqstate[s]
      /\ curb[s].procs = << >>
  BY <1>1 DEF StartMigrate, NoWork, TryMigrate, Picks, AtTop, ControlAt, Home, AddLabels,
     OwnLabels, ThiefLabels
<1>5. PICK l \in {"migrate", "mig_end", "mig_bit"}, r \in ThiefSet :
        /\ Goto(s, l) /\ thief' = [thief EXCEPT ![s] = r]
        /\ l # "migrate" => r.victim # s /\ (l = "mig_bit" => r.bm # {})
  <2>1. CASE StartMigrate(s)
    <3>1. [NoThief(s) EXCEPT !.active = Scheds] \in ThiefSet
      BY MigrateAssumption DEF NoThief, ThiefSet
    <3> QED BY <1>1, <2>1, <3>1 DEF StartMigrate, Types
  <2>2. ASSUME NEW v \in Scheds, NoWork(s, v)
        PROVE  /\ Goto(s, "migrate")
               /\ \E r \in ThiefSet : thief' = [thief EXCEPT ![s] = r]
    <3>1. [thief[s] EXCEPT !.active = @ \ {v}] \in ThiefSet
      <4>1. thief[s] \in ThiefSet
        BY <1>1 DEF Types
      <4>2. thief[s].active \ {v} \in SUBSET Scheds
        BY <4>1 DEF ThiefSet
      <4> QED BY <4>1, <4>2 DEF ThiefSet
    <3>2. thief' = [thief EXCEPT ![s] = [thief[s] EXCEPT !.active = @ \ {v}]]
      BY <1>1, <2>2 DEF NoWork, Types
    <3>3. pc' = pc /\ pc[s] = "migrate"
      BY <2>2 DEF NoWork
    <3>4. Goto(s, "migrate")
      BY <1>1, <3>3 DEF Goto, Types
    <3> QED BY <3>1, <3>2, <3>4
  <2>3. ASSUME NEW v \in Scheds, TryMigrate(s, v)
        PROVE  \E l \in {"mig_end", "mig_bit"}, r \in ThiefSet :
                 /\ Goto(s, l) /\ thief' = [thief EXCEPT ![s] = r]
                 /\ r.victim # s /\ (l = "mig_bit" => r.bm # {})
    <3> DEFINE r == [thief[s] EXCEPT !.victim = v, !.head = head[v], !.bm = bm[v]]
               l == IF bm[v] = {} THEN "mig_end" ELSE "mig_bit"
    <3>1. v # s
      BY <1>1, <1>4, <2>3 DEF TryMigrate, ControlAt
    <3>2. r \in ThiefSet /\ r.victim = v /\ r.bm = bm[v]
      <4>1. thief[s] \in ThiefSet /\ head[v] \in 0..Size /\ bm[v] \in SUBSET Slots
        BY <1>1 DEF Types
      <4> QED BY <4>1 DEF ThiefSet
    <3>3. thief' = [thief EXCEPT ![s] = r]
      <4>1. thief' = [thief EXCEPT ![s].victim = v, ![s].head = head[v], ![s].bm = bm[v]]
        BY <2>3 DEF TryMigrate
      <4>2. thief \in [Scheds -> ThiefSet]
        BY <1>1 DEF Types
      <4> QED BY <4>1, <4>2
    <3>4. Goto(s, l)
      BY <2>3 DEF TryMigrate
    <3>5. l \in {"mig_end", "mig_bit"} /\ (l = "mig_bit" => bm[v] # {})
      OBVIOUS
    <3> HIDE DEF r, l
    <3> QED BY <3>1, <3>2, <3>3, <3>4, <3>5
  <2> QED BY <2>1, <2>2, <2>3
<1>6. /\ pc' \in [Scheds -> Labels] /\ pc'[s] = l
      /\ \A t \in Scheds : t # s => pc'[t] = pc[t]
  BY <1>1, <1>5, GotoPc DEF Labels, LookLabels
<1>7. /\ thief' \in [Scheds -> ThiefSet] /\ thief'[s] = r
      /\ \A t \in Scheds : t # s => thief'[t] = thief[t]
  BY <1>1, <1>5 DEF Types
<1>8. Types'
  BY <1>1, <1>3, <1>6, <1>7 DEF Types
<1>10. ControlAt(s)'
  BY <1>1, <1>3, <1>4, <1>5, <1>6, <1>7 DEF ControlAt, Home, AddLabels, OwnLabels, LookLabels, ThiefLabels
<1>11. /\ l \in Labels \ (OwnLabels \cup {"steal_mark"})
       /\ pc[s] \notin OwnLabels \cup {"mig_slot", "steal_mark"}
  BY <1>4 DEF Labels, HomeLabels, LookLabels, OwnLabels, AddLabels, ThiefLabels
<1> QED BY <1>3, <1>4, <1>5, <1>7, <1>8, <1>10, <1>11, QuietOwn

(* The thief is done with a window. *)
LEMMA MigratedStep ==
  ASSUME IInv, NEW s \in Scheds, MigrateEnd(s) \/ MigrateMw(s)
  PROVE  IInv'
<1>1. Types /\ ControlAt(s)
  BY DEF IInv, Control
<1>2. UNCHANGED <<cur, affinity, mail, curb, pend, rq, rqstate, free, laundry, job, ret, bat,
                  slot, head, bm>>
  BY DEF MigrateEnd, MigrateMw, schedVars, queueVars, windowVars
<1>3. pc[s] \in {"mig_end", "mig_mw"} /\ ~rqstate[s] /\ curb[s].procs = << >> /\ cur[s] = NotProcess
  BY <1>1 DEF MigrateEnd, MigrateMw, ControlAt, Home, AddLabels, LookLabels
<1>4. PICK l \in {"mig_mw", "migrate", "steal_load"}, r \in ThiefSet :
        /\ Goto(s, l) /\ thief' = [thief EXCEPT ![s] = r]
        /\ l = "migrate" => job[s] = NoBatch
        /\ l = "steal_load" => job[s] # NoBatch
        /\ l = "mig_mw" => r = thief[s]
  <2>1. thief[s] \in ThiefSet /\ thief \in [Scheds -> ThiefSet]
    BY <1>1 DEF Types
  <2>2. CASE Migrated(s)
    <3> DEFINE r == [NoThief(s) EXCEPT !.active = IF job[s] = NoBatch THEN thief[s].active ELSE {}]
               l == IF job[s] = NoBatch THEN "migrate" ELSE "steal_load"
    <3>1. r \in ThiefSet
      BY <2>1, MigrateAssumption DEF NoThief, ThiefSet
    <3>2. Goto(s, l) /\ thief' = [thief EXCEPT ![s] = r]
      BY <2>2 DEF Migrated
    <3>3. /\ l \in {"mig_mw", "migrate", "steal_load"} /\ l # "mig_mw"
          /\ l = "migrate" => job[s] = NoBatch
          /\ l = "steal_load" => job[s] # NoBatch
      OBVIOUS
    <3> HIDE DEF r, l
    <3> QED BY <3>1, <3>2, <3>3
  <2>3. CASE Goto(s, "mig_mw") /\ UNCHANGED thief
    <3>1. thief' = [thief EXCEPT ![s] = thief[s]]
      BY <2>1, <2>3
    <3> QED BY <2>1, <2>3, <3>1
  <2> QED BY <2>2, <2>3 DEF MigrateEnd, MigrateMw
<1>5. /\ pc' \in [Scheds -> Labels] /\ pc'[s] = l
      /\ \A t \in Scheds : t # s => pc'[t] = pc[t]
  BY <1>1, <1>4, GotoPc DEF Labels, LookLabels, ThiefLabels
<1>6. /\ thief' \in [Scheds -> ThiefSet] /\ thief'[s] = r
      /\ \A t \in Scheds : t # s => thief'[t] = thief[t]
  BY <1>1, <1>4 DEF Types
<1>7. /\ mwstate' \in [Scheds -> BOOLEAN]
      /\ \A t \in Scheds : mwstate'[t] => mwstate[t]
  <2>1. mwstate \in [Scheds -> BOOLEAN]
    BY <1>1 DEF Types
  <2>2. CASE MigrateEnd(s)
    BY <2>1, <2>2 DEF MigrateEnd, windowVars
  <2>3. CASE MigrateMw(s)
    BY <2>1, <2>3 DEF MigrateMw
  <2> QED BY <2>2, <2>3
<1>8. Types'
  BY <1>1, <1>2, <1>5, <1>6, <1>7 DEF Types
<1>9. ControlAt(s)'
  BY <1>1, <1>2, <1>3, <1>4, <1>5, <1>6, <1>7
     DEF ControlAt, Home, AddLabels, OwnLabels, LookLabels, ThiefLabels
<1>10. ASSUME NEW t \in Scheds, t # s PROVE ControlAt(t)'
  BY <1>2, <1>5, <1>6, <1>7, <1>10 DEF IInv, Control, ControlAt, Home
<1>11. Control'
  BY <1>9, <1>10 DEF Control
<1>12. /\ l \in Labels \ (OwnLabels \cup {"steal_mark"})
       /\ pc[s] \notin OwnLabels \cup {"mig_slot", "steal_mark"} /\ pc[s] \in ThiefLabels
  BY <1>3 DEF Labels, HomeLabels, LookLabels, OwnLabels, AddLabels, ThiefLabels
<1> QED BY <1>2, <1>4, <1>6, <1>8, <1>11, <1>12, Quiet

(* A thief clears a bit of a window. *)
LEMMA MigrateBitStep ==
  ASSUME IInv, NEW s \in Scheds, MigrateBit(s)
  PROVE  IInv'
<1>1. Types /\ ControlAt(s)
  BY DEF IInv, Control
<1> DEFINE w == PickSlot(thief[s].bm, thief[s].head)
           r == [thief[s] EXCEPT !.w = w, !.bm = @ \ {w}]
           v == thief[s].victim
<1>2. /\ pc[s] = "mig_bit" /\ Goto(s, "mig_slot") /\ bm' = [bm EXCEPT ![v] = @ \ {w}]
      /\ UNCHANGED <<cur, affinity, mail, curb, pend, rq, rqstate, free, laundry, job, ret, bat,
                     slot, head, mwstate>>
  BY DEF MigrateBit, schedVars, queueVars
<1>3. thief \in [Scheds -> ThiefSet] /\ thief[s] \in ThiefSet /\ bm \in [Scheds -> SUBSET Slots]
  BY <1>1 DEF Types
<1>4. w \in Slots
  <2>1. thief[s].bm \in SUBSET Slots /\ thief[s].bm # {}
    BY <1>1, <1>2, <1>3 DEF ThiefSet, ControlAt
  <2> QED BY <2>1, PickSlotSeen
<1>5. r \in ThiefSet /\ r.w = w /\ r.victim = v /\ v \in Scheds
  <2>1. w \in 0..Size
    BY <1>4, MigrateAssumption DEF Slots
  <2> HIDE DEF w
  <2> QED BY <1>3, <2>1 DEF ThiefSet
<1>6. thief' = [thief EXCEPT ![s] = r]
  <2>1. thief' = [thief EXCEPT ![s].w = w, ![s].bm = @ \ {w}]
    BY DEF MigrateBit
  <2> HIDE DEF w
  <2> QED BY <1>3, <2>1
<1> HIDE DEF w, r, v
<1>7. /\ pc' \in [Scheds -> Labels] /\ pc'[s] = "mig_slot"
      /\ \A t \in Scheds : t # s => pc'[t] = pc[t]
  BY <1>1, <1>2, GotoPc DEF Labels, LookLabels
<1>8. /\ thief' \in [Scheds -> ThiefSet] /\ thief'[s] = r
      /\ \A t \in Scheds : t # s => thief'[t] = thief[t]
  BY <1>3, <1>5, <1>6
<1>9. /\ bm' \in [Scheds -> SUBSET Slots]
      /\ \A t \in Scheds : t # v => bm'[t] = bm[t]
      /\ bm'[v] = bm[v] \ {w}
  BY <1>2, <1>3, <1>5
<1>10. Types'
  BY <1>1, <1>2, <1>7, <1>8, <1>9 DEF Types
<1>11. v # s /\ job[s] = NoBatch /\ ~rqstate[s] /\ cur[s] = NotProcess /\ curb[s].procs = << >>
       /\ ~mwstate[s]
  BY <1>1, <1>2 DEF ControlAt, Home, AddLabels, LookLabels, OwnLabels, ThiefLabels, v
<1>12. ControlAt(s)'
  BY <1>2, <1>4, <1>5, <1>7, <1>8, <1>11
     DEF ControlAt, Home, AddLabels, OwnLabels, LookLabels, ThiefLabels
<1>13. Control'
  <2> SUFFICES ASSUME NEW t \in Scheds, t # s PROVE ControlAt(t)'
    BY <1>12 DEF Control
  <2> QED BY <1>2, <1>7, <1>8 DEF IInv, Control, ControlAt, Home
<1>14. /\ \A t \in Scheds : pc'[t] \in OwnLabels <=> pc[t] \in OwnLabels
       /\ \A t \in Scheds : pc'[t] \in AddLabels <=> pc[t] \in AddLabels
       /\ \A t \in Scheds : pc'[t] = "pull_clear" <=> pc[t] = "pull_clear"
       /\ \A t \in Scheds : pc'[t] = "add_state" <=> pc[t] = "add_state"
       /\ \A t \in Scheds : pc'[t] \in ThiefLabels => pc[t] \in ThiefLabels
       /\ \A t \in Scheds : pc'[t] = "steal_mark" <=> pc[t] = "steal_mark"
  BY <1>2, <1>7 DEF OwnLabels, AddLabels, ThiefLabels
<1>15. Kept'
  <2> SUFFICES ASSUME NEW t \in Scheds PROVE BatchesAt(t)'
    BY DEF Kept
  <2>1. BatchesAt(t) /\ Q(t)' = Q(t)
    BY <1>2 DEF IInv, Kept, Q
  <2>2. OwnedAt(t)' /\ ApartAt(t)' /\ StockedAt(t)'
    BY <1>2, <1>14, <2>1 DEF BatchesAt, OwnedAt, ApartAt, StockedAt
  <2>3. LinedAt(t)'
    BY <1>2, <1>14, <2>1 DEF BatchesAt, LinedAt, InSlot
  <2>4. ShownAt(t)'
    BY <1>2, <1>14, <2>1 DEF BatchesAt, ShownAt, Adding
  <2> QED BY <2>2, <2>3, <2>4 DEF BatchesAt
<1>16. Found'
  <2> SUFFICES ASSUME NEW t \in Scheds, NEW k \in Slots, slot'[t][k] # NoBatch
               PROVE  \/ k \in bm'[t]
                      \/ pc'[t] = "add_state" /\ k = IncrementHead(head'[t])
                      \/ \E u \in Scheds : pc'[u] = "mig_slot" /\ thief'[u].victim = t /\ thief'[u].w = k
    BY DEF Found, FoundAt
  <2>1. \/ k \in bm[t]
        \/ pc[t] = "add_state" /\ k = IncrementHead(head[t])
        \/ \E u \in Scheds : pc[u] = "mig_slot" /\ thief[u].victim = t /\ thief[u].w = k
    BY <1>2 DEF IInv, Found, FoundAt
  <2>2. CASE t = v /\ k = w
    BY <1>5, <1>7, <1>8, <2>2
  <2>3. CASE ~(t = v /\ k = w)
    BY <1>2, <1>7, <1>8, <1>9, <1>14, <2>1, <2>3
  <2> QED BY <2>2, <2>3
<1>17. Stolen'
  <2>1. \A t \in Scheds, b \in Batches : Holds(t, b)' => Holds(t, b)
    BY <1>2, <1>14 DEF Holds
  <2>2. ASSUME NEW t \in Scheds, NEW b \in Batches, Holds(t, b)'
        PROVE  StolenBy(t, b)'
    <3>1. StolenBy(t, b) /\ b[1] \in Scheds
      BY <2>1, <2>2, OwnFacts DEF IInv, Stolen
    <3> QED BY <1>2, <1>14, <3>1 DEF StolenBy, InSlot, Adding, Q
  <2> QED BY <2>1, <2>2 DEF IInv, Stolen
<1> QED BY <1>10, <1>13, <1>15, <1>16, <1>17 DEF IInv

-----------------------------------------------------------------------------
(***************************************************************************)
(* What a thief does to the batches of others.                             *)
(***************************************************************************)
(* A batch in a slot is on its way through the queue of its owner. *)
LEMMA ShownFacts ==
  ASSUME IInv, NEW v \in Scheds, NEW w \in Slots, slot[v][w] # NoBatch, NEW b, b = slot[v][w]
  PROVE  /\ b \in Own(v) /\ b \in Batches /\ b[1] = v
         /\ b \in Q(v) \/ Adding(v, b)
         /\ bat[b].win = w /\ bat[b].dirty /\ w # 0 /\ InSlot(v, b)
         /\ Good(bat[b].procs)
         /\ \A t \in Scheds : ~Holds(t, b)
<1>1. BatchesAt(v)
  BY DEF IInv, Kept
<1>2. b \in Batches /\ (b \in Q(v) \/ Adding(v, b))
  BY <1>1 DEF BatchesAt, ShownAt, IInv, Types
<1>3. b \in Own(v)
  BY <1>1, <1>2 DEF BatchesAt, OwnedAt, Adding, OwnLabels
<1>4. b \in Batches /\ b[1] = v
  BY <1>3, OwnFacts
<1>5. bat[b].win = w /\ bat[b].dirty /\ w # 0 /\ InSlot(v, b)
  BY <1>1, <1>2 DEF BatchesAt, ShownAt, InSlot, Slots
<1>6. Good(bat[b].procs)
  BY <1>1, <1>2, <1>5 DEF BatchesAt, LinedAt, Adding
<1>7. \A t \in Scheds : ~Holds(t, b)
  BY <1>4, <1>5 DEF IInv, Stolen, StolenBy
<1> QED BY <1>2, <1>3, <1>4, <1>5, <1>6, <1>7

(* A batch a thief holds is in no other hands. *)
LEMMA HeldFacts ==
  ASSUME IInv, NEW s \in Scheds, NEW b \in Batches, Holds(s, b)
  PROVE  /\ StolenBy(s, b) /\ bat[b].win # 0
         /\ \A t \in Scheds : /\ b \notin free[t] /\ b # pend[t].batch
                              /\ \A w \in Slots : slot[t][w] # b
                              /\ pc[t] = "pull_clear" => job[t] # b
                              /\ ~(pc[t] \in AddLabels /\ job[t] = b /\ InSlot(t, b))
                              /\ ~(b \in Q(t) /\ InSlot(t, b))
         /\ \A t \in Scheds : t # s => ~Holds(t, b)
<1>1. StolenBy(s, b) /\ b[1] \in Scheds
  BY OwnFacts DEF IInv, Stolen
<1>2. bat[b].win # 0 /\ bat[b].dirty /\ ~InSlot(b[1], b)
  BY <1>1 DEF StolenBy, InSlot
<1>3. ASSUME NEW t \in Scheds
      PROVE  /\ b \notin free[t] /\ b # pend[t].batch
             /\ \A w \in Slots : slot[t][w] # b
             /\ pc[t] = "pull_clear" => job[t] # b
             /\ ~(pc[t] \in AddLabels /\ job[t] = b /\ InSlot(t, b))
             /\ ~(b \in Q(t) /\ InSlot(t, b))
  <2>1. BatchesAt(t)
    BY DEF IInv, Kept
  <2>2. b \notin free[t] /\ b # pend[t].batch
    BY <1>2, <2>1 DEF BatchesAt, StockedAt, CleanBatch
  <2>3. ASSUME NEW w \in Slots PROVE slot[t][w] # b
    <3> SUFFICES ASSUME slot[t][w] = b PROVE FALSE
      OBVIOUS
    <3>1. b # NoBatch
      BY OwnFacts
    <3>2. \A u \in Scheds : ~Holds(u, b)
      BY <3>1, ShownFacts
    <3> QED BY <3>2
  <2>4. ASSUME b \in Own(t) PROVE b[1] = t
    BY <2>4, OwnFacts
  <2>5. pc[t] = "pull_clear" => job[t] # b
    <3> SUFFICES ASSUME pc[t] = "pull_clear", job[t] = b PROVE FALSE
      OBVIOUS
    <3>1. pc[t] \in OwnLabels /\ pc[t] \notin AddLabels
      BY DEF OwnLabels, AddLabels
    <3>2. b \in Own(t) /\ b \notin Q(t) \cup laundry[t]
      BY <2>1, <3>1 DEF BatchesAt, OwnedAt, ApartAt
    <3>3. b[1] = t
      BY <2>4, <3>2
    <3> QED BY <1>1, <3>1, <3>2, <3>3 DEF StolenBy, Adding
  <2>6. b \in Q(t) => b \in Own(t)
    BY <2>1 DEF BatchesAt, OwnedAt
  <2>7. pc[t] \in AddLabels /\ job[t] = b => b \in Own(t)
    BY <2>1 DEF BatchesAt, OwnedAt, OwnLabels
  <2> QED BY <1>2, <2>2, <2>3, <2>4, <2>5, <2>6, <2>7
<1>4. \A t \in Scheds : t # s => ~Holds(t, b)
  BY DEF IInv, Stolen
<1> QED BY <1>1, <1>2, <1>3, <1>4

(* A thief empties a slot. *)
LEMMA MigrateSlotStep ==
  ASSUME IInv, NEW s \in Scheds, MigrateSlot(s)
  PROVE  IInv'
<1>1. Types /\ ControlAt(s)
  BY DEF IInv, Control
<1>2. /\ pc[s] = "mig_slot"
      /\ UNCHANGED <<cur, affinity, mail, curb, pend, rq, rqstate, free, laundry, ret, bat,
                     head, bm, mwstate>>
  BY DEF MigrateSlot, schedVars
<1>3. /\ thief \in [Scheds -> ThiefSet] /\ thief[s] \in ThiefSet
      /\ slot \in [Scheds -> [Slots -> Batches \cup {NoBatch}]]
  BY <1>1 DEF Types
<1>4. PICK w \in Slots : w = thief[s].w
  BY <1>1, <1>2 DEF ControlAt
<1>5. PICK v \in Scheds : v = thief[s].victim
  BY <1>3 DEF ThiefSet
<1>6. PICK b \in Batches \cup {NoBatch} : b = slot[v][w]
  BY <1>3
<1>7. PICK r \in ThiefSet : /\ thief' = [thief EXCEPT ![s] = r]
                            /\ r.victim = v /\ r.bm = thief[s].bm
  <2>1. thief' = [thief EXCEPT ![s].w = 0]
    BY DEF MigrateSlot
  <2>2. thief' = [thief EXCEPT ![s] = [thief[s] EXCEPT !.w = 0]]
    BY <1>3, <2>1
  <2>3. 0 \in 0..Size
    BY MigrateAssumption
  <2>4. /\ [thief[s] EXCEPT !.w = 0] \in ThiefSet
        /\ [thief[s] EXCEPT !.w = 0].victim = v /\ [thief[s] EXCEPT !.w = 0].bm = thief[s].bm
    BY <1>3, <1>5, <2>3 DEF ThiefSet
  <2> QED BY <2>2, <2>4
<1>8. PICK l \in {"mig_bit", "mig_end"} :
        /\ Goto(s, l) /\ slot' = [slot EXCEPT ![v][w] = NoBatch] /\ job' = [job EXCEPT ![s] = b]
        /\ l = "mig_bit" => b = NoBatch /\ thief[s].bm # {}
  <2>1. Goto(s, IF b = NoBatch /\ thief[s].bm # {} THEN "mig_bit" ELSE "mig_end")
    BY <1>4, <1>5, <1>6 DEF MigrateSlot
  <2> QED BY <1>4, <1>5, <1>6, <2>1 DEF MigrateSlot
<1>0. /\ v # s /\ job[s] = NoBatch /\ ~rqstate[s] /\ cur[s] = NotProcess
      /\ curb[s].procs = << >> /\ ~mwstate[s]
  BY <1>1, <1>2, <1>5 DEF ControlAt, Home, AddLabels, LookLabels, OwnLabels, ThiefLabels
<1>9. /\ pc' \in [Scheds -> Labels] /\ pc'[s] = l
      /\ \A t \in Scheds : t # s => pc'[t] = pc[t]
  BY <1>1, <1>8, GotoPc DEF Labels, LookLabels
<1>10. /\ thief' \in [Scheds -> ThiefSet] /\ thief'[s] = r
       /\ \A t \in Scheds : t # s => thief'[t] = thief[t]
  BY <1>3, <1>7
<1>11. /\ slot' \in [Scheds -> [Slots -> Batches \cup {NoBatch}]]
       /\ slot'[v][w] = NoBatch
       /\ \A t \in Scheds, k \in Slots : ~(t = v /\ k = w) => slot'[t][k] = slot[t][k]
  BY <1>3, <1>8
<1>12. /\ job' \in [Scheds -> Batches \cup {NoBatch}] /\ job'[s] = b
       /\ \A t \in Scheds : t # s => job'[t] = job[t]
  BY <1>1, <1>8 DEF Types
<1>13. Types'
  BY <1>1, <1>2, <1>9, <1>10, <1>11, <1>12 DEF Types
<1>14. ControlAt(s)'
  BY <1>0, <1>2, <1>7, <1>8, <1>9, <1>10, <1>12
     DEF ControlAt, Home, AddLabels, OwnLabels, LookLabels, ThiefLabels
<1>15. Control'
  <2> SUFFICES ASSUME NEW t \in Scheds, t # s PROVE ControlAt(t)'
    BY <1>14 DEF Control
  <2> QED BY <1>2, <1>9, <1>10, <1>12 DEF IInv, Control, ControlAt, Home
<1>16. /\ \A t \in Scheds : pc'[t] \in OwnLabels <=> pc[t] \in OwnLabels
       /\ \A t \in Scheds : pc'[t] \in AddLabels <=> pc[t] \in AddLabels
       /\ \A t \in Scheds : pc'[t] = "pull_clear" <=> pc[t] = "pull_clear"
       /\ \A t \in Scheds : pc'[t] = "add_state" <=> pc[t] = "add_state"
       /\ \A t \in Scheds : pc'[t] = "steal_mark" <=> pc[t] = "steal_mark"
       /\ \A t \in Scheds : pc[t] \in OwnLabels => job'[t] = job[t]
  BY <1>2, <1>8, <1>9, <1>12 DEF OwnLabels, AddLabels, ThiefLabels
<1>17. \A t \in Scheds : Q(t)' = Q(t)
  BY <1>2 DEF Q
<1>18. \A t \in Scheds, c \in Batches : /\ Adding(t, c)' <=> Adding(t, c)
                                        /\ InSlot(t, c)' => InSlot(t, c)
  <2>1. ASSUME NEW t \in Scheds, NEW c \in Batches, InSlot(t, c)' PROVE InSlot(t, c)
    <3>1. bat'[c] = bat[c] /\ (bat[c].win # 0 => bat[c].win \in Slots) /\ c # NoBatch
      BY <1>1, <1>2, OwnFacts DEF Types, BatSet, Slots
    <3> QED BY <1>11, <2>1, <3>1 DEF InSlot
  <2> QED BY <1>16, <2>1 DEF Adding, OwnLabels
<1>19. Kept'
  <2> SUFFICES ASSUME NEW t \in Scheds PROVE BatchesAt(t)'
    BY DEF Kept
  <2>1. BatchesAt(t)
    BY DEF IInv, Kept
  <2>2. OwnedAt(t)' /\ ApartAt(t)' /\ StockedAt(t)'
    BY <1>2, <1>16, <1>17, <2>1 DEF BatchesAt, OwnedAt, ApartAt, StockedAt
  <2>3. Q(t) \subseteq Batches /\ (pc[t] \in OwnLabels => job[t] \in Batches)
    BY <2>1, OwnFacts DEF BatchesAt, OwnedAt
  <2>4. LinedAt(t)'
    <3>1. pc[t] = "pull_clear" => slot'[t][bat[job[t]].win] = NoBatch
      <4> SUFFICES ASSUME pc[t] = "pull_clear" PROVE slot'[t][bat[job[t]].win] = NoBatch
        OBVIOUS
      <4>1. job[t] \in Batches /\ bat[job[t]].win # 0 /\ slot[t][bat[job[t]].win] = NoBatch
        BY <2>1, <2>3 DEF BatchesAt, LinedAt, OwnLabels
      <4>2. bat[job[t]].win \in Slots
        BY <1>1, <4>1 DEF Types, BatSet, Slots
      <4> QED BY <1>11, <4>1, <4>2
    <3> QED BY <1>2, <1>16, <1>17, <1>18, <2>1, <2>3, <3>1 DEF BatchesAt, LinedAt, OwnLabels, AddLabels
  <2>5. ShownAt(t)'
    <3> SUFFICES ASSUME NEW k \in Slots, NEW c \in Batches, slot'[t][k] = c
                 PROVE  /\ c \in Q(t)' \/ Adding(t, c)'
                        /\ bat'[c].win = k /\ bat'[c].dirty
      BY DEF ShownAt
    <3>1. slot[t][k] = c
      BY <1>11, OwnFacts
    <3> QED BY <1>2, <1>17, <1>18, <2>1, <3>1 DEF BatchesAt, ShownAt
  <2> QED BY <2>2, <2>4, <2>5 DEF BatchesAt
<1>20. Found'
  <2> SUFFICES ASSUME NEW t \in Scheds, NEW k \in Slots, slot'[t][k] # NoBatch
               PROVE  \/ k \in bm'[t]
                      \/ pc'[t] = "add_state" /\ k = IncrementHead(head'[t])
                      \/ \E u \in Scheds : pc'[u] = "mig_slot" /\ thief'[u].victim = t /\ thief'[u].w = k
    BY DEF Found, FoundAt
  <2>1. slot'[t][k] = slot[t][k] /\ ~(t = v /\ k = w)
    BY <1>11
  <2>2. \/ k \in bm[t]
        \/ pc[t] = "add_state" /\ k = IncrementHead(head[t])
        \/ \E u \in Scheds : pc[u] = "mig_slot" /\ thief[u].victim = t /\ thief[u].w = k
    BY <2>1 DEF IInv, Found, FoundAt
  <2> QED BY <1>2, <1>9, <1>10, <1>16, <2>1, <2>2, <1>4, <1>5
<1>21. Stolen'
  <2>1. \A t \in Scheds, c \in Batches : Holds(t, c)' /\ t # s => Holds(t, c)
    BY <1>9, <1>12 DEF Holds
  <2>2. \A c \in Batches : Holds(s, c)' => c = b /\ b # NoBatch
    BY <1>12 DEF Holds
  <2>3. ASSUME NEW t \in Scheds, NEW c \in Batches, Holds(t, c)', t # s
        PROVE  StolenBy(t, c)'
    <3>1. StolenBy(t, c) /\ c[1] \in Scheds /\ pc'[t] = pc[t]
      BY <1>9, <2>1, <2>3, OwnFacts DEF IInv, Stolen
    <3> QED BY <1>2, <1>17, <1>18, <3>1 DEF StolenBy
  <2>4. ASSUME b # NoBatch
        PROVE  StolenBy(s, b)' /\ \A t \in Scheds : ~Holds(t, b)
    <3>1. /\ b \in Own(v) /\ b \in Batches /\ b[1] = v
          /\ b \in Q(v) \/ Adding(v, b)
          /\ bat[b].win = w /\ bat[b].dirty /\ w # 0 /\ Good(bat[b].procs)
          /\ \A t \in Scheds : ~Holds(t, b)
      BY <1>6, <2>4, ShownFacts
    <3>2. ~(InSlot(v, b)')
      BY <1>2, <1>11, <2>4, <3>1 DEF InSlot
    <3>3. b \in Q(v)' \cup laundry'[v] \/ Adding(v, b)'
      BY <1>17, <1>18, <3>1
    <3> QED BY <1>0, <1>2, <3>1, <3>2, <3>3 DEF StolenBy
  <2>5. ASSUME NEW t \in Scheds, NEW c \in Batches, Holds(t, c)' PROVE StolenBy(t, c)'
    BY <2>2, <2>3, <2>4, <2>5
  <2>6. ASSUME NEW t \in Scheds, NEW u \in Scheds, NEW c \in Batches, Holds(t, c)', Holds(u, c)'
        PROVE  t = u
    <3>1. CASE t # s /\ u # s
      BY <2>1, <2>6, <3>1 DEF IInv, Stolen
    <3>2. CASE t = s \/ u = s
      BY <2>1, <2>2, <2>4, <2>6, <3>2
    <3> QED BY <3>1, <3>2
  <2> QED BY <2>5, <2>6 DEF Stolen
<1> QED BY <1>13, <1>15, <1>19, <1>20, <1>21 DEF IInv

(* The processes of a batch become those of the current batch of s. *)
LEMMA LoadTypes ==
  ASSUME Types, NEW s \in Scheds, NEW b \in Batches, Good(bat[b].procs), LoadCurb(s, b)
  PROVE  /\ cur' \in [Scheds -> Procs \cup {NotProcess}] /\ cur'[s] = Head(bat[b].procs)
         /\ cur'[s] \in Procs /\ cur'[s] # NotProcess
         /\ curb' \in [Scheds -> CurbSet]
         /\ curb'[s].procs = Tail(bat[b].procs) /\ curb'[s].aff = affinity[Head(bat[b].procs)]
         /\ \A t \in Scheds : t # s => cur'[t] = cur[t] /\ curb'[t] = curb[t]
<1> DEFINE c == [procs |-> bat[b].procs, emptied |-> FALSE, disp |-> Dispatches(Len(bat[b].procs)),
                 aff |-> affinity[Head(bat[b].procs)]]
<1>1. bat[b].procs \in Seq(Procs) /\ bat[b].procs # << >>
  BY DEF Good
<1>2. Head(bat[b].procs) \in Procs /\ Len(bat[b].procs) \in Nat
  BY <1>1, TailOnce, LenProperties
<1>3. affinity[Head(bat[b].procs)] \in SUBSET Scheds
  BY <1>2 DEF Types
<1>4. Dispatches(Len(bat[b].procs)) \in Int
  BY <1>2, DispatchesInt
<1>5. c \in CurbSet /\ c.procs = bat[b].procs /\ c.aff = affinity[Head(bat[b].procs)]
  BY <1>1, <1>3, <1>4 DEF CurbSet
<1>6. Dequeue(s, c)
  BY DEF LoadCurb
<1> HIDE DEF c
<1> QED BY <1>1, <1>5, <1>6, CurbTypes

(* A thief loads the batch it holds. *)
LEMMA StealLoadStep ==
  ASSUME IInv, NEW s \in Scheds, StealLoad(s)
  PROVE  IInv'
<1>1. Types /\ ControlAt(s)
  BY DEF IInv, Control
<1>2. /\ pc[s] = "steal_load" /\ Goto(s, "steal_mark") /\ LoadCurb(s, job[s])
      /\ UNCHANGED <<affinity, mail, pend, rq, rqstate, free, laundry, job, ret, slot, head, bm,
                     mwstate, thief>>
  BY DEF StealLoad, queueVars, windowVars
<1>3. PICK b \in Batches : b = job[s]
  BY <1>1, <1>2 DEF Types, ControlAt
<1>4. Holds(s, b)
  BY <1>2, <1>3, OwnFacts DEF Holds, ThiefLabels
<1>5. Good(bat[b].procs)
  BY <1>2, <1>4, HeldFacts DEF StolenBy
<1>6. /\ bat' \in [Batches -> BatSet] /\ bat'[b].dirty = bat[b].dirty /\ bat'[b].win = bat[b].win
      /\ \A c \in Batches : c # b => bat'[c] = bat[c]
  <2>1. bat' = [bat EXCEPT ![b].procs = Dangling] /\ bat \in [Batches -> BatSet] /\ bat[b] \in BatSet
    BY <1>1, <1>3 DEF StealLoad, Types
  <2>2. bat' = [bat EXCEPT ![b] = [bat[b] EXCEPT !.procs = Dangling]]
    BY <2>1
  <2>3. Dangling \in Seq(Procs \cup {NotProcess})
    BY DEF Dangling
  <2>4. /\ [bat[b] EXCEPT !.procs = Dangling] \in BatSet
        /\ [bat[b] EXCEPT !.procs = Dangling].dirty = bat[b].dirty
        /\ [bat[b] EXCEPT !.procs = Dangling].win = bat[b].win
    BY <2>1, <2>3 DEF BatSet
  <2> QED BY <2>1, <2>2, <2>4
<1>7. /\ cur' \in [Scheds -> Procs \cup {NotProcess}] /\ cur'[s] # NotProcess
      /\ curb' \in [Scheds -> CurbSet]
      /\ \A t \in Scheds : t # s => cur'[t] = cur[t] /\ curb'[t] = curb[t]
  BY <1>1, <1>2, <1>3, <1>5, LoadTypes
<1>8. /\ pc' \in [Scheds -> Labels] /\ pc'[s] = "steal_mark"
      /\ \A t \in Scheds : t # s => pc'[t] = pc[t]
  BY <1>1, <1>2, GotoPc DEF Labels, ThiefLabels
<1>9. Types'
  BY <1>1, <1>2, <1>6, <1>7, <1>8 DEF Types
<1>10. ControlAt(s)'
  BY <1>1, <1>2, <1>7, <1>8 DEF ControlAt, Home, AddLabels, OwnLabels, LookLabels, ThiefLabels
<1>11. Control'
  <2> SUFFICES ASSUME NEW t \in Scheds, t # s PROVE ControlAt(t)'
    BY <1>10 DEF Control
  <2> QED BY <1>2, <1>7, <1>8 DEF IInv, Control, ControlAt, Home
<1>12. /\ \A t \in Scheds : pc'[t] \in OwnLabels <=> pc[t] \in OwnLabels
       /\ \A t \in Scheds : pc'[t] \in AddLabels <=> pc[t] \in AddLabels
       /\ \A t \in Scheds : pc'[t] = "pull_clear" <=> pc[t] = "pull_clear"
       /\ \A t \in Scheds : pc'[t] = "add_state" <=> pc[t] = "add_state"
       /\ \A t \in Scheds : pc'[t] = "mig_slot" <=> pc[t] = "mig_slot"
       /\ \A t \in Scheds : pc'[t] \in ThiefLabels <=> pc[t] \in ThiefLabels
  BY <1>2, <1>8 DEF OwnLabels, AddLabels, ThiefLabels
<1>13. \A t \in Scheds : Q(t)' = Q(t)
  BY <1>2 DEF Q
<1>14. \A c \in Batches : bat'[c].win = bat[c].win /\ bat'[c].dirty = bat[c].dirty
  BY <1>6
<1>15. \A t \in Scheds, c \in Batches : /\ Adding(t, c)' <=> Adding(t, c)
                                        /\ InSlot(t, c)' <=> InSlot(t, c)
  BY <1>2, <1>12, <1>14 DEF Adding, InSlot
<1>16. Kept'
  <2> SUFFICES ASSUME NEW t \in Scheds PROVE BatchesAt(t)'
    BY DEF Kept
  <2>1. BatchesAt(t)
    BY DEF IInv, Kept
  <2>2. /\ b \notin free[t] /\ b # pend[t].batch /\ (pc[t] = "pull_clear" => job[t] # b)
        /\ ~(pc[t] \in AddLabels /\ job[t] = b /\ InSlot(t, b))
        /\ ~(b \in Q(t) /\ InSlot(t, b))
    BY <1>4, HeldFacts
  <2>3. /\ Q(t) \subseteq Batches /\ (pc[t] \in OwnLabels => job[t] \in Batches)
        /\ free[t] \subseteq Batches /\ pend[t].batch \in Batches
    BY <2>1, OwnFacts DEF BatchesAt, OwnedAt
  <2>4. OwnedAt(t)' /\ ApartAt(t)'
    BY <1>2, <1>12, <1>13, <2>1 DEF BatchesAt, OwnedAt, ApartAt
  <2>5. StockedAt(t)'
    BY <1>2, <1>6, <2>1, <2>2, <2>3 DEF BatchesAt, StockedAt
  <2>6. LinedAt(t)'
    <3>1. \A c \in Q(t)' : InSlot(t, c)' => Good(bat'[c].procs)
      BY <1>6, <1>13, <1>15, <2>1, <2>2, <2>3 DEF BatchesAt, LinedAt
    <3>2. \A c \in Q(t)' : bat'[c].win = 0 => ~bat'[c].dirty
      BY <1>13, <1>14, <2>1, <2>3 DEF BatchesAt, LinedAt
    <3>3. pc'[t] \in OwnLabels => bat'[job'[t]].win # 0
      BY <1>2, <1>12, <1>14, <2>1, <2>3 DEF BatchesAt, LinedAt
    <3>4. pc[t] \in AddLabels => pc[t] \in OwnLabels
      BY DEF OwnLabels
    <3>5. (pc[t] \in AddLabels /\ InSlot(t, job[t]) => Good(bat[job[t]].procs))'
      <4> SUFFICES ASSUME pc'[t] \in AddLabels, InSlot(t, job[t])' PROVE Good(bat'[job'[t]].procs)
        OBVIOUS
      <4>1. pc[t] \in AddLabels
        BY <1>12
      <4>2. PICK c \in Batches : c = job[t] /\ job'[t] = c
        BY <1>2, <2>3, <3>4, <4>1
      <4>3. InSlot(t, c)'
        BY <4>2 DEF InSlot
      <4>4. InSlot(t, c) /\ c # b
        BY <1>15, <2>2, <4>1, <4>2, <4>3
      <4> QED BY <1>6, <2>1, <4>1, <4>2, <4>4 DEF BatchesAt, LinedAt
    <3>6. pc'[t] = "pull_clear" => Good(bat'[job'[t]].procs) /\ slot'[t][bat'[job'[t]].win] = NoBatch
      <4> SUFFICES ASSUME pc[t] = "pull_clear"
                   PROVE  Good(bat'[job[t]].procs) /\ slot[t][bat'[job[t]].win] = NoBatch
        BY <1>2, <1>12
      <4>1. job[t] \in Batches /\ job[t] # b
        BY <2>2, <2>3 DEF OwnLabels
      <4> QED BY <1>6, <2>1, <4>1 DEF BatchesAt, LinedAt
    <3> QED BY <1>2, <3>1, <3>2, <3>3, <3>5, <3>6 DEF LinedAt, InSlot
  <2>7. ShownAt(t)'
    BY <1>2, <1>13, <1>14, <1>15, <2>1 DEF BatchesAt, ShownAt
  <2> QED BY <2>4, <2>5, <2>6, <2>7 DEF BatchesAt
<1>17. Found'
  BY <1>2, <1>12 DEF IInv, Found, FoundAt
<1>18. Stolen'
  <2>1. \A t \in Scheds, c \in Batches : Holds(t, c)' => Holds(t, c)
    BY <1>2, <1>12 DEF Holds
  <2>2. ASSUME NEW t \in Scheds, NEW c \in Batches, Holds(t, c)'
        PROVE  StolenBy(t, c)'
    <3>1. StolenBy(t, c) /\ c[1] \in Scheds /\ Holds(t, c)
      BY <2>1, <2>2, OwnFacts DEF IInv, Stolen
    <3>2. t # s => c # b /\ pc'[t] = pc[t]
      BY <1>4, <1>8, <3>1, HeldFacts
    <3>3. pc'[t] # "steal_mark" => Good(bat'[c].procs)
      BY <1>6, <1>8, <3>1, <3>2 DEF StolenBy
    <3> QED BY <1>2, <1>13, <1>14, <1>15, <3>1, <3>3 DEF StolenBy
  <2> QED BY <2>1, <2>2 DEF IInv, Stolen
<1> QED BY <1>9, <1>11, <1>16, <1>17, <1>18 DEF IInv

(* A thief marks the batch it has loaded as clean. *)
LEMMA StealMarkStep ==
  ASSUME IInv, NEW s \in Scheds, StealMark(s)
  PROVE  IInv'
<1>1. Types /\ ControlAt(s)
  BY DEF IInv, Control
<1>2. /\ pc[s] = "steal_mark" /\ Goto(s, "user") /\ job' = [job EXCEPT ![s] = NoBatch]
      /\ UNCHANGED <<cur, curb, affinity, mail, pend, rq, rqstate, free, laundry, ret, slot, head, bm,
                     mwstate, thief>>
  BY DEF StealMark, MarkClean, schedVars, windowVars
<1>3. PICK b \in Batches : b = job[s]
  BY <1>1, <1>2 DEF Types, ControlAt
<1>4. Holds(s, b)
  BY <1>2, <1>3, OwnFacts DEF Holds, ThiefLabels
<1>5. /\ bat' \in [Batches -> BatSet] /\ ~bat'[b].dirty
      /\ bat'[b].win = bat[b].win /\ bat'[b].procs = bat[b].procs
      /\ \A c \in Batches : c # b => bat'[c] = bat[c]
  <2>1. bat' = [bat EXCEPT ![b].dirty = FALSE] /\ bat \in [Batches -> BatSet] /\ bat[b] \in BatSet
    BY <1>1, <1>3 DEF StealMark, MarkClean, Types
  <2>2. bat' = [bat EXCEPT ![b] = [bat[b] EXCEPT !.dirty = FALSE]]
    BY <2>1
  <2>3. /\ [bat[b] EXCEPT !.dirty = FALSE] \in BatSet
        /\ [bat[b] EXCEPT !.dirty = FALSE].dirty = FALSE
        /\ [bat[b] EXCEPT !.dirty = FALSE].win = bat[b].win
        /\ [bat[b] EXCEPT !.dirty = FALSE].procs = bat[b].procs
    BY <2>1 DEF BatSet
  <2> QED BY <2>1, <2>2, <2>3
<1>6. /\ pc' \in [Scheds -> Labels] /\ pc'[s] = "user"
      /\ \A t \in Scheds : t # s => pc'[t] = pc[t]
  BY <1>1, <1>2, GotoPc DEF Labels, HomeLabels
<1>7. /\ job' \in [Scheds -> Batches \cup {NoBatch}] /\ job'[s] = NoBatch
      /\ \A t \in Scheds : t # s => job'[t] = job[t]
  BY <1>1, <1>2 DEF Types
<1>8. Types'
  BY <1>1, <1>2, <1>5, <1>6, <1>7 DEF Types
<1>9. ControlAt(s)'
  BY <1>1, <1>2, <1>6, <1>7 DEF ControlAt, Home, AddLabels, OwnLabels, LookLabels, ThiefLabels
<1>10. Control'
  <2> SUFFICES ASSUME NEW t \in Scheds, t # s PROVE ControlAt(t)'
    BY <1>9 DEF Control
  <2> QED BY <1>2, <1>6, <1>7 DEF IInv, Control, ControlAt, Home
<1>11. /\ \A t \in Scheds : pc'[t] \in OwnLabels <=> pc[t] \in OwnLabels
       /\ \A t \in Scheds : pc'[t] \in AddLabels <=> pc[t] \in AddLabels
       /\ \A t \in Scheds : pc'[t] = "pull_clear" <=> pc[t] = "pull_clear"
       /\ \A t \in Scheds : pc'[t] = "add_state" <=> pc[t] = "add_state"
       /\ \A t \in Scheds : pc'[t] = "mig_slot" <=> pc[t] = "mig_slot"
       /\ \A t \in Scheds : pc[t] \in OwnLabels => job'[t] = job[t]
  BY <1>2, <1>6, <1>7 DEF OwnLabels, AddLabels
<1>12. \A t \in Scheds : Q(t)' = Q(t)
  BY <1>2 DEF Q
<1>13. \A c \in Batches : bat'[c].win = bat[c].win /\ bat'[c].procs = bat[c].procs
  BY <1>5
<1>14. \A t \in Scheds, c \in Batches : /\ Adding(t, c)' <=> Adding(t, c)
                                        /\ InSlot(t, c)' <=> InSlot(t, c)
  BY <1>2, <1>11, <1>13 DEF Adding, InSlot, OwnLabels
<1>15. Kept'
  <2> SUFFICES ASSUME NEW t \in Scheds PROVE BatchesAt(t)'
    BY DEF Kept
  <2>1. BatchesAt(t)
    BY DEF IInv, Kept
  <2>2. /\ b \notin free[t] /\ b # pend[t].batch
        /\ \A w \in Slots : slot[t][w] # b
    BY <1>4, HeldFacts
  <2>3. /\ Q(t) \subseteq Batches /\ (pc[t] \in OwnLabels => job[t] \in Batches)
        /\ free[t] \subseteq Batches /\ pend[t].batch \in Batches
    BY <2>1, OwnFacts DEF BatchesAt, OwnedAt
  <2>4. OwnedAt(t)' /\ ApartAt(t)'
    BY <1>2, <1>11, <1>12, <2>1 DEF BatchesAt, OwnedAt, ApartAt
  <2>5. StockedAt(t)'
    BY <1>2, <1>5, <2>1, <2>2, <2>3 DEF BatchesAt, StockedAt
  <2>6. LinedAt(t)'
    <3>1. \A c \in Q(t)' : InSlot(t, c)' => Good(bat'[c].procs)
      BY <1>12, <1>13, <1>14, <2>1, <2>3 DEF BatchesAt, LinedAt
    <3>2. \A c \in Q(t)' : bat'[c].win = 0 => ~bat'[c].dirty
      BY <1>5, <1>12, <2>1, <2>3 DEF BatchesAt, LinedAt
    <3>3. pc[t] \in AddLabels \/ pc[t] = "pull_clear" => pc[t] \in OwnLabels
      BY DEF OwnLabels
    <3>4. CASE pc[t] \in OwnLabels
      <4>1. PICK c \in Batches : c = job[t] /\ job'[t] = c
        BY <1>11, <2>3, <3>4
      <4>2. InSlot(t, job[t])' => InSlot(t, c)
        BY <1>14, <4>1 DEF InSlot
      <4> QED BY <1>2, <1>11, <1>13, <2>1, <3>1, <3>2, <3>4, <4>1, <4>2 DEF BatchesAt, LinedAt
    <3>5. CASE pc[t] \notin OwnLabels
      BY <1>11, <3>1, <3>2, <3>3, <3>5 DEF LinedAt
    <3> QED BY <3>4, <3>5
  <2>7. ShownAt(t)'
    BY <1>2, <1>5, <1>12, <1>14, <2>1, <2>2 DEF BatchesAt, ShownAt
  <2> QED BY <2>4, <2>5, <2>6, <2>7 DEF BatchesAt
<1>16. Found'
  BY <1>2, <1>11 DEF IInv, Found, FoundAt
<1>17. Stolen'
  <2>1. \A t \in Scheds, c \in Batches : Holds(t, c)' => Holds(t, c) /\ t # s
    BY <1>6, <1>7 DEF Holds
  <2>2. ASSUME NEW t \in Scheds, NEW c \in Batches, Holds(t, c)'
        PROVE  StolenBy(t, c)'
    <3>1. StolenBy(t, c) /\ c[1] \in Scheds /\ Holds(t, c) /\ t # s
      BY <2>1, <2>2, OwnFacts DEF IInv, Stolen
    <3>2. c # b /\ pc'[t] = pc[t]
      BY <1>4, <1>6, <3>1, HeldFacts
    <3> QED BY <1>2, <1>5, <1>12, <1>14, <3>1, <3>2 DEF StolenBy
  <2> QED BY <2>1, <2>2 DEF IInv, Stolen
<1> QED BY <1>8, <1>10, <1>15, <1>16, <1>17 DEF IInv

-----------------------------------------------------------------------------
(***************************************************************************)
(* add_to_visible_runqueue, after the slot has been filled.                *)
(***************************************************************************)
(* The next head is a slot. *)
LEMMA NextHead ==
  ASSUME NEW h \in 0..Size
  PROVE  IncrementHead(h) \in Slots /\ IncrementHead(h) \in 0..Size /\ IncrementHead(h) # 0
BY MigrateAssumption DEF IncrementHead, Slots

(* What a thief holds of the batches of s. *)
LEMMA HeldOfOwner ==
  ASSUME IInv, NEW s \in Scheds, NEW t \in Scheds, NEW b \in Batches, Holds(t, b), b \in Own(s)
  PROVE  /\ t # s /\ bat[b].dirty /\ ~InSlot(s, b) /\ bat[b].win # 0
         /\ b \in Q(s) \cup laundry[s] \/ Adding(s, b)
         /\ b \notin free[s] /\ b # pend[s].batch
         /\ pc[s] = "pull_clear" => job[s] # b
<1>1. b[1] = s
  BY OwnFacts
<1> QED BY <1>1, HeldFacts DEF StolenBy

(* The state word is updated. *)
LEMMA AddStateStep ==
  ASSUME IInv, NEW s \in Scheds, AddState(s)
  PROVE  IInv'
<1>1. Types /\ ControlAt(s) /\ BatchesAt(s) /\ FoundAt(s)
  BY DEF IInv, Control, Kept, Found
<1>2. /\ pc[s] = "add_state" /\ Goto(s, "add_mw")
      /\ UNCHANGED <<cur, curb, affinity, mail, pend, rq, rqstate, free, laundry, job, ret, bat, slot,
                     mwstate, thief>>
  BY DEF AddState, schedVars, queueVars
<1>3. PICK w \in Slots : /\ w = IncrementHead(head[s]) /\ w \in 0..Size
                         /\ head' = [head EXCEPT ![s] = w] /\ bm' = [bm EXCEPT ![s] = @ \cup {w}]
  BY <1>1, NextHead DEF AddState, NewState, Types
<1>4. /\ head' \in [Scheds -> 0..Size] /\ bm' \in [Scheds -> SUBSET Slots]
      /\ bm'[s] = bm[s] \cup {w}
      /\ \A t \in Scheds : t # s => head'[t] = head[t] /\ bm'[t] = bm[t]
  BY <1>1, <1>3 DEF Types
<1>5. /\ pc' \in [Scheds -> Labels] /\ pc'[s] = "add_mw"
      /\ \A t \in Scheds : t # s => pc'[t] = pc[t]
  BY <1>1, <1>2, GotoPc DEF Labels, OwnLabels, AddLabels
<1>6. Types'
  BY <1>1, <1>2, <1>4, <1>5 DEF Types
<1>7. ControlAt(s)'
  BY <1>1, <1>2, <1>5 DEF ControlAt, Home, AddLabels, OwnLabels, LookLabels, ThiefLabels
<1>8. OwnerOnly(s)
  <2>1. pc'[s] \notin ThiefLabels
    BY <1>5 DEF ThiefLabels
  <2> QED BY <1>2, <1>4, <1>5, <2>1 DEF OwnerOnly, SameAt
<1>9. /\ Q(s)' = Q(s) /\ pc[s] \in AddLabels /\ pc'[s] \in AddLabels
      /\ pc[s] \in OwnLabels /\ pc'[s] \in OwnLabels /\ pc'[s] # "pull_clear"
      /\ \A b \in Batches : (Adding(s, b)' <=> Adding(s, b)) /\ (InSlot(s, b)' <=> InSlot(s, b))
  BY <1>2, <1>5 DEF Q, Adding, InSlot, AddLabels, OwnLabels
<1>10. HeldKept(s)
  BY <1>2, <1>9, HeldOfOwner DEF HeldKept
<1>11. BatchesAt(s)'
  <2>1. OwnedAt(s)' /\ ApartAt(s)' /\ StockedAt(s)'
    BY <1>1, <1>2, <1>9 DEF BatchesAt, OwnedAt, ApartAt, StockedAt
  <2>2. LinedAt(s)'
    BY <1>1, <1>2, <1>9 DEF BatchesAt, LinedAt, InSlot
  <2>3. ShownAt(s)'
    BY <1>1, <1>2, <1>9 DEF BatchesAt, ShownAt
  <2> QED BY <2>1, <2>2, <2>3 DEF BatchesAt
<1>12. FoundAt(s)'
  <2>1. \A u \in Scheds : pc[u] = "mig_slot" => pc'[u] = "mig_slot" /\ thief'[u] = thief[u]
    BY <1>2, <1>5
  <2> QED BY <1>1, <1>2, <1>3, <1>4, <2>1 DEF FoundAt
<1> QED BY <1>2, <1>6, <1>7, <1>8, <1>10, <1>11, <1>12, OwnerStep

(* The batch is linked into the run queue. *)
LEMMA AddMwStep ==
  ASSUME IInv, NEW s \in Scheds, AddMw(s)
  PROVE  IInv'
<1>1. Types /\ ControlAt(s) /\ BatchesAt(s) /\ FoundAt(s)
  BY DEF IInv, Control, Kept, Found
<1>2. /\ pc[s] = "add_mw" /\ Goto(s, ret[s])
      /\ UNCHANGED <<cur, curb, affinity, mail, pend, rqstate, free, laundry, bat, slot, head, bm, thief>>
  BY DEF AddMw, schedVars
<1>3. pc[s] \in AddLabels /\ pc[s] \in OwnLabels /\ pc[s] # "mig_slot"
  BY <1>2 DEF AddLabels, OwnLabels
<1>4. PICK b \in Batches : b = job[s] /\ b \in Own(s)
  BY <1>1, <1>3, OwnFacts DEF BatchesAt, OwnedAt
<1>5. rq[s] \in Seq(Batches) /\ rq' = [rq EXCEPT ![s] = Append(rq[s], b)]
  BY <1>1, <1>4 DEF AddMw, AddLocal, Types
<1>6. Once(rq[s]) /\ b \notin Q(s) \cup free[s] \cup laundry[s] \cup {pend[s].batch}
  BY <1>1, <1>3, <1>4 DEF BatchesAt, OwnedAt, ApartAt
<1>7. /\ rq' \in [Scheds -> Seq(Batches)] /\ Once(rq'[s])
      /\ \A t \in Scheds : t # s => rq'[t] = rq[t]
      /\ Q(s)' = Q(s) \cup {b}
  <2>1. /\ Append(rq[s], b) \in Seq(Batches) /\ Once(Append(rq[s], b))
        /\ ToSet(Append(rq[s], b)) = ToSet(rq[s]) \cup {b}
    BY <1>5, <1>6, AppendOnce DEF Q
  <2> QED BY <1>1, <1>5, <2>1 DEF Types, Q
<1>8. PICK l \in HomeLabels : l = ret[s]
  BY <1>1 DEF Types
<1>9. /\ pc' \in [Scheds -> Labels] /\ pc'[s] = l
      /\ \A t \in Scheds : t # s => pc'[t] = pc[t]
  BY <1>1, <1>2, <1>8, GotoPc DEF Labels
<1>10. l \notin OwnLabels \cup AddLabels \cup ThiefLabels \cup LookLabels
          \cup {"migrate", "pull_clear", "add_state", "steal_load", "steal_mark", "mig_slot", "mig_bit"}
  BY DEF HomeLabels, OwnLabels, AddLabels, ThiefLabels, LookLabels
<1>11. /\ job' \in [Scheds -> Batches \cup {NoBatch}] /\ job'[s] = NoBatch
       /\ ret' \in [Scheds -> HomeLabels] /\ mwstate' \in [Scheds -> BOOLEAN]
       /\ \A t \in Scheds : t # s => job'[t] = job[t] /\ ret'[t] = ret[t] /\ mwstate'[t] = mwstate[t]
  BY <1>1 DEF AddMw, Types, HomeLabels
<1>12. Types'
  BY <1>1, <1>2, <1>7, <1>9, <1>11 DEF Types
<1>13. ControlAt(s)'
  <2>1. Home(s) = l /\ Home(s)' = l
    BY <1>3, <1>8, <1>9, <1>10 DEF Home
  <2>2. rqstate[s] /\ rqstate'[s]
    BY <1>1, <1>2, <1>3 DEF ControlAt
  <2> QED BY <1>1, <1>2, <1>9, <1>10, <1>11, <2>1, <2>2 DEF ControlAt
<1>14. OwnerOnly(s)
  BY <1>2, <1>7, <1>9, <1>10, <1>11 DEF OwnerOnly, SameAt
<1>15. \A c \in Batches : /\ ~(Adding(s, c)') /\ (InSlot(s, c)' <=> InSlot(s, c))
                          /\ Adding(s, c) => c = b
  BY <1>2, <1>4, <1>9, <1>10 DEF Adding, InSlot
<1>16. HeldKept(s)
  BY <1>2, <1>7, <1>15, HeldOfOwner DEF HeldKept
<1>17. BatchesAt(s)'
  <2>1. OwnedAt(s)'
    BY <1>1, <1>2, <1>4, <1>7, <1>9, <1>10 DEF BatchesAt, OwnedAt
  <2>2. ApartAt(s)'
    BY <1>1, <1>2, <1>6, <1>7, <1>9, <1>10 DEF BatchesAt, ApartAt
  <2>3. StockedAt(s)'
    BY <1>1, <1>2 DEF BatchesAt, StockedAt
  <2>4. LinedAt(s)'
    <3>1. bat[b].win # 0 /\ (InSlot(s, b) => Good(bat[b].procs))
      BY <1>1, <1>3, <1>4 DEF BatchesAt, LinedAt
    <3>2. Q(s) \subseteq Batches
      BY <1>1, OwnFacts DEF BatchesAt, OwnedAt
    <3> QED BY <1>1, <1>2, <1>7, <1>9, <1>10, <1>15, <3>1, <3>2 DEF BatchesAt, LinedAt
  <2>5. ShownAt(s)'
    BY <1>1, <1>2, <1>7, <1>15 DEF BatchesAt, ShownAt
  <2> QED BY <2>1, <2>2, <2>3, <2>4, <2>5 DEF BatchesAt
<1>18. FoundAt(s)'
  <2>1. \A u \in Scheds : pc[u] = "mig_slot" => pc'[u] = "mig_slot" /\ thief'[u] = thief[u]
    BY <1>2, <1>9
  <2> QED BY <1>1, <1>2, <2>1 DEF FoundAt
<1> QED BY <1>3, <1>12, <1>13, <1>14, <1>16, <1>17, <1>18, OwnerStep

-----------------------------------------------------------------------------
(***************************************************************************)
(* try_pull_from_runqueue.                                                 *)
(***************************************************************************)
(* Batches that are emptied. *)
LEMMA WashedBatches ==
  ASSUME Types, NEW W \in SUBSET Batches
  PROVE  /\ Washed(W) \in [Batches -> BatSet]
         /\ \A b \in W : Washed(W)[b] = CleanBatch
         /\ \A b \in Batches : b \notin W => Washed(W)[b] = bat[b]
<1>1. CleanBatch \in BatSet
  BY MigrateAssumption DEF CleanBatch, BatSet
<1> QED BY <1>1 DEF Types, Washed

(* The first batch of the run queue. *)
LEMMA FirstBatch ==
  ASSUME IInv, NEW s \in Scheds, rq[s] # << >>, rq' = [rq EXCEPT ![s] = Tail(@)]
  PROVE  /\ rq' \in [Scheds -> Seq(Batches)] /\ Once(rq'[s])
         /\ \A t \in Scheds : t # s => rq'[t] = rq[t]
         /\ Q(s)' = Q(s) \ {Head(rq[s])}
         /\ Head(rq[s]) \in Q(s) /\ Head(rq[s]) \in Own(s) /\ Head(rq[s]) \in Batches
<1>1. Types /\ BatchesAt(s)
  BY DEF IInv, Kept
<1>2. rq[s] \in Seq(Batches) /\ rq'[s] = Tail(rq[s]) /\ Once(rq[s])
  BY <1>1 DEF Types, BatchesAt, OwnedAt
<1>3. /\ Tail(rq[s]) \in Seq(Batches) /\ Once(Tail(rq[s])) /\ Head(rq[s]) \in ToSet(rq[s])
      /\ ToSet(Tail(rq[s])) = ToSet(rq[s]) \ {Head(rq[s])} /\ Head(rq[s]) \in Batches
  BY <1>2, TailOnce
<1>4. Head(rq[s]) \in Own(s)
  BY <1>1, <1>3 DEF BatchesAt, OwnedAt, Q
<1> QED BY <1>1, <1>2, <1>3, <1>4 DEF Types, Q

(* A batch of its own that nobody else has seen. *)
LEMMA PullOwnStep ==
  ASSUME IInv, NEW s \in Scheds, PullOwn(s)
  PROVE  IInv'
<1>1. Types /\ ControlAt(s) /\ BatchesAt(s) /\ FoundAt(s)
  BY DEF IInv, Control, Kept, Found
<1>2. PICK b : b = Head(rq[s])
  OBVIOUS
<1>3. /\ pc[s] \in {"sched", "pick"} /\ Goto(s, "user") /\ rq[s] # << >> /\ bat[b].win = 0
      /\ rq' = [rq EXCEPT ![s] = Tail(@)] /\ LoadCurb(s, b)
      /\ free' = [free EXCEPT ![s] = @ \cup {b}] /\ bat' = Washed({b})
      /\ UNCHANGED <<affinity, mail, pend, rqstate, laundry, job, ret, slot, head, bm, mwstate, thief>>
  BY <1>2 DEF PullOwn, Picks, AtTop, windowVars
<1>4. /\ rq' \in [Scheds -> Seq(Batches)] /\ Once(rq'[s])
      /\ \A t \in Scheds : t # s => rq'[t] = rq[t]
      /\ Q(s)' = Q(s) \ {b}
      /\ b \in Q(s) /\ b \in Own(s) /\ b \in Batches
  BY <1>2, <1>3, FirstBatch
<1>5. Good(bat[b].procs)
  BY <1>1, <1>3, <1>4 DEF BatchesAt, LinedAt, InSlot
<1>6. /\ cur' \in [Scheds -> Procs \cup {NotProcess}] /\ cur'[s] # NotProcess
      /\ curb' \in [Scheds -> CurbSet]
      /\ \A t \in Scheds : t # s => cur'[t] = cur[t] /\ curb'[t] = curb[t]
  BY <1>1, <1>3, <1>4, <1>5, LoadTypes
<1>7. /\ bat' \in [Batches -> BatSet] /\ bat'[b] = CleanBatch
      /\ \A c \in Batches : c # b => bat'[c] = bat[c]
  BY <1>1, <1>3, <1>4, WashedBatches
<1>8. /\ free' \in [Scheds -> SUBSET Batches] /\ free'[s] = free[s] \cup {b}
      /\ \A t \in Scheds : t # s => free'[t] = free[t]
  BY <1>1, <1>3, <1>4 DEF Types
<1>9. /\ pc' \in [Scheds -> Labels] /\ pc'[s] = "user"
      /\ \A t \in Scheds : t # s => pc'[t] = pc[t]
  BY <1>1, <1>3, GotoPc DEF Labels, HomeLabels
<1>10. Types'
  BY <1>1, <1>3, <1>4, <1>6, <1>7, <1>8, <1>9 DEF Types
<1>11. ControlAt(s)'
  BY <1>1, <1>3, <1>6, <1>9 DEF ControlAt, Home, AddLabels, OwnLabels, LookLabels, ThiefLabels
<1>12. /\ pc[s] \notin OwnLabels \cup AddLabels \cup {"mig_slot", "add_state", "pull_clear"}
       /\ pc'[s] \notin OwnLabels \cup AddLabels \cup ThiefLabels \cup {"add_state", "pull_clear"}
  BY <1>3, <1>9 DEF OwnLabels, AddLabels, ThiefLabels
<1>13. OwnerOnly(s)
  BY <1>3, <1>4, <1>6, <1>7, <1>8, <1>9, <1>12 DEF OwnerOnly, SameAt
<1>14. \A c \in Batches : /\ ~(Adding(s, c)') /\ ~Adding(s, c)
                          /\ c # b => (InSlot(s, c)' <=> InSlot(s, c))
  BY <1>3, <1>7, <1>12 DEF Adding, InSlot
<1>15. HeldKept(s)
  BY <1>3, <1>4, <1>7, <1>14, HeldOfOwner DEF HeldKept
<1>16. b \notin free[s] \cup laundry[s] /\ b # pend[s].batch /\ pend[s].batch \in Batches
       /\ free[s] \subseteq Batches /\ Q(s) \subseteq Batches
  BY <1>1, <1>4, OwnFacts DEF BatchesAt, ApartAt, OwnedAt
<1>17. BatchesAt(s)'
  <2>1. OwnedAt(s)' /\ ApartAt(s)'
    BY <1>1, <1>3, <1>4, <1>8, <1>12, <1>16 DEF BatchesAt, OwnedAt, ApartAt
  <2>2. StockedAt(s)'
    BY <1>1, <1>3, <1>7, <1>8, <1>16 DEF BatchesAt, StockedAt
  <2>3. LinedAt(s)'
    BY <1>1, <1>4, <1>7, <1>12, <1>14, <1>16 DEF BatchesAt, LinedAt
  <2>4. ShownAt(s)'
    <3>1. \A w \in Slots : slot[s][w] # b
      BY <1>1, <1>3, <1>4 DEF BatchesAt, ShownAt, Slots
    <3> SUFFICES ASSUME NEW k \in Slots, NEW c \in Batches, slot'[s][k] = c
                 PROVE  (c \in Q(s)') /\ bat'[c].win = k /\ bat'[c].dirty
      BY DEF ShownAt
    <3>2. slot[s][k] = c /\ c # b
      BY <1>3, <3>1
    <3>3. c \in Q(s) /\ bat[c].win = k /\ bat[c].dirty
      BY <1>1, <1>14, <3>2 DEF BatchesAt, ShownAt
    <3> QED BY <1>4, <1>7, <3>2, <3>3
  <2> QED BY <2>1, <2>2, <2>3, <2>4 DEF BatchesAt
<1>18. FoundAt(s)'
  <2>1. \A u \in Scheds : pc[u] = "mig_slot" => pc'[u] = "mig_slot" /\ thief'[u] = thief[u]
    BY <1>3, <1>9
  <2> QED BY <1>1, <1>3, <1>12, <2>1 DEF FoundAt
<1> QED BY <1>10, <1>11, <1>12, <1>13, <1>15, <1>17, <1>18, OwnerStep

(* A batch that is still in its slot is taken out of it. *)
LEMMA PullVisibleStep ==
  ASSUME IInv, NEW s \in Scheds, PullVisible(s)
  PROVE  IInv'
<1>1. Types /\ ControlAt(s) /\ BatchesAt(s) /\ FoundAt(s)
  BY DEF IInv, Control, Kept, Found
<1>2. PICK b : b = Head(rq[s])
  OBVIOUS
<1>3. PICK w : w = bat[b].win
  OBVIOUS
<1>4. /\ pc[s] \in {"sched", "pick"} /\ rq[s] # << >> /\ w # 0
      /\ pc[s] = "sched" => curb[s].procs = << >>
      /\ rq' = [rq EXCEPT ![s] = Tail(@)]
      /\ UNCHANGED <<cur, curb, affinity, mail, pend, rqstate, ret, bat, head, bm, mwstate, thief>>
  BY <1>2, <1>3 DEF PullVisible, Picks, AtTop, schedVars
<1>5. /\ rq' \in [Scheds -> Seq(Batches)] /\ Once(rq'[s])
      /\ \A t \in Scheds : t # s => rq'[t] = rq[t]
      /\ Q(s)' = Q(s) \ {b}
      /\ b \in Q(s) /\ b \in Own(s) /\ b \in Batches /\ b # NoBatch
  BY <1>2, <1>4, FirstBatch, OwnFacts
<1>6. w \in Slots
  <2>1. bat[b] \in BatSet
    BY <1>1, <1>5 DEF Types
  <2> QED BY <1>3, <1>4, <2>1, MigrateAssumption DEF BatSet, Slots
<1>7. /\ pc[s] \notin OwnLabels \cup AddLabels \cup {"mig_slot", "add_state", "pull_clear"}
      /\ \A c \in Batches : ~Adding(s, c)
  BY <1>4 DEF OwnLabels, AddLabels, Adding
<1>8. b \notin free[s] \cup laundry[s] /\ b # pend[s].batch /\ pend[s].batch \in Batches
      /\ free[s] \subseteq Batches /\ Q(s) \subseteq Batches
  BY <1>1, <1>5, OwnFacts DEF BatchesAt, ApartAt, OwnedAt
<1>9. CASE slot[s][w] = b
  <2>1. /\ slot' = [slot EXCEPT ![s][w] = NoBatch] /\ job' = [job EXCEPT ![s] = b]
        /\ Goto(s, "pull_clear") /\ UNCHANGED <<free, laundry>>
    BY <1>2, <1>3, <1>9 DEF PullVisible
  <2>2. /\ slot' \in [Scheds -> [Slots -> Batches \cup {NoBatch}]] /\ slot'[s][w] = NoBatch
        /\ \A t \in Scheds : t # s => slot'[t] = slot[t]
        /\ \A k \in Slots : k # w => slot'[s][k] = slot[s][k]
    BY <1>1, <1>6, <2>1 DEF Types
  <2>3. /\ job' \in [Scheds -> Batches \cup {NoBatch}] /\ job'[s] = b
        /\ \A t \in Scheds : t # s => job'[t] = job[t]
    BY <1>1, <1>5, <2>1 DEF Types
  <2>4. /\ pc' \in [Scheds -> Labels] /\ pc'[s] = "pull_clear"
        /\ \A t \in Scheds : t # s => pc'[t] = pc[t]
    BY <1>1, <2>1, GotoPc DEF Labels, OwnLabels
  <2>5. Types'
    BY <1>1, <1>4, <1>5, <2>1, <2>2, <2>3, <2>4 DEF Types
  <2>6. ControlAt(s)'
    BY <1>1, <1>4, <1>5, <2>3, <2>4 DEF ControlAt, Home, AddLabels, OwnLabels, LookLabels, ThiefLabels
  <2>7. pc'[s] \in OwnLabels /\ pc'[s] \notin AddLabels \cup ThiefLabels \cup {"add_state"}
    BY <2>4 DEF OwnLabels, AddLabels, ThiefLabels
  <2>8. OwnerOnly(s)
    BY <1>4, <1>5, <2>1, <2>2, <2>3, <2>4, <2>7 DEF OwnerOnly, SameAt
  <2>9. InSlot(s, b) /\ Good(bat[b].procs)
    BY <1>1, <1>3, <1>5, <1>9 DEF InSlot, BatchesAt, LinedAt
  <2>10. \A c \in Batches : /\ ~(Adding(s, c)')
                            /\ InSlot(s, c)' => InSlot(s, c)
    <3>1. \A c \in Batches : c # NoBatch /\ (bat[c].win # 0 => bat[c].win \in Slots)
      BY <1>1, OwnFacts, MigrateAssumption DEF Types, BatSet, Slots
    <3> QED BY <1>4, <2>2, <2>7, <3>1 DEF Adding, InSlot
  <2>11. HeldKept(s)
    BY <1>4, <1>5, <1>7, <2>1, <2>9, <2>10, HeldOfOwner DEF HeldKept
  <2>12. BatchesAt(s)'
    <3>1. OwnedAt(s)' /\ ApartAt(s)'
      BY <1>1, <1>4, <1>5, <1>8, <2>1, <2>3 DEF BatchesAt, OwnedAt, ApartAt
    <3>2. StockedAt(s)'
      BY <1>1, <1>4, <2>1 DEF BatchesAt, StockedAt
    <3>3. LinedAt(s)'
      BY <1>1, <1>3, <1>4, <1>5, <1>8, <2>2, <2>3, <2>7, <2>9, <2>10 DEF BatchesAt, LinedAt
    <3>4. ShownAt(s)'
      <4> SUFFICES ASSUME NEW k \in Slots, NEW c \in Batches, slot'[s][k] = c
                   PROVE  (c \in Q(s)') /\ bat'[c].win = k /\ bat'[c].dirty
        BY DEF ShownAt
      <4>1. slot[s][k] = c /\ k # w
        BY <2>2, OwnFacts
      <4>2. c \in Q(s) /\ bat[c].win = k /\ bat[c].dirty
        BY <1>1, <1>7, <4>1 DEF BatchesAt, ShownAt
      <4> QED BY <1>3, <1>4, <1>5, <4>1, <4>2
    <3> QED BY <3>1, <3>2, <3>3, <3>4 DEF BatchesAt
  <2>13. FoundAt(s)'
    <3>1. \A u \in Scheds : pc[u] = "mig_slot" => pc'[u] = "mig_slot" /\ thief'[u] = thief[u]
      BY <1>4, <1>7, <2>4
    <3> QED BY <1>1, <1>4, <1>7, <2>2, <3>1 DEF FoundAt
  <2> QED BY <1>7, <2>5, <2>6, <2>8, <2>11, <2>12, <2>13, OwnerStep
<1>10. CASE slot[s][w] # b
  <2>1. /\ laundry' = [laundry EXCEPT ![s] = @ \cup {b}] /\ UNCHANGED <<free, slot, job>>
        /\ Goto(s, "pick")
    BY <1>2, <1>3, <1>10 DEF PullVisible, ReleaseDirty
  <2>2. /\ laundry' \in [Scheds -> SUBSET Batches] /\ laundry'[s] = laundry[s] \cup {b}
        /\ \A t \in Scheds : t # s => laundry'[t] = laundry[t]
    BY <1>1, <1>5, <2>1 DEF Types
  <2>3. /\ pc' \in [Scheds -> Labels] /\ pc'[s] = "pick"
        /\ \A t \in Scheds : t # s => pc'[t] = pc[t]
    BY <1>1, <2>1, GotoPc DEF Labels, HomeLabels
  <2>4. Types'
    BY <1>1, <1>4, <1>5, <2>1, <2>2, <2>3 DEF Types
  <2>5. ControlAt(s)'
    BY <1>1, <1>4, <2>1, <2>3 DEF ControlAt, Home, AddLabels, OwnLabels, LookLabels, ThiefLabels
  <2>6. pc'[s] \notin OwnLabels \cup AddLabels \cup ThiefLabels \cup {"add_state", "pull_clear"}
    BY <2>3 DEF OwnLabels, AddLabels, ThiefLabels
  <2>7. OwnerOnly(s)
    BY <1>4, <1>5, <2>1, <2>2, <2>3, <2>6 DEF OwnerOnly, SameAt
  <2>8. \A c \in Batches : ~(Adding(s, c)') /\ (InSlot(s, c)' <=> InSlot(s, c))
    BY <1>4, <2>1, <2>6 DEF Adding, InSlot
  <2>9. HeldKept(s)
    BY <1>4, <1>5, <1>7, <2>2, <2>8, HeldOfOwner DEF HeldKept
  <2>10. \A k \in Slots : slot[s][k] # b
    BY <1>1, <1>3, <1>5, <1>10 DEF BatchesAt, ShownAt
  <2>11. BatchesAt(s)'
    <3>1. OwnedAt(s)' /\ ApartAt(s)'
      BY <1>1, <1>4, <1>5, <1>8, <2>1, <2>2, <2>6 DEF BatchesAt, OwnedAt, ApartAt
    <3>2. StockedAt(s)'
      BY <1>1, <1>4, <2>1 DEF BatchesAt, StockedAt
    <3>3. LinedAt(s)'
      BY <1>1, <1>4, <1>5, <1>8, <2>1, <2>6, <2>8 DEF BatchesAt, LinedAt
    <3>4. ShownAt(s)'
      BY <1>1, <1>4, <1>5, <1>7, <2>1, <2>8, <2>10 DEF BatchesAt, ShownAt
    <3> QED BY <3>1, <3>2, <3>3, <3>4 DEF BatchesAt
  <2>12. FoundAt(s)'
    <3>1. \A u \in Scheds : pc[u] = "mig_slot" => pc'[u] = "mig_slot" /\ thief'[u] = thief[u]
      BY <1>4, <1>7, <2>3
    <3> QED BY <1>1, <1>4, <1>7, <2>1, <3>1 DEF FoundAt
  <2> QED BY <1>7, <2>4, <2>5, <2>7, <2>9, <2>11, <2>12, OwnerStep
<1> QED BY <1>9, <1>10

(* The bit of the slot is cleared and the batch is loaded. *)
LEMMA PullClearStep ==
  ASSUME IInv, NEW s \in Scheds, PullClear(s)
  PROVE  IInv'
<1>1. Types /\ ControlAt(s) /\ BatchesAt(s) /\ FoundAt(s)
  BY DEF IInv, Control, Kept, Found
<1>2. pc[s] = "pull_clear" /\ pc[s] \in OwnLabels /\ pc[s] \notin AddLabels
  BY DEF PullClear, OwnLabels, AddLabels
<1>3. PICK b \in Batches : b = job[s] /\ b \in Own(s)
  BY <1>1, <1>2, OwnFacts DEF BatchesAt, OwnedAt
<1>4. PICK w \in Slots : w = bat[b].win
  <2>1. bat[b].win # 0 /\ bat[b] \in BatSet
    BY <1>1, <1>2, <1>3 DEF BatchesAt, LinedAt, Types
  <2> QED BY <2>1, MigrateAssumption DEF BatSet, Slots
<1>5. /\ Goto(s, "user") /\ LoadCurb(s, b) /\ bm' = [bm EXCEPT ![s] = @ \ {w}]
      /\ free' = [free EXCEPT ![s] = @ \cup {b}] /\ bat' = Washed({b})
      /\ job' = [job EXCEPT ![s] = NoBatch]
      /\ UNCHANGED <<affinity, mail, pend, rq, rqstate, laundry, ret, slot, head, mwstate, thief>>
  BY <1>3, <1>4 DEF PullClear
<1>6. /\ Good(bat[b].procs) /\ slot[s][w] = NoBatch
      /\ b \notin Q(s) \cup free[s] \cup laundry[s] \cup {pend[s].batch}
  BY <1>1, <1>2, <1>3, <1>4 DEF BatchesAt, LinedAt, ApartAt
<1>7. /\ cur' \in [Scheds -> Procs \cup {NotProcess}] /\ cur'[s] # NotProcess
      /\ curb' \in [Scheds -> CurbSet]
      /\ \A t \in Scheds : t # s => cur'[t] = cur[t] /\ curb'[t] = curb[t]
  BY <1>1, <1>5, <1>6, LoadTypes
<1>8. /\ bat' \in [Batches -> BatSet] /\ bat'[b] = CleanBatch
      /\ \A c \in Batches : c # b => bat'[c] = bat[c]
  BY <1>1, <1>5, WashedBatches
<1>9. /\ free' \in [Scheds -> SUBSET Batches] /\ free'[s] = free[s] \cup {b}
      /\ \A t \in Scheds : t # s => free'[t] = free[t]
      /\ bm' \in [Scheds -> SUBSET Slots] /\ bm'[s] = bm[s] \ {w}
      /\ \A t \in Scheds : t # s => bm'[t] = bm[t]
      /\ job' \in [Scheds -> Batches \cup {NoBatch}] /\ job'[s] = NoBatch
      /\ \A t \in Scheds : t # s => job'[t] = job[t]
  BY <1>1, <1>5 DEF Types
<1>10. /\ pc' \in [Scheds -> Labels] /\ pc'[s] = "user"
       /\ \A t \in Scheds : t # s => pc'[t] = pc[t]
  BY <1>1, <1>5, GotoPc DEF Labels, HomeLabels
<1>11. Types'
  BY <1>1, <1>5, <1>7, <1>8, <1>9, <1>10 DEF Types
<1>12. ControlAt(s)'
  BY <1>1, <1>5, <1>7, <1>9, <1>10 DEF ControlAt, Home, AddLabels, OwnLabels, LookLabels, ThiefLabels
<1>13. pc'[s] \notin OwnLabels \cup AddLabels \cup ThiefLabels \cup {"add_state", "pull_clear"}
  BY <1>10 DEF OwnLabels, AddLabels, ThiefLabels
<1>14. OwnerOnly(s)
  BY <1>3, <1>5, <1>7, <1>8, <1>9, <1>10, <1>13 DEF OwnerOnly, SameAt
<1>15. Q(s)' = Q(s) /\ Q(s) \subseteq Batches /\ free[s] \subseteq Batches /\ pend[s].batch \in Batches
  BY <1>1, <1>5, OwnFacts DEF Q, BatchesAt, OwnedAt
<1>16. \A c \in Batches : /\ ~(Adding(s, c)') /\ ~Adding(s, c)
                          /\ c # b => (InSlot(s, c)' <=> InSlot(s, c))
  BY <1>2, <1>5, <1>8, <1>13 DEF Adding, InSlot
<1>17. HeldKept(s)
  BY <1>2, <1>3, <1>5, <1>8, <1>15, <1>16, HeldOfOwner DEF HeldKept
<1>18. BatchesAt(s)'
  <2>1. OwnedAt(s)' /\ ApartAt(s)'
    BY <1>1, <1>3, <1>5, <1>6, <1>9, <1>13, <1>15 DEF BatchesAt, OwnedAt, ApartAt
  <2>2. StockedAt(s)'
    <3>1. /\ StockedAt(s) /\ pend'[s] = pend[s] /\ bat'[pend[s].batch] = bat[pend[s].batch]
          /\ b \notin free[s]
      BY <1>1, <1>5, <1>6, <1>8, <1>15 DEF BatchesAt
    <3>2. \A c \in free'[s] : bat'[c] = CleanBatch
      BY <1>8, <1>9, <1>15, <3>1 DEF StockedAt
    <3> QED BY <3>1, <3>2 DEF StockedAt
  <2>3. LinedAt(s)'
    BY <1>1, <1>6, <1>8, <1>13, <1>15, <1>16 DEF BatchesAt, LinedAt
  <2>4. ShownAt(s)'
    <3> SUFFICES ASSUME NEW k \in Slots, NEW c \in Batches, slot'[s][k] = c
                 PROVE  (c \in Q(s)') /\ bat'[c].win = k /\ bat'[c].dirty
      BY DEF ShownAt
    <3>1. c \in Q(s) /\ bat[c].win = k /\ bat[c].dirty
      BY <1>1, <1>5, <1>16 DEF BatchesAt, ShownAt
    <3> QED BY <1>6, <1>8, <1>15, <3>1
  <2> QED BY <2>1, <2>2, <2>3, <2>4 DEF BatchesAt
<1>19. FoundAt(s)'
  <2>1. \A u \in Scheds : pc[u] = "mig_slot" => pc'[u] = "mig_slot" /\ thief'[u] = thief[u]
    BY <1>2, <1>5, <1>10
  <2>2. pc[s] # "add_state"
    BY <1>2
  <2> QED BY <1>1, <1>5, <1>6, <1>9, <2>1, <2>2 DEF FoundAt
<1>20. pc[s] # "mig_slot"
  BY <1>2
<1> QED BY <1>11, <1>12, <1>14, <1>17, <1>18, <1>19, <1>20, OwnerStep

(* What the laundry has to offer. *)
LEMMA CleanFacts ==
  ASSUME IInv, NEW s \in Scheds, NEW W, W \in {CleanIn(s), ToWash(s), {}}
  PROVE  /\ W \subseteq laundry[s] /\ W \subseteq Own(s) /\ W \subseteq Batches
         /\ W \cap (Q(s) \cup free[s] \cup {pend[s].batch}) = {}
         /\ pc[s] \in OwnLabels => job[s] \notin W
         /\ \A t \in Scheds, b \in W : ~Holds(t, b)
         /\ \A w \in Slots : slot[s][w] \notin W
<1>1. BatchesAt(s)
  BY DEF IInv, Kept
<1>2. W \subseteq laundry[s] /\ \A b \in W : ~bat[b].dirty
  BY DEF CleanIn, ToWash
<1>3. W \subseteq Own(s) /\ W \subseteq Batches
  BY <1>1, <1>2, OwnFacts DEF BatchesAt, OwnedAt
<1>4. /\ W \cap (Q(s) \cup free[s] \cup {pend[s].batch}) = {}
      /\ pc[s] \in OwnLabels => job[s] \notin W
  BY <1>1, <1>2 DEF BatchesAt, ApartAt
<1>5. \A t \in Scheds, b \in W : ~Holds(t, b)
  BY <1>2, <1>3, HeldOfOwner
<1>6. \A w \in Slots : slot[s][w] \notin W
  BY <1>1, <1>2, <1>3 DEF BatchesAt, ShownAt
<1> QED BY <1>2, <1>3, <1>4, <1>5, <1>6

(* No work anywhere. *)
LEMMA NoWorkAnywhereStep ==
  ASSUME IInv, NEW s \in Scheds, NoWorkAnywhere(s)
  PROVE  IInv'
<1>1. Types /\ ControlAt(s) /\ BatchesAt(s) /\ FoundAt(s)
  BY DEF IInv, Control, Kept, Found
<1>2. /\ pc[s] = "migrate" /\ Goto(s, "sched")
      /\ curb' = [curb EXCEPT ![s] = [NoCurb EXCEPT !.aff = curb[s].aff]]
      /\ thief' = [thief EXCEPT ![s] = NoThief(s)]
      /\ UNCHANGED <<cur, affinity, mail, pend, rq, rqstate, job, ret, slot, head, bm, mwstate>>
  BY DEF NoWorkAnywhere, windowVars
<1>3. PICK W \in {CleanIn(s), {}} :
        /\ free' = [free EXCEPT ![s] = @ \cup W]
        /\ laundry' = [laundry EXCEPT ![s] = @ \ W]
        /\ bat' = Washed(W)
  <2>1. CASE DoLaundry(s)
    BY <2>1 DEF DoLaundry
  <2>2. CASE UNCHANGED <<free, laundry, bat>>
    <3>1. free = [free EXCEPT ![s] = @ \cup {}] /\ laundry = [laundry EXCEPT ![s] = @ \ {}]
      BY <1>1 DEF Types
    <3>2. bat = Washed({})
      BY <1>1 DEF Types, Washed
    <3> QED BY <2>2, <3>1, <3>2
  <2> QED BY <2>1, <2>2 DEF NoWorkAnywhere
<1>4. /\ W \subseteq laundry[s] /\ W \subseteq Own(s) /\ W \subseteq Batches
      /\ W \cap (Q(s) \cup free[s] \cup {pend[s].batch}) = {}
      /\ \A t \in Scheds, b \in W : ~Holds(t, b)
      /\ \A w \in Slots : slot[s][w] \notin W
  BY <1>3, CleanFacts
<1>5. /\ bat' \in [Batches -> BatSet] /\ \A c \in W : bat'[c] = CleanBatch
      /\ \A c \in Batches : c \notin W => bat'[c] = bat[c]
  BY <1>1, <1>3, <1>4, WashedBatches
<1>6. /\ free' \in [Scheds -> SUBSET Batches] /\ free'[s] = free[s] \cup W
      /\ \A t \in Scheds : t # s => free'[t] = free[t]
      /\ laundry' \in [Scheds -> SUBSET Batches] /\ laundry'[s] = laundry[s] \ W
      /\ \A t \in Scheds : t # s => laundry'[t] = laundry[t]
  BY <1>1, <1>3, <1>4 DEF Types
<1>7. /\ curb' \in [Scheds -> CurbSet] /\ curb'[s].procs = << >>
      /\ \A t \in Scheds : t # s => curb'[t] = curb[t]
      /\ thief' \in [Scheds -> ThiefSet]
      /\ \A t \in Scheds : t # s => thief'[t] = thief[t]
  <2>1. curb[s] \in CurbSet
    BY <1>1 DEF Types
  <2>2. [NoCurb EXCEPT !.aff = curb[s].aff] \in CurbSet /\ [NoCurb EXCEPT !.aff = curb[s].aff].procs = << >>
    <3>1. << >> \in Seq(Procs) /\ Ppd \in Int /\ {} \in SUBSET Scheds
      BY MigrateAssumption
    <3>2. curb[s].aff \in SUBSET Scheds
      BY <2>1 DEF CurbSet
    <3> QED BY <3>1, <3>2 DEF CurbSet, NoCurb
  <2>3. NoThief(s) \in ThiefSet
    BY MigrateAssumption DEF NoThief, ThiefSet
  <2> QED BY <1>1, <1>2, <2>2, <2>3 DEF Types
<1>8. /\ pc' \in [Scheds -> Labels] /\ pc'[s] = "sched"
      /\ \A t \in Scheds : t # s => pc'[t] = pc[t]
  BY <1>1, <1>2, GotoPc DEF Labels, HomeLabels
<1>9. Types'
  BY <1>1, <1>2, <1>5, <1>6, <1>7, <1>8 DEF Types
<1>10. ControlAt(s)'
  BY <1>1, <1>2, <1>7, <1>8 DEF ControlAt, Home, AddLabels, OwnLabels, LookLabels, ThiefLabels
<1>11. /\ pc'[s] \notin OwnLabels \cup AddLabels \cup ThiefLabels \cup {"add_state", "pull_clear"}
       /\ pc[s] \notin OwnLabels \cup AddLabels \cup {"add_state", "pull_clear", "mig_slot"}
  BY <1>2, <1>8 DEF OwnLabels, AddLabels, ThiefLabels
<1>12. OwnerOnly(s)
  BY <1>2, <1>4, <1>5, <1>6, <1>7, <1>8, <1>11 DEF OwnerOnly, SameAt
<1>13. Q(s)' = Q(s) /\ Q(s) \subseteq Batches /\ free[s] \subseteq Batches /\ pend[s].batch \in Batches
  BY <1>1, <1>2, OwnFacts DEF Q, BatchesAt, OwnedAt
<1>14. \A c \in Batches : /\ ~(Adding(s, c)') /\ ~Adding(s, c)
                          /\ c \notin W => (InSlot(s, c)' <=> InSlot(s, c))
  BY <1>2, <1>5, <1>11 DEF Adding, InSlot
<1>15. HeldKept(s)
  <2> SUFFICES ASSUME NEW t \in Scheds, NEW b \in Batches, Holds(t, b), b \in Own(s)
               PROVE  /\ bat'[b] = bat[b] /\ ~(InSlot(s, b)')
                      /\ b \in Q(s)' \cup laundry'[s]
    BY DEF HeldKept
  <2>1. b \notin W
    BY <1>4
  <2>2. ~InSlot(s, b) /\ b \in Q(s) \cup laundry[s]
    BY <1>14, HeldOfOwner
  <2> QED BY <1>5, <1>6, <1>13, <1>14, <2>1, <2>2
<1>16. BatchesAt(s)'
  <2>1. OwnedAt(s)' /\ ApartAt(s)'
    BY <1>1, <1>2, <1>4, <1>6, <1>11, <1>13 DEF BatchesAt, OwnedAt, ApartAt
  <2>2. StockedAt(s)'
    BY <1>1, <1>2, <1>4, <1>5, <1>6, <1>13 DEF BatchesAt, StockedAt
  <2>3. LinedAt(s)'
    BY <1>1, <1>4, <1>5, <1>11, <1>13, <1>14 DEF BatchesAt, LinedAt
  <2>4. ShownAt(s)'
    <3> SUFFICES ASSUME NEW k \in Slots, NEW c \in Batches, slot'[s][k] = c
                 PROVE  (c \in Q(s)') /\ bat'[c].win = k /\ bat'[c].dirty
      BY DEF ShownAt
    <3>1. c \in Q(s) /\ bat[c].win = k /\ bat[c].dirty
      BY <1>1, <1>2, <1>14 DEF BatchesAt, ShownAt
    <3> QED BY <1>4, <1>5, <1>13, <3>1
  <2> QED BY <2>1, <2>2, <2>3, <2>4 DEF BatchesAt
<1>17. FoundAt(s)'
  <2>1. \A u \in Scheds : pc[u] = "mig_slot" => pc'[u] = "mig_slot" /\ thief'[u] = thief[u]
    BY <1>2, <1>7, <1>8
  <2> QED BY <1>1, <1>2, <1>11, <2>1 DEF FoundAt
<1> QED BY <1>9, <1>10, <1>11, <1>12, <1>15, <1>16, <1>17, OwnerStep

-----------------------------------------------------------------------------
(***************************************************************************)
(* A new pending batch.                                                    *)
(***************************************************************************)
(* What is allocated is nobody else's. *)
LEMMA StockFacts ==
  ASSUME IInv, NEW s \in Scheds, Stock(s) # {}, NEW b, b = Allocated(s)
  PROVE  /\ b \in Stock(s) /\ b \in Own(s) /\ b \in Batches /\ Stock(s) \subseteq Own(s)
         /\ Stock(s) \cap (Q(s) \cup {pend[s].batch} \cup (laundry[s] \ ToWash(s))) = {}
         /\ pc[s] \in OwnLabels => job[s] \notin Stock(s)
         /\ \A t \in Scheds, c \in Stock(s) : ~Holds(t, c)
         /\ \A w \in Slots : slot[s][w] \notin Stock(s)
         /\ \A c \in Stock(s) : Washed(ToWash(s))[c] = CleanBatch
<1>1. Types /\ BatchesAt(s)
  BY DEF IInv, Kept
<1>2. /\ ToWash(s) \subseteq laundry[s] /\ ToWash(s) \subseteq Own(s) /\ ToWash(s) \subseteq Batches
      /\ ToWash(s) \cap (Q(s) \cup free[s] \cup {pend[s].batch}) = {}
      /\ pc[s] \in OwnLabels => job[s] \notin ToWash(s)
      /\ \A t \in Scheds, c \in ToWash(s) : ~Holds(t, c)
      /\ \A w \in Slots : slot[s][w] \notin ToWash(s)
  BY CleanFacts
<1>3. /\ free[s] \subseteq Own(s) /\ free[s] \subseteq Batches
      /\ free[s] \cap (Q(s) \cup laundry[s] \cup {pend[s].batch}) = {}
      /\ pc[s] \in OwnLabels => job[s] \notin free[s]
      /\ \A c \in free[s] : bat[c] = CleanBatch
  BY <1>1, OwnFacts DEF BatchesAt, OwnedAt, ApartAt, StockedAt
<1>4. \A t \in Scheds, c \in free[s] : ~Holds(t, c)
  BY <1>3, HeldOfOwner
<1>5. \A w \in Slots : slot[s][w] \notin free[s]
  BY <1>1, <1>3 DEF BatchesAt, ShownAt, CleanBatch
<1>6. b \in Stock(s)
  BY <1>2, <1>3, AllocatedStock DEF Stock
<1>7. \A c \in Stock(s) : Washed(ToWash(s))[c] = CleanBatch
  BY <1>1, <1>2, <1>3, WashedBatches DEF Stock
<1> QED BY <1>2, <1>3, <1>4, <1>5, <1>6, <1>7 DEF Stock

(* Where the processes go when s goes to `from' next. *)
Lands(s, from) ==
  /\ cur' \in [Scheds -> Procs \cup {NotProcess}] /\ curb' \in [Scheds -> CurbSet]
  /\ affinity' \in [Procs -> SUBSET Scheds] /\ mail' \in [Scheds -> SUBSET Procs]
  /\ \A t \in Scheds : t # s => cur'[t] = cur[t] /\ curb'[t] = curb[t]
  /\ from \in HomeLabels
  /\ cur'[s] # NotProcess <=> from = "user"
  /\ from = "save" => curb'[s].procs # << >>
  /\ from = "pick" => curb'[s].procs = << >>
  /\ UNCHANGED <<head, bm, mwstate, thief>>

(* The old pending batch was not in use, or has been loaded, and is free   *)
(* again.                                                                  *)
SwapPending(s, procs, on, a) ==
  LET b == Allocated(s) IN
  /\ Stock(s) # {}
  /\ pend' = [pend EXCEPT ![s] = [batch |-> b, on |-> on, aff |-> a]]
  /\ free' = [free EXCEPT ![s] = (Stock(s) \ {b}) \cup {pend[s].batch}]
  /\ laundry' = [laundry EXCEPT ![s] = @ \ ToWash(s)]
  /\ bat' = [Washed(ToWash(s) \cup {pend[s].batch}) EXCEPT ![b].procs = procs]
  /\ UNCHANGED <<rq, slot, job, ret>>

(* A clean batch is given processes. *)
LEMMA BatUpdate ==
  ASSUME NEW f \in [Batches -> BatSet], NEW b \in Batches, NEW procs \in Seq(Procs),
         f[b] = CleanBatch, NEW g, g = [f EXCEPT ![b].procs = procs]
  PROVE  /\ g \in [Batches -> BatSet]
         /\ g[b] = [procs |-> procs, dirty |-> FALSE, win |-> 0]
         /\ \A c \in Batches : c # b => g[c] = f[c]
<1>1. g = [f EXCEPT ![b] = [f[b] EXCEPT !.procs = procs]]
  OBVIOUS
<1>2. procs \in Seq(Procs \cup {NotProcess}) /\ f[b] \in BatSet
  OBVIOUS
<1>3. /\ [f[b] EXCEPT !.procs = procs] \in BatSet
      /\ [f[b] EXCEPT !.procs = procs] = [procs |-> procs, dirty |-> f[b].dirty, win |-> f[b].win]
  BY <1>2 DEF BatSet
<1>4. f[b].dirty = FALSE /\ f[b].win = 0
  BY DEF CleanBatch
<1> QED BY <1>1, <1>3, <1>4

(* The pending batch is exchanged for a new one. *)
LEMMA SwapStep ==
  ASSUME IInv, NEW s \in Scheds, NEW procs \in Seq(Procs), NEW on \in BOOLEAN, NEW a \in SUBSET Scheds,
         NEW from, SwapPending(s, procs, on, a), Lands(s, from), Goto(s, from),
         pc[s] \in HomeLabels, rqstate' \in [Scheds -> BOOLEAN], rqstate'[s],
         \A t \in Scheds : t # s => rqstate'[t] = rqstate[t],
         on => procs # << >>, ~on => procs = << >> /\ a = {}
  PROVE  IInv'
<1>1. Types /\ ControlAt(s) /\ BatchesAt(s) /\ FoundAt(s)
  BY DEF IInv, Control, Kept, Found
<1>2. PICK b : b = Allocated(s)
  OBVIOUS
<1>3. PICK old \in Batches : old = pend[s].batch /\ old \in Own(s)
  BY <1>1, OwnFacts DEF BatchesAt, OwnedAt
<1>4. PICK W \in SUBSET Batches : W = ToWash(s)
  BY CleanFacts
<1>5. PICK S : S = Stock(s)
  OBVIOUS
<1>6. /\ pend' = [pend EXCEPT ![s] = [batch |-> b, on |-> on, aff |-> a]]
      /\ free' = [free EXCEPT ![s] = (S \ {b}) \cup {old}]
      /\ laundry' = [laundry EXCEPT ![s] = @ \ W]
      /\ bat' = [Washed(W \cup {old}) EXCEPT ![b].procs = procs]
      /\ UNCHANGED <<rq, slot, job, ret, head, bm, mwstate, thief>>
  BY <1>2, <1>3, <1>4, <1>5 DEF SwapPending, Lands
<1>7. /\ b \in S /\ b \in Own(s) /\ b \in Batches /\ S \subseteq Own(s) /\ S \subseteq Batches
      /\ S \cap (Q(s) \cup {old} \cup (laundry[s] \ W)) = {}
      /\ \A t \in Scheds, c \in S : ~Holds(t, c)
      /\ \A w \in Slots : slot[s][w] \notin S
      /\ free[s] \subseteq S /\ W \subseteq S /\ S = free[s] \cup W
  <2>1. Stock(s) # {}
    BY DEF SwapPending
  <2> QED BY <1>2, <1>3, <1>4, <1>5, <2>1, StockFacts, OwnFacts DEF Stock
<1>8. /\ bat' \in [Batches -> BatSet] /\ bat'[old] = CleanBatch
      /\ bat'[b] = [procs |-> procs, dirty |-> FALSE, win |-> 0]
      /\ \A c \in Batches : c \in S \ {b} => bat'[c] = CleanBatch
      /\ \A c \in Batches : c \notin S \cup {old} => bat'[c] = bat[c]
  <2>1. W \cup {old} \in SUBSET Batches
    OBVIOUS
  <2>2. /\ Washed(W \cup {old}) \in [Batches -> BatSet]
        /\ \A c \in W \cup {old} : Washed(W \cup {old})[c] = CleanBatch
        /\ \A c \in Batches : c \notin W \cup {old} => Washed(W \cup {old})[c] = bat[c]
    BY <1>1, <2>1, WashedBatches
  <2>3. \A c \in free[s] : bat[c] = CleanBatch
    BY <1>1 DEF BatchesAt, StockedAt
  <2>4. b # old
    BY <1>7, Zenon
  <2>5. Washed(W \cup {old})[b] = CleanBatch
    <3>1. CASE b \in W
      BY <2>2, <3>1
    <3>2. CASE b \notin W
      <4>1. b \in free[s] /\ b \notin W \cup {old} /\ b \in Batches
        BY <1>7, <2>4, <3>2
      <4>2. bat[b] = CleanBatch
        BY <2>3, <4>1
      <4> QED BY <2>2, <4>1, <4>2, Zenon
    <3> QED BY <3>1, <3>2
  <2>6. PICK f : f = Washed(W \cup {old})
    OBVIOUS
  <2>7. f \in [Batches -> BatSet] /\ f[b] = CleanBatch /\ bat' = [f EXCEPT ![b].procs = procs]
    BY <1>6, <2>2, <2>5, <2>6
  <2>11. /\ bat' \in [Batches -> BatSet]
         /\ bat'[b] = [procs |-> procs, dirty |-> FALSE, win |-> 0]
         /\ \A c \in Batches : c # b => bat'[c] = f[c]
    <3>1. b \in Batches
      BY <1>7
    <3> QED BY <2>7, <3>1, BatUpdate
  <2>12. /\ old \in Batches /\ f[old] = CleanBatch /\ old \notin S
         /\ \A c \in W : f[c] = CleanBatch
         /\ \A c \in Batches : c \notin W \cup {old} => f[c] = bat[c]
    <3>1. old \notin S
      BY <1>7, Zenon
    <3> QED BY <1>4, <2>1, <2>2, <2>6, <3>1
  <2>13. \A c \in S \ {b} : f[c] = CleanBatch
    BY <1>7, <2>3, <2>12
  <2> QED BY <1>7, <2>4, <2>11, <2>12, <2>13
<1>9. /\ pend' \in [Scheds -> PendSet] /\ pend'[s].batch = b /\ pend'[s].on = on /\ pend'[s].aff = a
      /\ \A t \in Scheds : t # s => pend'[t] = pend[t]
  <2>1. [batch |-> b, on |-> on, aff |-> a] \in PendSet
    BY <1>7 DEF PendSet
  <2>2. pend \in [Scheds -> PendSet]
    BY <1>1 DEF Types
  <2>3. pend'[s] = [batch |-> b, on |-> on, aff |-> a]
    BY <1>6, <2>2
  <2>4. pend' \in [Scheds -> PendSet] /\ \A t \in Scheds : t # s => pend'[t] = pend[t]
    BY <1>6, <2>1, <2>2
  <2> QED BY <2>3, <2>4
<1>10. /\ free' \in [Scheds -> SUBSET Batches] /\ free'[s] = (S \ {b}) \cup {old}
       /\ \A t \in Scheds : t # s => free'[t] = free[t]
       /\ laundry' \in [Scheds -> SUBSET Batches] /\ laundry'[s] = laundry[s] \ W
       /\ \A t \in Scheds : t # s => laundry'[t] = laundry[t]
  BY <1>1, <1>6, <1>7 DEF Types
<1>11. /\ pc' \in [Scheds -> Labels] /\ pc'[s] = from
       /\ \A t \in Scheds : t # s => pc'[t] = pc[t]
  BY <1>1, GotoPc DEF Labels, Lands
<1>12. Types'
  <2>1. /\ cur' \in [Scheds -> Procs \cup {NotProcess}] /\ curb' \in [Scheds -> CurbSet]
        /\ affinity' \in [Procs -> SUBSET Scheds] /\ mail' \in [Scheds -> SUBSET Procs]
    BY DEF Lands
  <2> QED BY <1>1, <1>6, <1>8, <1>9, <1>10, <1>11, <2>1 DEF Types
<1>13. /\ from \notin OwnLabels \cup AddLabels \cup ThiefLabels \cup LookLabels
                      \cup {"migrate", "add_state", "pull_clear", "mig_bit", "mig_slot", "steal_load", "steal_mark"}
       /\ pc[s] \notin OwnLabels \cup AddLabels \cup ThiefLabels \cup {"add_state", "pull_clear", "mig_slot"}
       /\ from \notin {"sched", "user", "save"} => from = "pick"
  BY DEF Lands, OwnLabels, AddLabels, ThiefLabels, LookLabels, HomeLabels
<1>14. ControlAt(s)'
  <2>1. Home(s)' = from /\ job[s] = NoBatch
    BY <1>1, <1>11, <1>13 DEF Home, ControlAt
  <2>2. /\ cur'[s] # NotProcess <=> from = "user"
        /\ from = "save" => curb'[s].procs # << >>
        /\ from = "pick" => curb'[s].procs = << >>
    BY DEF Lands
  <2> QED BY <1>6, <1>11, <1>13, <2>1, <2>2 DEF ControlAt
<1>15. OwnerOnly(s)
  <2>1. \A t \in Scheds : t # s => cur'[t] = cur[t] /\ curb'[t] = curb[t]
    BY DEF Lands
  <2>2. \A t \in Scheds : t # s => SameAt(t)
    BY <1>6, <1>9, <1>10, <1>11, <2>1 DEF SameAt
  <2>3. \A c \in Batches : c \notin Own(s) => bat'[c] = bat[c]
    BY <1>3, <1>7, <1>8
  <2> QED BY <1>11, <1>13, <2>2, <2>3 DEF OwnerOnly
<1>16. Q(s)' = Q(s) /\ Q(s) \subseteq Batches /\ Q(s) \cap (S \cup {old}) = {} /\ old \notin laundry[s]
  BY <1>1, <1>3, <1>6, <1>7, OwnFacts DEF Q, BatchesAt, OwnedAt, ApartAt
<1>17. \A c \in Batches : /\ ~(Adding(s, c)') /\ ~Adding(s, c)
                          /\ c \notin S \cup {old} => (InSlot(s, c)' <=> InSlot(s, c))
  BY <1>6, <1>8, <1>11, <1>13 DEF Adding, InSlot
<1>18. HeldKept(s)
  <2> SUFFICES ASSUME NEW t \in Scheds, NEW c \in Batches, Holds(t, c), c \in Own(s)
               PROVE  /\ bat'[c] = bat[c] /\ ~(InSlot(s, c)')
                      /\ c \in Q(s)' \cup laundry'[s]
    BY DEF HeldKept
  <2>1. ~InSlot(s, c) /\ c \in Q(s) \cup laundry[s] /\ c # old /\ c \notin S
    BY <1>3, <1>7, <1>17, HeldOfOwner
  <2> QED BY <1>7, <1>8, <1>10, <1>16, <1>17, <2>1
<1>19. BatchesAt(s)'
  <2>1. OwnedAt(s)'
    BY <1>1, <1>3, <1>6, <1>7, <1>9, <1>10, <1>11, <1>13, <1>16 DEF BatchesAt, OwnedAt
  <2>2. ApartAt(s)'
    BY <1>1, <1>3, <1>7, <1>9, <1>10, <1>11, <1>13, <1>16 DEF BatchesAt, ApartAt
  <2>3. StockedAt(s)'
    <3>1. \A c \in free'[s] : bat'[c] = CleanBatch
      BY <1>7, <1>8, <1>10
    <3>2. ~on => bat'[b] = CleanBatch
      BY <1>8 DEF CleanBatch
    <3>3. on => Good(bat'[b].procs)
      BY <1>8 DEF Good
    <3>4. bat'[b].win = 0 /\ ~bat'[b].dirty
      BY <1>8
    <3> QED BY <1>9, <3>1, <3>2, <3>3, <3>4 DEF StockedAt
  <2>4. LinedAt(s)'
    BY <1>1, <1>8, <1>11, <1>13, <1>16, <1>17 DEF BatchesAt, LinedAt
  <2>5. ShownAt(s)'
    <3> SUFFICES ASSUME NEW k \in Slots, NEW c \in Batches, slot'[s][k] = c
                 PROVE  (c \in Q(s)') /\ bat'[c].win = k /\ bat'[c].dirty
      BY DEF ShownAt
    <3>1. c \in Q(s) /\ bat[c].win = k /\ bat[c].dirty
      BY <1>1, <1>6, <1>17 DEF BatchesAt, ShownAt
    <3> QED BY <1>8, <1>16, <3>1
  <2> QED BY <2>1, <2>2, <2>3, <2>4, <2>5 DEF BatchesAt
<1>20. FoundAt(s)'
  <2>1. \A u \in Scheds : pc[u] = "mig_slot" => pc'[u] = "mig_slot" /\ thief'[u] = thief[u]
    BY <1>6, <1>11, <1>13
  <2> QED BY <1>1, <1>6, <1>13, <2>1 DEF FoundAt
<1> QED BY <1>12, <1>13, <1>14, <1>15, <1>18, <1>19, <1>20, OwnerStep

(* What is allocated stays clean when the pending batch is washed too.     *)
LEMMA WashedToo ==
  ASSUME IInv, NEW s \in Scheds, Stock(s) # {}, NEW b, b = Allocated(s),
         NEW old, old = pend[s].batch
  PROVE  /\ b \in Batches /\ old \in Batches
         /\ Washed(ToWash(s) \cup {old}) \in [Batches -> BatSet]
         /\ Washed(ToWash(s) \cup {old})[b] = CleanBatch
         /\ Washed(ToWash(s)) \in [Batches -> BatSet]
         /\ Washed(ToWash(s))[b] = CleanBatch
         /\ bat[old] = CleanBatch => Washed(ToWash(s) \cup {old}) = Washed(ToWash(s))
<1>1. Types /\ BatchesAt(s)
  BY DEF IInv, Kept
<1>2. PICK W \in SUBSET Batches : W = ToWash(s)
  BY CleanFacts
<1>3. b \in Batches /\ Washed(W)[b] = CleanBatch
  BY <1>2, StockFacts
<1>4. old \in Batches
  BY <1>1, OwnFacts DEF BatchesAt, OwnedAt
<1>5. PICK X \in SUBSET Batches : X = W \cup {old}
  BY <1>4
<1>6. /\ Washed(W) \in [Batches -> BatSet]
      /\ \A c \in W : Washed(W)[c] = CleanBatch
      /\ \A c \in Batches : c \notin W => Washed(W)[c] = bat[c]
  BY <1>1, WashedBatches
<1>7. /\ Washed(X) \in [Batches -> BatSet]
      /\ \A c \in X : Washed(X)[c] = CleanBatch
      /\ \A c \in Batches : c \notin X => Washed(X)[c] = bat[c]
  BY <1>1, WashedBatches
<1>8. Washed(X)[b] = CleanBatch
  BY <1>3, <1>5, <1>6, <1>7
<1>9. ASSUME bat[old] = CleanBatch PROVE Washed(X) = Washed(W)
  <2>1. \A c \in Batches : Washed(X)[c] = Washed(W)[c]
    BY <1>5, <1>6, <1>7, <1>9
  <2> QED BY <1>6, <1>7, <2>1
<1> QED BY <1>2, <1>3, <1>4, <1>5, <1>6, <1>7, <1>8, <1>9

(* The run queue is empty and the pending batch is loaded. *)
LEMMA PullPendingStep ==
  ASSUME IInv, NEW s \in Scheds, PullPending(s)
  PROVE  IInv'
<1>1. Types /\ ControlAt(s) /\ BatchesAt(s)
  BY DEF IInv, Control, Kept
<1>2. /\ pc[s] \in {"sched", "pick"} /\ rqstate[s] /\ pend[s].on /\ Stock(s) # {}
      /\ LoadCurb(s, pend[s].batch)
      /\ pend' = [pend EXCEPT ![s] = [batch |-> Allocated(s), on |-> FALSE, aff |-> {}]]
      /\ free' = [free EXCEPT ![s] = (Stock(s) \ {Allocated(s)}) \cup {pend[s].batch}]
      /\ laundry' = [laundry EXCEPT ![s] = @ \ ToWash(s)]
      /\ bat' = Washed(ToWash(s) \cup {pend[s].batch})
      /\ Goto(s, "user")
      /\ UNCHANGED <<affinity, calls, mail, rq, rqstate, job, ret, slot, head, bm, mwstate, thief>>
  BY DEF PullPending, Picks, AtTop, windowVars
<1>3. PICK b \in Batches : b = Allocated(s)
  BY <1>2, WashedToo
<1>4. bat' \in [Batches -> BatSet] /\ bat'[b] = CleanBatch
  BY <1>2, <1>3, WashedToo
<1>5. bat' = [Washed(ToWash(s) \cup {pend[s].batch}) EXCEPT ![b].procs = << >>]
  <2>1. PICK f \in [Batches -> BatSet] : f = bat'
    BY <1>4
  <2>2. f[b] \in BatSet /\ f[b].procs = << >>
    BY <1>4, <2>1 DEF CleanBatch
  <2>3. [f[b] EXCEPT !.procs = << >>] = f[b]
    BY <2>2 DEF BatSet
  <2>4. [f EXCEPT ![b].procs = << >>] = [f EXCEPT ![b] = [f[b] EXCEPT !.procs = << >>]]
    OBVIOUS
  <2>5. [f EXCEPT ![b].procs = << >>] = f
    BY <2>3, <2>4
  <2> QED BY <1>2, <2>1, <2>5
<1>6. SwapPending(s, << >>, FALSE, {})
  BY <1>2, <1>3, <1>5 DEF SwapPending
<1>7. pend[s].batch \in Batches /\ Good(bat[pend[s].batch].procs)
  BY <1>1, <1>2, OwnFacts DEF BatchesAt, OwnedAt, StockedAt
<1>8. /\ cur' \in [Scheds -> Procs \cup {NotProcess}] /\ cur'[s] # NotProcess
      /\ curb' \in [Scheds -> CurbSet]
      /\ \A t \in Scheds : t # s => cur'[t] = cur[t] /\ curb'[t] = curb[t]
  BY <1>1, <1>2, <1>7, LoadTypes
<1>9. affinity' \in [Procs -> SUBSET Scheds] /\ mail' \in [Scheds -> SUBSET Procs]
  BY <1>1, <1>2 DEF Types
<1>10. Lands(s, "user")
  BY <1>2, <1>8, <1>9 DEF Lands, HomeLabels
<1>11. rqstate' \in [Scheds -> BOOLEAN] /\ rqstate' = rqstate
  BY <1>1, <1>2 DEF Types
<1>12. pc[s] \in HomeLabels /\ << >> \in Seq(Procs) /\ {} \in SUBSET Scheds
  BY <1>2 DEF HomeLabels
<1> QED BY <1>2, <1>6, <1>10, <1>11, <1>12, SwapStep

-----------------------------------------------------------------------------
(***************************************************************************)
(* A pending batch in use is moved to the run queue, with a new one in its *)
(* place.                                                                  *)
(***************************************************************************)
ReplacePending(s, procs, a, from) ==
  LET b == Allocated(s)
      bats == [Washed(ToWash(s)) EXCEPT ![b].procs = procs]
  IN /\ Stock(s) # {} /\ pend[s].on
     /\ pend' = [pend EXCEPT ![s] = [batch |-> b, on |-> TRUE, aff |-> a]]
     /\ free' = [free EXCEPT ![s] = Stock(s) \ {b}]
     /\ laundry' = [laundry EXCEPT ![s] = @ \ ToWash(s)]
     /\ AddToRunqueue(s, pend[s].batch, pend[s].aff, bats, from)

(* There is work in the run queue of s. *)
HasWork(s) ==
  /\ rqstate' \in [Scheds -> BOOLEAN] /\ rqstate'[s]
  /\ \A t \in Scheds : t # s => rqstate'[t] = rqstate[t]

(* The new pending batch is b; what the lists and the batches are before   *)
(* the old one is added: free batches S, some of them washed, batches g.   *)
Replaced(s, procs, a, from, b, old, S, W, g) ==
  /\ S = Stock(s) /\ Stock(s) # {} /\ old = pend[s].batch /\ pend[s].on
  /\ b \in S /\ b \in Own(s) /\ b \in Batches /\ old \in Own(s) /\ old \in Batches
  /\ S \subseteq Own(s) /\ S \subseteq Batches /\ b # old /\ old \notin S /\ W \subseteq S
  /\ S \cap (Q(s) \cup (laundry[s] \ W)) = {}
  /\ old \notin Q(s) \cup laundry[s]
  /\ \A t \in Scheds, c \in S \cup {old} : ~Holds(t, c)
  /\ \A w \in Slots : slot[s][w] \notin S \cup {old}
  /\ g \in [Batches -> BatSet] /\ g[b] = [procs |-> procs, dirty |-> FALSE, win |-> 0]
  /\ \A c \in S \ {b} : g[c] = CleanBatch
  /\ \A c \in Batches : c \notin S => g[c] = bat[c]
  /\ pend' \in [Scheds -> PendSet] /\ pend'[s].batch = b /\ pend'[s].on /\ pend'[s].aff = a
  /\ \A t \in Scheds : t # s => pend'[t] = pend[t]
  /\ free' \in [Scheds -> SUBSET Batches] /\ free'[s] = S \ {b}
  /\ \A t \in Scheds : t # s => free'[t] = free[t]
  /\ laundry' \in [Scheds -> SUBSET Batches] /\ laundry'[s] = laundry[s] \ W
  /\ \A t \in Scheds : t # s => laundry'[t] = laundry[t]
  /\ AddToRunqueue(s, old, pend[s].aff, g, from)
  /\ Good(bat[old].procs) /\ bat[old].win = 0 /\ ~bat[old].dirty

(* What is known of them. *)
LEMMA ReplaceFacts ==
  ASSUME IInv, NEW s \in Scheds, NEW procs \in Seq(Procs), procs # << >>, NEW a \in SUBSET Scheds,
         NEW from, ReplacePending(s, procs, a, from), pc[s] \in HomeLabels
  PROVE  \E b, old, S, W, g : Replaced(s, procs, a, from, b, old, S, W, g)
<1>0. PICK b, old, S, W, g : /\ b = Allocated(s) /\ old = pend[s].batch /\ S = Stock(s)
                             /\ W = ToWash(s) /\ g = [Washed(W) EXCEPT ![b].procs = procs]
  OBVIOUS
<1>1. Types /\ BatchesAt(s)
  BY DEF IInv, Kept
<1>2. /\ Stock(s) # {} /\ pend[s].on
      /\ pend' = [pend EXCEPT ![s] = [batch |-> b, on |-> TRUE, aff |-> a]]
      /\ free' = [free EXCEPT ![s] = S \ {b}]
      /\ laundry' = [laundry EXCEPT ![s] = @ \ W]
      /\ AddToRunqueue(s, old, pend[s].aff, g, from)
  BY <1>0 DEF ReplacePending
<1>3. /\ b \in S /\ b \in Own(s) /\ b \in Batches /\ S \subseteq Own(s) /\ S \subseteq Batches
      /\ S \cap (Q(s) \cup {old} \cup (laundry[s] \ W)) = {}
      /\ \A t \in Scheds, c \in S : ~Holds(t, c)
      /\ \A w \in Slots : slot[s][w] \notin S
      /\ \A c \in S : Washed(W)[c] = CleanBatch
      /\ S = free[s] \cup W
  BY <1>0, <1>2, StockFacts, OwnFacts DEF Stock
<1>4. /\ S \cap (Q(s) \cup (laundry[s] \ W)) = {} /\ old \notin S /\ b # old
  BY <1>3, Zenon
<1>5. /\ old \in Own(s) /\ old \in Batches /\ old \notin Q(s) \cup laundry[s]
      /\ Good(bat[old].procs) /\ bat[old].win = 0 /\ ~bat[old].dirty
  BY <1>0, <1>1, <1>2, OwnFacts DEF BatchesAt, OwnedAt, ApartAt, StockedAt
<1>6. \A t \in Scheds : ~Holds(t, old)
  BY <1>5, HeldOfOwner
<1>7. \A w \in Slots : slot[s][w] # old
  BY <1>1, <1>5 DEF BatchesAt, ShownAt
<1>8. /\ g \in [Batches -> BatSet] /\ g[b] = [procs |-> procs, dirty |-> FALSE, win |-> 0]
      /\ \A c \in Batches : c # b => g[c] = Washed(W)[c]
  <2>1. Washed(W) \in [Batches -> BatSet] /\ Washed(W)[b] = CleanBatch
    BY <1>0, <1>2, WashedToo
  <2>2. PICK f : f = Washed(W)
    OBVIOUS
  <2>3. g = [f EXCEPT ![b].procs = procs] /\ f \in [Batches -> BatSet] /\ f[b] = CleanBatch
    BY <1>0, <2>1, <2>2
  <2> QED BY <1>3, <2>2, <2>3, BatUpdate
<1>9. \A c \in S \ {b} : g[c] = CleanBatch
  BY <1>3, <1>8
<1>10. \A c \in Batches : c \notin S => g[c] = bat[c]
  <2>1. W \in SUBSET Batches
    BY <1>0, CleanFacts
  <2>2. \A c \in Batches : c \notin W => Washed(W)[c] = bat[c]
    BY <1>1, <2>1, WashedBatches
  <2> QED BY <1>3, <1>8, <2>2
<1>11. /\ pend' \in [Scheds -> PendSet] /\ pend'[s].batch = b /\ pend'[s].on /\ pend'[s].aff = a
       /\ \A t \in Scheds : t # s => pend'[t] = pend[t]
  <2>1. [batch |-> b, on |-> TRUE, aff |-> a] \in PendSet
    BY <1>3 DEF PendSet
  <2>2. pend \in [Scheds -> PendSet]
    BY <1>1 DEF Types
  <2>3. pend'[s] = [batch |-> b, on |-> TRUE, aff |-> a]
    BY <1>2, <2>2
  <2>4. pend' \in [Scheds -> PendSet] /\ \A t \in Scheds : t # s => pend'[t] = pend[t]
    BY <1>2, <2>1, <2>2
  <2> QED BY <2>3, <2>4
<1>12. /\ free' \in [Scheds -> SUBSET Batches] /\ free'[s] = S \ {b}
       /\ \A t \in Scheds : t # s => free'[t] = free[t]
       /\ laundry' \in [Scheds -> SUBSET Batches] /\ laundry'[s] = laundry[s] \ W
       /\ \A t \in Scheds : t # s => laundry'[t] = laundry[t]
  BY <1>1, <1>2, <1>3 DEF Types
<1>13. \A w \in Slots : slot[s][w] \notin S \cup {old}
  BY <1>3, <1>7
<1>14. \A t \in Scheds, c \in S \cup {old} : ~Holds(t, c)
  BY <1>3, <1>6
<1>15. Replaced(s, procs, a, from, b, old, S, W, g)
  BY <1>0, <1>2, <1>3, <1>4, <1>5, <1>8, <1>9, <1>10, <1>11, <1>12, <1>13, <1>14 DEF Replaced
<1> QED BY <1>15

(* Where s goes when it has a new pending batch. *)
LEMMA HomeKinds ==
  ASSUME NEW l \in HomeLabels
  PROVE  /\ l \notin OwnLabels \cup AddLabels \cup ThiefLabels \cup LookLabels
         /\ l \notin {"migrate", "add_state", "pull_clear", "mig_bit", "mig_slot", "steal_load", "steal_mark"}
         /\ l \notin {"sched", "user", "save"} => l = "pick"
         /\ l \in Labels
BY DEF OwnLabels, AddLabels, ThiefLabels, LookLabels, HomeLabels, Labels

(* The old pending batch has affinity and is added out of sight. *)
LEMMA ReplaceHidden ==
  ASSUME IInv, NEW s \in Scheds, NEW procs \in Seq(Procs), procs # << >>, NEW a \in SUBSET Scheds,
         NEW from, ReplacePending(s, procs, a, from), Lands(s, from), HasWork(s),
         pc[s] \in HomeLabels, Hides(pend[s].aff)
  PROVE  IInv'
<1>1. Types /\ ControlAt(s) /\ BatchesAt(s) /\ FoundAt(s)
  BY DEF IInv, Control, Kept, Found
<1>2. PICK b, old, S, W, g : Replaced(s, procs, a, from, b, old, S, W, g)
  BY ReplaceFacts
<1>3. /\ b \in S /\ b \in Own(s) /\ b \in Batches /\ old \in Own(s) /\ old \in Batches
      /\ S \subseteq Own(s) /\ S \subseteq Batches /\ b # old /\ old \notin S /\ W \subseteq S
      /\ S \cap (Q(s) \cup (laundry[s] \ W)) = {}
      /\ old \notin Q(s) \cup laundry[s]
      /\ \A t \in Scheds, c \in S \cup {old} : ~Holds(t, c)
      /\ \A w \in Slots : slot[s][w] \notin S \cup {old}
  BY <1>2 DEF Replaced
<1>4. /\ g \in [Batches -> BatSet] /\ g[b] = [procs |-> procs, dirty |-> FALSE, win |-> 0]
      /\ \A c \in S \ {b} : g[c] = CleanBatch
      /\ \A c \in Batches : c \notin S => g[c] = bat[c]
      /\ AddToRunqueue(s, old, pend[s].aff, g, from)
      /\ Good(bat[old].procs) /\ bat[old].win = 0 /\ ~bat[old].dirty
  BY <1>2 DEF Replaced
<1>5. /\ pend' \in [Scheds -> PendSet] /\ pend'[s].batch = b /\ pend'[s].on /\ pend'[s].aff = a
      /\ \A t \in Scheds : t # s => pend'[t] = pend[t]
      /\ free' \in [Scheds -> SUBSET Batches] /\ free'[s] = S \ {b}
      /\ \A t \in Scheds : t # s => free'[t] = free[t]
      /\ laundry' \in [Scheds -> SUBSET Batches] /\ laundry'[s] = laundry[s] \ W
      /\ \A t \in Scheds : t # s => laundry'[t] = laundry[t]
  BY <1>2 DEF Replaced
<1>6. /\ rq' = [rq EXCEPT ![s] = Append(@, old)] /\ bat' = SetClean(g, old) /\ Goto(s, from)
      /\ UNCHANGED <<slot, job, ret>>
  BY <1>4 DEF AddToRunqueue, AddLocal
<1>7. /\ cur' \in [Scheds -> Procs \cup {NotProcess}] /\ curb' \in [Scheds -> CurbSet]
      /\ affinity' \in [Procs -> SUBSET Scheds] /\ mail' \in [Scheds -> SUBSET Procs]
      /\ \A t \in Scheds : t # s => cur'[t] = cur[t] /\ curb'[t] = curb[t]
      /\ from \in HomeLabels /\ (cur'[s] # NotProcess <=> from = "user")
      /\ from = "save" => curb'[s].procs # << >>
      /\ from = "pick" => curb'[s].procs = << >>
      /\ UNCHANGED <<head, bm, mwstate, thief>>
  BY DEF Lands
<1>8. bat' = g
  <2>1. g[old] \in BatSet /\ g[old].dirty = FALSE /\ g[old].win = 0
    <3>1. g[old] = bat[old] /\ g[old] \in BatSet
      BY <1>3, <1>4
    <3> QED BY <1>4, <3>1 DEF BatSet
  <2>2. bat' = [g EXCEPT ![old].dirty = FALSE, ![old].win = 0]
    BY <1>6 DEF SetClean
  <2>3. bat' = [g EXCEPT ![old] = [g[old] EXCEPT !.dirty = FALSE, !.win = 0]]
    BY <1>3, <1>4, <2>2
  <2>4. [g[old] EXCEPT !.dirty = FALSE, !.win = 0] = g[old]
    BY <2>1 DEF BatSet
  <2> QED BY <1>4, <2>3, <2>4
<1>9. /\ rq' \in [Scheds -> Seq(Batches)] /\ Once(rq'[s]) /\ Q(s)' = Q(s) \cup {old}
      /\ \A t \in Scheds : t # s => rq'[t] = rq[t]
  <2>1. rq \in [Scheds -> Seq(Batches)] /\ rq[s] \in Seq(Batches) /\ Once(rq[s])
    BY <1>1 DEF Types, BatchesAt, OwnedAt
  <2>2. /\ Append(rq[s], old) \in Seq(Batches)
        /\ ToSet(Append(rq[s], old)) = ToSet(rq[s]) \cup {old} /\ Once(Append(rq[s], old))
    BY <1>3, <2>1, AppendOnce DEF Q
  <2>3. rq' \in [Scheds -> Seq(Batches)] /\ rq'[s] = Append(rq[s], old)
        /\ \A t \in Scheds : t # s => rq'[t] = rq[t]
    BY <1>6, <2>1, <2>2
  <2> QED BY <2>2, <2>3 DEF Q
<1>10. /\ pc' \in [Scheds -> Labels] /\ pc'[s] = from
       /\ \A t \in Scheds : t # s => pc'[t] = pc[t]
  BY <1>1, <1>6, <1>7, GotoPc, HomeKinds
<1>11. Types'
  BY <1>1, <1>4, <1>5, <1>6, <1>7, <1>8, <1>9, <1>10 DEF Types, HasWork
<1>12. /\ from \notin OwnLabels \cup AddLabels \cup ThiefLabels \cup LookLabels
       /\ from \notin {"migrate", "add_state", "pull_clear", "mig_bit", "mig_slot", "steal_load", "steal_mark"}
       /\ from \notin {"sched", "user", "save"} => from = "pick"
       /\ pc[s] \notin OwnLabels \cup AddLabels \cup ThiefLabels \cup LookLabels
       /\ pc[s] \notin {"migrate", "add_state", "pull_clear", "mig_bit", "mig_slot", "steal_load", "steal_mark"}
  BY <1>7, HomeKinds
<1>13. ControlAt(s)'
  <2>1. Home(s)' = from /\ job[s] = NoBatch
    BY <1>1, <1>10, <1>12 DEF Home, ControlAt
  <2> QED BY <1>6, <1>7, <1>10, <1>12, <2>1 DEF ControlAt, HasWork
<1>14. OwnerOnly(s)
  <2>1. \A t \in Scheds : t # s => SameAt(t)
    BY <1>5, <1>6, <1>7, <1>9, <1>10 DEF SameAt, HasWork
  <2>2. \A c \in Batches : c \notin Own(s) => bat'[c] = bat[c]
    BY <1>3, <1>4, <1>8
  <2> QED BY <1>10, <1>12, <2>1, <2>2 DEF OwnerOnly
<1>15. \A c \in Batches : /\ ~(Adding(s, c)') /\ ~Adding(s, c)
                          /\ c \notin S => (InSlot(s, c)' <=> InSlot(s, c))
  BY <1>4, <1>6, <1>8, <1>10, <1>12 DEF Adding, InSlot
<1>16. HeldKept(s)
  <2> SUFFICES ASSUME NEW t \in Scheds, NEW c \in Batches, Holds(t, c), c \in Own(s)
               PROVE  /\ bat'[c] = bat[c] /\ ~(InSlot(s, c)')
                      /\ c \in Q(s)' \cup laundry'[s]
    BY DEF HeldKept
  <2>1. ~InSlot(s, c) /\ c \in Q(s) \cup laundry[s] /\ c \notin S
    BY <1>3, <1>15, HeldOfOwner
  <2> QED BY <1>3, <1>4, <1>5, <1>8, <1>9, <1>15, <2>1
<1>17. BatchesAt(s)'
  <2>1. Q(s) \subseteq Own(s) /\ laundry[s] \subseteq Own(s) /\ Q(s) \subseteq Batches
        /\ Q(s) \cap laundry[s] = {} /\ Q(s) \cap S = {} /\ (laundry[s] \ W) \cap S = {}
    BY <1>1, <1>3, OwnFacts DEF BatchesAt, OwnedAt, ApartAt
  <2>2. OwnedAt(s)'
    BY <1>3, <1>5, <1>9, <1>10, <1>12, <2>1 DEF OwnedAt
  <2>3. ApartAt(s)'
    BY <1>3, <1>5, <1>9, <1>10, <1>12, <2>1 DEF ApartAt
  <2>4. StockedAt(s)'
    <3>1. \A c \in free'[s] : bat'[c] = CleanBatch
      BY <1>4, <1>5, <1>8
    <3>2. bat'[b].win = 0 /\ ~bat'[b].dirty /\ Good(bat'[b].procs)
      BY <1>4, <1>8 DEF Good
    <3> QED BY <1>5, <3>1, <3>2 DEF StockedAt
  <2>5. LinedAt(s)'
    <3>1. bat'[old] = bat[old] /\ \A c \in Q(s) : bat'[c] = bat[c] /\ (InSlot(s, c)' <=> InSlot(s, c))
      BY <1>3, <1>4, <1>8, <1>15, <2>1
    <3>2. \A c \in Q(s) : /\ InSlot(s, c) => Good(bat[c].procs)
                          /\ bat[c].win = 0 => ~bat[c].dirty
      BY <1>1 DEF BatchesAt, LinedAt
    <3> QED BY <1>4, <1>9, <1>10, <1>12, <3>1, <3>2 DEF LinedAt
  <2>6. ShownAt(s)'
    <3> SUFFICES ASSUME NEW k \in Slots, NEW c \in Batches, slot'[s][k] = c
                 PROVE  (c \in Q(s)') /\ bat'[c].win = k /\ bat'[c].dirty
      BY DEF ShownAt
    <3>1. c \in Q(s) /\ bat[c].win = k /\ bat[c].dirty /\ c \notin S
      BY <1>1, <1>3, <1>6, <1>15 DEF BatchesAt, ShownAt
    <3> QED BY <1>4, <1>8, <1>9, <3>1
  <2> QED BY <2>2, <2>3, <2>4, <2>5, <2>6 DEF BatchesAt
<1>18. FoundAt(s)'
  <2>1. \A u \in Scheds : pc[u] = "mig_slot" => pc'[u] = "mig_slot" /\ thief'[u] = thief[u]
    BY <1>7, <1>10, <1>12
  <2> QED BY <1>1, <1>6, <1>7, <1>12, <2>1 DEF FoundAt
<1> QED BY <1>11, <1>12, <1>13, <1>14, <1>16, <1>17, <1>18, OwnerStep

(* The dirty bit and the window number of a batch are set. *)
Marked(g, old, w) == [g EXCEPT ![old].dirty = TRUE, ![old].win = w]

(* The batches when a slot is filled: old goes in, x comes out. *)
LEMMA FilledBatches ==
  ASSUME NEW g \in [Batches -> BatSet], NEW old \in Batches, NEW w \in 0..Size,
         NEW x \in Batches \cup {NoBatch}, x # old,
         NEW h, h = ReclaimOld(Marked(g, old, w), x)
  PROVE  /\ h \in [Batches -> BatSet]
         /\ h[old].procs = g[old].procs /\ h[old].dirty /\ h[old].win = w
         /\ x # NoBatch => h[x].procs = g[x].procs /\ ~h[x].dirty /\ h[x].win = 0
         /\ \A c \in Batches : c \notin {old, x} => h[c] = g[c]
<1>1. PICK f : f = Marked(g, old, w)
  OBVIOUS
<1>2. PICK q : q = [g[old] EXCEPT !.dirty = TRUE, !.win = w]
  OBVIOUS
<1>3. f = [g EXCEPT ![old] = q]
  BY <1>1, <1>2 DEF Marked
<1>4. q \in BatSet /\ q.procs = g[old].procs /\ q.dirty = TRUE /\ q.win = w
  <2>1. PICK r \in BatSet : r = g[old]
    OBVIOUS
  <2>2. q = [r EXCEPT !.dirty = TRUE, !.win = w]
    BY <1>2, <2>1
  <2>3. q \in BatSet /\ q.procs = r.procs /\ q.dirty = TRUE /\ q.win = w
    BY <2>2 DEF BatSet
  <2> QED BY <2>1, <2>3
<1>5. f \in [Batches -> BatSet] /\ f[old] = q /\ \A c \in Batches : c # old => f[c] = g[c]
  BY <1>3, <1>4
<1>6. CASE x = NoBatch
  <2>1. h = f
    BY <1>1, <1>6 DEF ReclaimOld
  <2> QED BY <1>4, <1>5, <1>6, <2>1
<1>7. CASE x # NoBatch
  <2>1. x \in Batches /\ h = SetClean(f, x)
    BY <1>1, <1>7 DEF ReclaimOld
  <2>2. PICK y : y = [f[x] EXCEPT !.dirty = FALSE, !.win = 0]
    OBVIOUS
  <2>3. h = [f EXCEPT ![x] = y]
    BY <1>5, <2>1, <2>2 DEF SetClean
  <2>4. y \in BatSet /\ y.procs = g[x].procs /\ y.dirty = FALSE /\ y.win = 0
    <3>1. PICK r \in BatSet : r = f[x] /\ r = g[x]
      BY <1>5, <2>1
    <3>2. y = [r EXCEPT !.dirty = FALSE, !.win = 0]
      BY <2>2, <3>1
    <3>3. PICK z \in 0..Size : z = 0
      BY MigrateAssumption
    <3>4. y = [r EXCEPT !.dirty = FALSE, !.win = z]
      BY <3>2, <3>3
    <3>5. y \in BatSet /\ y.procs = r.procs /\ y.dirty = FALSE /\ y.win = z
      BY <3>4 DEF BatSet
    <3> QED BY <3>1, <3>3, <3>5
  <2> QED BY <1>4, <1>5, <2>1, <2>3, <2>4
<1> QED BY <1>6, <1>7

(* The old pending batch is put into the slot after the head, and the one  *)
(* that was in this slot is the owner's alone again.                       *)
LEMMA ReplaceShown ==
  ASSUME IInv, NEW s \in Scheds, NEW procs \in Seq(Procs), procs # << >>, NEW a \in SUBSET Scheds,
         NEW from, ReplacePending(s, procs, a, from), Lands(s, from), HasWork(s),
         pc[s] \in HomeLabels, ~Hides(pend[s].aff)
  PROVE  IInv'
<1>1. Types /\ ControlAt(s) /\ BatchesAt(s) /\ FoundAt(s)
  BY DEF IInv, Control, Kept, Found
<1>2. PICK b, old, S, W, g : Replaced(s, procs, a, from, b, old, S, W, g)
  BY ReplaceFacts
<1>3. /\ b \in S /\ b \in Own(s) /\ b \in Batches /\ old \in Own(s) /\ old \in Batches
      /\ S \subseteq Own(s) /\ S \subseteq Batches /\ b # old /\ old \notin S /\ W \subseteq S
      /\ S \cap (Q(s) \cup (laundry[s] \ W)) = {}
      /\ old \notin Q(s) \cup laundry[s]
      /\ \A t \in Scheds, c \in S \cup {old} : ~Holds(t, c)
      /\ \A k \in Slots : slot[s][k] \notin S \cup {old}
  BY <1>2 DEF Replaced
<1>4. /\ g \in [Batches -> BatSet] /\ g[b] = [procs |-> procs, dirty |-> FALSE, win |-> 0]
      /\ \A c \in S \ {b} : g[c] = CleanBatch
      /\ \A c \in Batches : c \notin S => g[c] = bat[c]
      /\ AddToRunqueue(s, old, pend[s].aff, g, from)
      /\ Good(bat[old].procs) /\ bat[old].win = 0 /\ ~bat[old].dirty
  BY <1>2 DEF Replaced
<1>5. /\ pend' \in [Scheds -> PendSet] /\ pend'[s].batch = b /\ pend'[s].on /\ pend'[s].aff = a
      /\ \A t \in Scheds : t # s => pend'[t] = pend[t]
      /\ free' \in [Scheds -> SUBSET Batches] /\ free'[s] = S \ {b}
      /\ \A t \in Scheds : t # s => free'[t] = free[t]
      /\ laundry' \in [Scheds -> SUBSET Batches] /\ laundry'[s] = laundry[s] \ W
      /\ \A t \in Scheds : t # s => laundry'[t] = laundry[t]
  BY <1>2 DEF Replaced
<1>6. PICK w : w = IncrementHead(head[s]) /\ w \in Slots /\ w \in 0..Size /\ w # 0
  BY <1>1, NextHead DEF Types
<1>7. PICK x \in Batches \cup {NoBatch} : x = slot[s][w]
  BY <1>1, <1>6 DEF Types
<1>8. /\ slot' = [slot EXCEPT ![s][w] = old]
      /\ bat' = ReclaimOld(Marked(g, old, w), x)
      /\ job' = [job EXCEPT ![s] = old] /\ ret' = [ret EXCEPT ![s] = from]
      /\ Goto(s, "add_state") /\ rq' = rq
  BY <1>4, <1>6, <1>7 DEF AddToRunqueue, FillSlot, Marked
<1>9. /\ cur' \in [Scheds -> Procs \cup {NotProcess}] /\ curb' \in [Scheds -> CurbSet]
      /\ affinity' \in [Procs -> SUBSET Scheds] /\ mail' \in [Scheds -> SUBSET Procs]
      /\ \A t \in Scheds : t # s => cur'[t] = cur[t] /\ curb'[t] = curb[t]
      /\ from \in HomeLabels /\ (cur'[s] # NotProcess <=> from = "user")
      /\ from = "save" => curb'[s].procs # << >>
      /\ from = "pick" => curb'[s].procs = << >>
      /\ UNCHANGED <<head, bm, mwstate, thief>>
  BY DEF Lands
<1>10. /\ slot' \in [Scheds -> [Slots -> Batches \cup {NoBatch}]] /\ slot'[s][w] = old
       /\ \A t \in Scheds : t # s => slot'[t] = slot[t]
       /\ \A k \in Slots : k # w => slot'[s][k] = slot[s][k]
  BY <1>1, <1>3, <1>6, <1>8 DEF Types
<1>11. /\ job' \in [Scheds -> Batches \cup {NoBatch}] /\ job'[s] = old
       /\ ret' \in [Scheds -> HomeLabels] /\ ret'[s] = from
       /\ \A t \in Scheds : t # s => job'[t] = job[t] /\ ret'[t] = ret[t]
  BY <1>1, <1>3, <1>8, <1>9 DEF Types
<1>12. /\ pc' \in [Scheds -> Labels] /\ pc'[s] = "add_state"
       /\ \A t \in Scheds : t # s => pc'[t] = pc[t]
  BY <1>1, <1>8, GotoPc DEF Labels, OwnLabels, AddLabels
<1>13. /\ pc'[s] \in OwnLabels /\ pc'[s] \in AddLabels /\ pc'[s] \notin ThiefLabels \cup LookLabels
       /\ pc'[s] \notin {"migrate", "pull_clear", "mig_bit", "mig_slot", "steal_load", "steal_mark"}
       /\ pc[s] \notin OwnLabels \cup AddLabels \cup ThiefLabels \cup LookLabels
       /\ pc[s] \notin {"migrate", "add_state", "pull_clear", "mig_bit", "mig_slot", "steal_load", "steal_mark"}
  <2>1. /\ "add_state" \in OwnLabels /\ "add_state" \in AddLabels
        /\ "add_state" \notin ThiefLabels \cup LookLabels
    BY DEF OwnLabels, AddLabels, ThiefLabels, LookLabels
  <2>2. "add_state" \notin {"migrate", "pull_clear", "mig_bit", "mig_slot", "steal_load", "steal_mark"}
    OBVIOUS
  <2> QED BY <1>12, <2>1, <2>2, HomeKinds
<1>14. /\ x # old /\ x \notin S
       /\ x # NoBatch => /\ x \in Batches /\ x \in Q(s) /\ bat[x].win = w /\ bat[x].dirty
                         /\ InSlot(s, x) /\ Good(bat[x].procs)
  <2>1. x # old /\ x \notin S
    BY <1>3, <1>6, <1>7
  <2>2. ASSUME x # NoBatch PROVE /\ x \in Batches /\ x \in Q(s) /\ bat[x].win = w /\ bat[x].dirty
                                 /\ InSlot(s, x) /\ Good(bat[x].procs)
    <3>1. x \in Batches /\ slot[s][w] = x
      BY <1>7, <2>2
    <3>2. x \in Q(s) /\ bat[x].win = w /\ bat[x].dirty
      BY <1>1, <1>6, <1>13, <3>1 DEF BatchesAt, ShownAt, Adding
    <3>3. InSlot(s, x)
      BY <3>1, <3>2 DEF InSlot
    <3> QED BY <1>1, <3>1, <3>2, <3>3 DEF BatchesAt, LinedAt
  <2> QED BY <2>1, <2>2
<1>15. /\ bat' \in [Batches -> BatSet]
       /\ bat'[old].procs = bat[old].procs /\ bat'[old].dirty /\ bat'[old].win = w
       /\ x # NoBatch => bat'[x].procs = bat[x].procs /\ ~bat'[x].dirty /\ bat'[x].win = 0
       /\ bat'[b] = [procs |-> procs, dirty |-> FALSE, win |-> 0]
       /\ \A c \in S \ {b} : bat'[c] = CleanBatch
       /\ \A c \in Batches : c \notin S \cup {old, x} => bat'[c] = bat[c]
  <2>1. /\ bat' \in [Batches -> BatSet]
        /\ bat'[old].procs = g[old].procs /\ bat'[old].dirty /\ bat'[old].win = w
        /\ x # NoBatch => bat'[x].procs = g[x].procs /\ ~bat'[x].dirty /\ bat'[x].win = 0
        /\ \A c \in Batches : c \notin {old, x} => bat'[c] = g[c]
    <3>1. PICK h : h = bat'
      OBVIOUS
    <3>2. h = ReclaimOld(Marked(g, old, w), x)
      BY <1>8, <3>1
    <3>3. g \in [Batches -> BatSet] /\ old \in Batches /\ x # old
      BY <1>3, <1>4, <1>14
    <3>4. /\ h \in [Batches -> BatSet]
          /\ h[old].procs = g[old].procs /\ h[old].dirty /\ h[old].win = w
          /\ x # NoBatch => h[x].procs = g[x].procs /\ ~h[x].dirty /\ h[x].win = 0
          /\ \A c \in Batches : c \notin {old, x} => h[c] = g[c]
      BY <1>6, <1>7, <3>2, <3>3, FilledBatches
    <3> QED BY <3>1, <3>4
  <2>2. g[old] = bat[old] /\ (x # NoBatch => g[x] = bat[x])
    BY <1>3, <1>4, <1>14
  <2>3. b \notin {old, x} /\ \A c \in S : c \in Batches /\ c \notin {old, x}
    BY <1>3, <1>14
  <2>4. bat'[b] = g[b] /\ \A c \in S \ {b} : bat'[c] = g[c]
    BY <1>3, <2>1, <2>3
  <2>5. \A c \in Batches : c \notin S \cup {old, x} => bat'[c] = bat[c]
    BY <1>4, <2>1
  <2> QED BY <1>4, <2>1, <2>2, <2>4, <2>5
<1>16. Types'
  BY <1>1, <1>5, <1>8, <1>9, <1>10, <1>11, <1>12, <1>15 DEF Types, HasWork
<1>17. ControlAt(s)'
  <2>1. Home(s)' = from
    BY <1>11, <1>13 DEF Home
  <2>2. old # NoBatch
    BY <1>3, OwnFacts
  <2>3. from \notin {"steal_mark"} /\ (from \notin {"sched", "user", "save"} => from = "pick")
    BY <1>9, HomeKinds
  <2> QED BY <1>9, <1>11, <1>13, <2>1, <2>2, <2>3 DEF ControlAt, HasWork

<1>18. OwnerOnly(s)
  <2>1. \A t \in Scheds : t # s => SameAt(t)
    BY <1>5, <1>8, <1>9, <1>10, <1>11, <1>12 DEF SameAt, HasWork
  <2>2. Q(s) \subseteq Own(s)
    BY <1>1 DEF BatchesAt, OwnedAt
  <2>3. \A c \in Batches : c \notin Own(s) => c \notin S \cup {old, x}
    BY <1>3, <1>14, <2>2, OwnFacts
  <2>4. \A c \in Batches : c \notin Own(s) => bat'[c] = bat[c]
    BY <1>15, <2>3
  <2> QED BY <1>13, <2>1, <2>4 DEF OwnerOnly
<1>19. /\ Q(s)' = Q(s) /\ Q(s) \subseteq Own(s) /\ laundry[s] \subseteq Own(s) /\ Q(s) \subseteq Batches
       /\ Q(s) \cap laundry[s] = {} /\ Q(s) \cap S = {} /\ (laundry[s] \ W) \cap S = {}
  <2>1. Q(s)' = Q(s)
    BY <1>8 DEF Q
  <2> QED BY <1>1, <1>3, <2>1, OwnFacts DEF BatchesAt, OwnedAt, ApartAt
<1>20. \A c \in Batches : /\ ~Adding(s, c) /\ (Adding(s, c)' <=> c = old)
                          /\ c \notin S \cup {old, x} /\ InSlot(s, c)' => InSlot(s, c)
  <2>1. \A c \in Batches : ~Adding(s, c) /\ (Adding(s, c)' <=> c = old)
    BY <1>11, <1>13 DEF Adding
  <2>2. ASSUME NEW c \in Batches, c \notin S \cup {old, x}, InSlot(s, c)' PROVE InSlot(s, c)
    <3>1. bat'[c] = bat[c] /\ (bat[c].win # 0 => bat[c].win \in Slots)
      <4>1. bat[c] \in BatSet
        BY <1>1 DEF Types
      <4>2. bat[c].win # 0 => bat[c].win \in Slots
        BY <4>1, MigrateAssumption DEF BatSet, Slots
      <4> QED BY <1>15, <2>2, <4>2
    <3>2. CASE bat[c].win = 0
      BY <3>2 DEF InSlot
    <3>3. CASE bat[c].win # 0
      <4>1. slot'[s][bat[c].win] = c
        BY <2>2, <3>1, <3>3 DEF InSlot
      <4>2. bat[c].win # w
        BY <1>10, <2>2, <4>1
      <4> QED BY <1>10, <3>1, <3>3, <4>1, <4>2 DEF InSlot
    <3> QED BY <3>2, <3>3
  <2> QED BY <2>1, <2>2
<1>21. HeldKept(s)
  <2> SUFFICES ASSUME NEW t \in Scheds, NEW c \in Batches, Holds(t, c), c \in Own(s)
               PROVE  /\ bat'[c] = bat[c] /\ ~(InSlot(s, c)')
                      /\ c \in Q(s)' \cup laundry'[s]
    BY DEF HeldKept
  <2>1. ~InSlot(s, c) /\ c \in Q(s) \cup laundry[s] /\ c \notin S \cup {old}
    BY <1>3, <1>20, HeldOfOwner
  <2>2. c # x
    BY <1>14, <2>1, OwnFacts
  <2> QED BY <1>3, <1>5, <1>15, <1>19, <1>20, <2>1, <2>2
<1>22. BatchesAt(s)'
  <2>1. OwnedAt(s)'
    <3>1. Once(rq'[s])
      BY <1>1, <1>8 DEF BatchesAt, OwnedAt
    <3> QED BY <1>3, <1>5, <1>11, <1>19, <3>1 DEF OwnedAt
  <2>2. ApartAt(s)'
    BY <1>3, <1>5, <1>11, <1>19 DEF ApartAt
  <2>3. StockedAt(s)'
    <3>1. \A c \in free'[s] : bat'[c] = CleanBatch
      BY <1>5, <1>15
    <3>2. bat'[b].win = 0 /\ ~bat'[b].dirty /\ Good(bat'[b].procs)
      BY <1>15 DEF Good
    <3> QED BY <1>5, <3>1, <3>2 DEF StockedAt
  <2>4. LinedAt(s)'
    <3>1. \A c \in Q(s) : c \notin S \cup {old} /\ c \in Batches
      BY <1>3, <1>19
    <3>2. \A c \in Q(s) : /\ InSlot(s, c) => Good(bat[c].procs)
                          /\ bat[c].win = 0 => ~bat[c].dirty
      BY <1>1 DEF BatchesAt, LinedAt
    <3>3. ASSUME NEW c \in Q(s)
          PROVE  /\ InSlot(s, c)' => Good(bat'[c].procs)
                 /\ bat'[c].win = 0 => ~bat'[c].dirty
      <4>1. CASE c = x
        <5>1. c # NoBatch
          BY <3>1, OwnFacts
        <5> QED BY <1>14, <1>15, <4>1, <5>1
      <4>2. CASE c # x
        BY <1>15, <1>20, <3>1, <3>2, <4>2
      <4> QED BY <4>1, <4>2
    <3>4. bat'[old].win # 0 /\ Good(bat'[old].procs)
      BY <1>4, <1>6, <1>15
    <3> QED BY <1>11, <1>13, <1>19, <3>3, <3>4 DEF LinedAt
  <2>5. ShownAt(s)'
    <3> SUFFICES ASSUME NEW k \in Slots, NEW c \in Batches, slot'[s][k] = c
                 PROVE  ((c \in Q(s)') \/ Adding(s, c)') /\ bat'[c].win = k /\ bat'[c].dirty
      BY DEF ShownAt
    <3>1. CASE k = w
      BY <1>10, <1>15, <1>20, <3>1
    <3>2. CASE k # w
      <4>1. slot[s][k] = c
        BY <1>10, <3>2
      <4>2. c \in Q(s) /\ bat[c].win = k /\ bat[c].dirty /\ c \notin S \cup {old}
        BY <1>1, <1>3, <1>20, <4>1 DEF BatchesAt, ShownAt
      <4>3. c # x
        BY <1>14, <3>2, <4>2, OwnFacts
      <4> QED BY <1>15, <1>19, <4>2, <4>3
    <3> QED BY <3>1, <3>2
  <2> QED BY <2>1, <2>2, <2>3, <2>4, <2>5 DEF BatchesAt
<1>23. FoundAt(s)'
  <2>1. \A u \in Scheds : pc[u] = "mig_slot" => pc'[u] = "mig_slot" /\ thief'[u] = thief[u]
    BY <1>9, <1>12, <1>13
  <2> SUFFICES ASSUME NEW k \in Slots, slot'[s][k] # NoBatch
               PROVE  \/ k \in bm'[s]
                      \/ pc'[s] = "add_state" /\ k = IncrementHead(head'[s])
                      \/ \E t \in Scheds : pc'[t] = "mig_slot" /\ thief'[t].victim = s /\ thief'[t].w = k
    BY DEF FoundAt
  <2>2. CASE k = w
    BY <1>6, <1>9, <1>12, <2>2
  <2>3. CASE k # w
    <3>1. slot[s][k] # NoBatch
      BY <1>10, <2>3
    <3>2. \/ k \in bm[s]
          \/ \E t \in Scheds : pc[t] = "mig_slot" /\ thief[t].victim = s /\ thief[t].w = k
      BY <1>1, <1>13, <3>1 DEF FoundAt
    <3> QED BY <1>9, <2>1, <3>2
  <2> QED BY <2>2, <2>3
<1> QED BY <1>13, <1>16, <1>17, <1>18, <1>21, <1>22, <1>23, OwnerStep

(* A pending batch in use is replaced, in either way. *)
LEMMA ReplaceStep ==
  ASSUME IInv, NEW s \in Scheds, NEW procs \in Seq(Procs), procs # << >>, NEW a \in SUBSET Scheds,
         NEW from, ReplacePending(s, procs, a, from), Lands(s, from), HasWork(s), pc[s] \in HomeLabels
  PROVE  IInv'
BY ReplaceHidden, ReplaceShown

(* There is work in the run queue of s. *)
LEMMA WorkSet ==
  ASSUME IInv, NEW s \in Scheds, rqstate' = [rqstate EXCEPT ![s] = TRUE]
  PROVE  HasWork(s)
BY DEF IInv, Types, HasWork

(* push_batch. *)
LEMMA PushStep ==
  ASSUME IInv, NEW s \in Scheds, NEW procs \in Seq(Procs), procs # << >>, NEW from,
         PushBatch(s, procs, from), Lands(s, from), pc[s] \in HomeLabels
  PROVE  IInv'
<1>1. Types /\ BatchesAt(s)
  BY DEF IInv, Kept
<1>2. PICK a \in SUBSET Scheds : a = curb[s].aff
  <2>1. curb[s] \in CurbSet
    BY <1>1 DEF Types
  <2> QED BY <2>1 DEF CurbSet
<1>3. HasWork(s)
  BY WorkSet DEF PushBatch
<1>4. CASE pend[s].on
  <2>1. ReplacePending(s, procs, a, from)
    BY <1>2, <1>4 DEF PushBatch, ReplacePending, HasPending
  <2> QED BY <1>3, <2>1, ReplaceStep
<1>5. CASE ~pend[s].on
  <2>1. bat[pend[s].batch] = CleanBatch /\ Stock(s) # {}
    BY <1>1, <1>5 DEF BatchesAt, StockedAt, PushBatch
  <2>2. Washed(ToWash(s) \cup {pend[s].batch}) = Washed(ToWash(s))
    BY <2>1, WashedToo
  <2>3. /\ pend' = [pend EXCEPT ![s] = [batch |-> Allocated(s), on |-> TRUE, aff |-> a]]
        /\ free' = [free EXCEPT ![s] = (Stock(s) \ {Allocated(s)}) \cup {pend[s].batch}]
        /\ laundry' = [laundry EXCEPT ![s] = @ \ ToWash(s)]
        /\ bat' = [Washed(ToWash(s)) EXCEPT ![Allocated(s)].procs = procs]
        /\ Goto(s, from) /\ UNCHANGED <<rq, slot, job, ret>>
    BY <1>2, <1>5 DEF PushBatch, HasPending
  <2>4. SwapPending(s, procs, TRUE, a)
    BY <2>1, <2>2, <2>3 DEF SwapPending
  <2> QED BY <1>3, <2>3, <2>4, SwapStep DEF HasWork
<1> QED BY <1>4, <1>5

(* The current batch is split, or saved. *)
LEMMA SaveStep ==
  ASSUME IInv, NEW s \in Scheds, SplitCurb(s) \/ SaveCurb(s)
  PROVE  IInv'
<1>1. Types /\ ControlAt(s)
  BY DEF IInv, Control
<1>2. PICK c \in CurbSet : c = curb[s]
  BY <1>1 DEF Types
<1>3. c.procs \in Seq(Procs) /\ Len(c.procs) \in Nat
  BY LenProperties DEF CurbSet
<1>4. /\ UNCHANGED <<cur, affinity, calls, mail, head, bm, mwstate, thief>>
      /\ pc[s] \in {"sched", "save"} /\ pc[s] \in HomeLabels
  BY DEF SplitCurb, SaveCurb, AtTop, HomeLabels
<1>5. cur'[s] = NotProcess
  BY <1>1, <1>4 DEF ControlAt, Home, AddLabels
<1>6. ASSUME NEW q \in Seq(Procs), curb' = [curb EXCEPT ![s].procs = q], NEW l \in {"save", "pick"},
             l = "save" => q # << >>, l = "pick" => q = << >>
      PROVE  Lands(s, l)
  <2>1. curb \in [Scheds -> CurbSet]
    BY <1>1 DEF Types
  <2>2. curb' = [curb EXCEPT ![s] = [c EXCEPT !.procs = q]]
    BY <1>2, <1>6, <2>1
  <2>3. [c EXCEPT !.procs = q] \in CurbSet /\ [c EXCEPT !.procs = q].procs = q
    BY CurbUpdate
  <2>4. /\ curb' \in [Scheds -> CurbSet] /\ curb'[s].procs = q
        /\ \A t \in Scheds : t # s => curb'[t] = curb[t]
    BY <2>1, <2>2, <2>3
  <2>5. /\ cur' \in [Scheds -> Procs \cup {NotProcess}] /\ cur' = cur
        /\ affinity' \in [Procs -> SUBSET Scheds] /\ mail' \in [Scheds -> SUBSET Procs]
    BY <1>1, <1>4 DEF Types
  <2>6. l \in HomeLabels /\ l # "user"
    BY DEF HomeLabels
  <2> QED BY <1>4, <1>5, <1>6, <2>4, <2>5, <2>6 DEF Lands
<1>7. CASE SplitCurb(s)
  <2>1. /\ PushBatch(s, <<Head(c.procs)>>, "save") /\ Len(c.procs) > 1
        /\ curb' = [curb EXCEPT ![s].procs = Tail(@)]
    BY <1>2, <1>7 DEF SplitCurb, Splits
  <2>2. c.procs # << >>
    BY <1>3, <2>1, EmptySeq
  <2>3. Head(c.procs) \in Procs /\ Tail(c.procs) \in Seq(Procs) /\ Tail(c.procs) # << >>
    BY <1>3, <2>1, <2>2, TailOnce
  <2>4. curb' = [curb EXCEPT ![s].procs = Tail(c.procs)]
    BY <1>2, <2>1
  <2>5. Lands(s, "save")
    BY <1>6, <2>3, <2>4
  <2>6. <<Head(c.procs)>> \in Seq(Procs) /\ <<Head(c.procs)>> # << >>
    BY <2>3
  <2> QED BY <1>4, <2>1, <2>5, <2>6, PushStep
<1>8. CASE SaveCurb(s)
  <2>1. PushBatch(s, c.procs, "pick") /\ curb' = [curb EXCEPT ![s].procs = << >>]
    BY <1>2, <1>8 DEF SaveCurb
  <2>2. c.procs # << >>
    BY <1>1, <1>2, <1>8 DEF SaveCurb, ControlAt, Home, AddLabels
  <2>3. Lands(s, "pick")
    <3>1. << >> \in Seq(Procs)
      OBVIOUS
    <3> QED BY <1>6, <2>1, <3>1
  <2> QED BY <1>3, <1>4, <2>1, <2>2, <2>3, PushStep
<1> QED BY <1>7, <1>8

-----------------------------------------------------------------------------
(***************************************************************************)
(* enqueue_process.                                                        *)
(***************************************************************************)
(* A process is added to the pending batch. *)
AddPending(s, p, a) ==
  /\ pend' = [pend EXCEPT ![s].on = TRUE, ![s].aff = a]
  /\ bat' = [bat EXCEPT ![pend[s].batch].procs = Append(@, p)]
  /\ UNCHANGED <<free, laundry, job, ret, rq, slot>>

(* The pending batch is the scheduler's own: the invariant is preserved. *)
LEMMA AddPendingStep ==
  ASSUME IInv, NEW s \in Scheds, NEW p \in Procs, NEW a \in SUBSET Scheds, NEW from,
         AddPending(s, p, a), Lands(s, from), Goto(s, from), HasWork(s), pc[s] \in HomeLabels
  PROVE  IInv'
<1>1. Types /\ ControlAt(s) /\ BatchesAt(s) /\ FoundAt(s)
  BY DEF IInv, Control, Kept, Found
<1>2. PICK o \in Batches : o = pend[s].batch /\ o \in Own(s)
  BY <1>1, OwnFacts DEF BatchesAt, OwnedAt
<1>3. bat[o].procs \in Seq(Procs) /\ bat[o].win = 0 /\ ~bat[o].dirty
  <2>1. CleanBatch.procs \in Seq(Procs)
    BY DEF CleanBatch
  <2>2. /\ bat[o].win = 0 /\ ~bat[o].dirty
        /\ bat[o] = CleanBatch \/ Good(bat[o].procs)
    BY <1>1, <1>2 DEF BatchesAt, StockedAt
  <2> QED BY <2>1, <2>2 DEF Good
<1>4. PICK q \in Seq(Procs) : q = Append(bat[o].procs, p) /\ q # << >>
  BY <1>3, AppendOnce
<1>5. UNCHANGED <<free, laundry, job, ret, rq, slot, head, bm, mwstate, thief>>
  BY DEF AddPending, Lands
<1>6. /\ bat' \in [Batches -> BatSet] /\ bat'[o].procs = q /\ bat'[o].win = 0 /\ ~bat'[o].dirty
      /\ \A c \in Batches : c # o => bat'[c] = bat[c]
  <2>1. bat \in [Batches -> BatSet] /\ bat[o] \in BatSet
    BY <1>1 DEF Types
  <2>2. bat' = [bat EXCEPT ![o] = [bat[o] EXCEPT !.procs = q]]
    BY <1>2, <1>4, <2>1 DEF AddPending
  <2>3. PICK r \in BatSet : r = bat[o] /\ r.win = 0 /\ ~r.dirty
    BY <1>3, <2>1
  <2>4. q \in Seq(Procs \cup {NotProcess})
    OBVIOUS
  <2>5. PICK y : y = [r EXCEPT !.procs = q]
    OBVIOUS
  <2>6. y \in BatSet /\ y.procs = q /\ y.win = r.win /\ y.dirty = r.dirty
    BY <2>4, <2>5 DEF BatSet
  <2>7. bat' = [bat EXCEPT ![o] = y]
    BY <2>2, <2>3, <2>5
  <2> QED BY <2>1, <2>3, <2>6, <2>7
<1>7. /\ pend' \in [Scheds -> PendSet] /\ pend'[s].batch = o /\ pend'[s].on
      /\ \A t \in Scheds : t # s => pend'[t] = pend[t]
  <2>1. pend \in [Scheds -> PendSet] /\ pend[s] \in PendSet
    BY <1>1 DEF Types
  <2>2. pend' = [pend EXCEPT ![s] = [pend[s] EXCEPT !.on = TRUE, !.aff = a]]
    BY <2>1 DEF AddPending
  <2>3. PICK r \in PendSet : r = pend[s]
    BY <2>1
  <2>4. PICK y : y = [r EXCEPT !.on = TRUE, !.aff = a]
    OBVIOUS
  <2>5. y \in PendSet /\ y.batch = r.batch /\ y.on
    BY <2>4 DEF PendSet
  <2>6. pend' = [pend EXCEPT ![s] = y]
    BY <2>2, <2>3, <2>4
  <2> QED BY <1>2, <2>1, <2>3, <2>5, <2>6
<1>8. /\ cur' \in [Scheds -> Procs \cup {NotProcess}] /\ curb' \in [Scheds -> CurbSet]
      /\ affinity' \in [Procs -> SUBSET Scheds] /\ mail' \in [Scheds -> SUBSET Procs]
      /\ \A t \in Scheds : t # s => cur'[t] = cur[t] /\ curb'[t] = curb[t]
      /\ from \in HomeLabels /\ (cur'[s] # NotProcess <=> from = "user")
      /\ from = "save" => curb'[s].procs # << >>
      /\ from = "pick" => curb'[s].procs = << >>
  BY DEF Lands
<1>9. /\ pc' \in [Scheds -> Labels] /\ pc'[s] = from
      /\ \A t \in Scheds : t # s => pc'[t] = pc[t]
  BY <1>1, <1>8, GotoPc, HomeKinds
<1>10. Types'
  BY <1>1, <1>5, <1>6, <1>7, <1>8, <1>9 DEF Types, HasWork
<1>11. /\ from \notin OwnLabels \cup AddLabels \cup ThiefLabels \cup LookLabels
       /\ from \notin {"migrate", "add_state", "pull_clear", "mig_bit", "mig_slot", "steal_load", "steal_mark"}
       /\ from \notin {"sched", "user", "save"} => from = "pick"
       /\ pc[s] \notin OwnLabels \cup AddLabels \cup ThiefLabels \cup LookLabels
       /\ pc[s] \notin {"migrate", "add_state", "pull_clear", "mig_bit", "mig_slot", "steal_load", "steal_mark"}
  BY <1>8, HomeKinds
<1>12. ControlAt(s)'
  <2>1. Home(s)' = from /\ job[s] = NoBatch
    BY <1>1, <1>9, <1>11 DEF Home, ControlAt
  <2> QED BY <1>5, <1>8, <1>9, <1>11, <2>1 DEF ControlAt, HasWork
<1>13. OwnerOnly(s)
  <2>1. \A t \in Scheds : t # s => SameAt(t)
    BY <1>5, <1>7, <1>8, <1>9 DEF SameAt, HasWork
  <2> QED BY <1>2, <1>6, <1>9, <1>11, <2>1 DEF OwnerOnly
<1>14. /\ Q(s)' = Q(s) /\ Q(s) \subseteq Batches /\ o \notin Q(s) \cup laundry[s] \cup free[s]
       /\ free[s] \subseteq Batches
  <2>1. Q(s)' = Q(s)
    BY <1>5 DEF Q
  <2> QED BY <1>1, <1>2, <2>1, OwnFacts DEF BatchesAt, OwnedAt, ApartAt
<1>15. \A c \in Batches : /\ ~(Adding(s, c)') /\ ~Adding(s, c)
                          /\ c # o => (InSlot(s, c)' <=> InSlot(s, c))
  BY <1>5, <1>6, <1>9, <1>11 DEF Adding, InSlot
<1>16. HeldKept(s)
  <2> SUFFICES ASSUME NEW t \in Scheds, NEW c \in Batches, Holds(t, c), c \in Own(s)
               PROVE  /\ bat'[c] = bat[c] /\ ~(InSlot(s, c)')
                      /\ c \in Q(s)' \cup laundry'[s]
    BY DEF HeldKept
  <2>1. ~InSlot(s, c) /\ c \in Q(s) \cup laundry[s] /\ c # o
    BY <1>2, <1>15, HeldOfOwner
  <2> QED BY <1>5, <1>6, <1>14, <1>15, <2>1
<1>17. BatchesAt(s)'
  <2>1. OwnedAt(s)' /\ ApartAt(s)'
    BY <1>1, <1>2, <1>5, <1>7, <1>9, <1>11, <1>14 DEF BatchesAt, OwnedAt, ApartAt
  <2>2. StockedAt(s)'
    <3>1. \A c \in free'[s] : bat'[c] = CleanBatch
      BY <1>1, <1>5, <1>6, <1>14 DEF BatchesAt, StockedAt
    <3>2. Good(bat'[o].procs)
      BY <1>4, <1>6 DEF Good
    <3> QED BY <1>6, <1>7, <3>1, <3>2 DEF StockedAt
  <2>3. LinedAt(s)'
    BY <1>1, <1>6, <1>9, <1>11, <1>14, <1>15 DEF BatchesAt, LinedAt
  <2>4. ShownAt(s)'
    <3> SUFFICES ASSUME NEW k \in Slots, NEW c \in Batches, slot'[s][k] = c
                 PROVE  (c \in Q(s)') /\ bat'[c].win = k /\ bat'[c].dirty
      BY DEF ShownAt
    <3>1. c \in Q(s) /\ bat[c].win = k /\ bat[c].dirty
      BY <1>1, <1>5, <1>15 DEF BatchesAt, ShownAt
    <3> QED BY <1>6, <1>14, <3>1
  <2> QED BY <2>1, <2>2, <2>3, <2>4 DEF BatchesAt
<1>18. FoundAt(s)'
  <2>1. \A u \in Scheds : pc[u] = "mig_slot" => pc'[u] = "mig_slot" /\ thief'[u] = thief[u]
    BY <1>5, <1>9, <1>11
  <2> QED BY <1>1, <1>5, <1>11, <2>1 DEF FoundAt
<1> QED BY <1>10, <1>11, <1>12, <1>13, <1>16, <1>17, <1>18, OwnerStep

(* enqueue_process of p on s, which then goes to `from'. *)
LEMMA EnqueueStep ==
  ASSUME IInv, NEW s \in Scheds, NEW p \in Procs, NEW a \in SUBSET Scheds,
         NEW from \in {"user", "sched"}, NEW delivered \in [Scheds -> SUBSET Procs],
         EnqueueProcess(s, p, a, from, delivered), pc[s] \in {"user", "sched"},
         affinity' \in [Procs -> SUBSET Scheds], cur' \in [Scheds -> Procs \cup {NotProcess}],
         cur'[s] # NotProcess <=> from = "user", \A t \in Scheds : t # s => cur'[t] = cur[t],
         UNCHANGED <<head, bm, mwstate, thief>>
  PROVE  IInv'
<1>1. Types /\ ControlAt(s) /\ BatchesAt(s)
  BY DEF IInv, Control, Kept
<1>2. /\ from \in HomeLabels /\ pc[s] \in HomeLabels /\ from # "save" /\ from # "pick"
  BY DEF HomeLabels
<1>3. /\ from \notin OwnLabels \cup AddLabels \cup ThiefLabels \cup LookLabels
      /\ from \notin {"migrate", "add_state", "pull_clear", "mig_bit", "mig_slot", "steal_load", "steal_mark"}
      /\ from \in Labels
      /\ pc[s] \notin OwnLabels \cup AddLabels \cup ThiefLabels \cup LookLabels
      /\ pc[s] \notin {"migrate", "add_state", "pull_clear", "mig_bit", "mig_slot", "steal_load", "steal_mark"}
  BY <1>2, HomeKinds
<1>4. ASSUME Goto(s, from), curb' \in [Scheds -> CurbSet], mail' \in [Scheds -> SUBSET Procs],
             \A t \in Scheds : t # s => curb'[t] = curb[t],
             UNCHANGED <<pend, rq, rqstate, free, laundry, job, ret, bat, slot>>
      PROVE  IInv'
  <2>1. /\ pc' \in [Scheds -> Labels] /\ pc'[s] = from
    BY <1>1, <1>3, <1>4, GotoPc
  <2>2. Types'
    BY <1>1, <1>4, <2>1 DEF Types
  <2>3. ControlAt(s)'
    <3>1. Home(s)' = from /\ job[s] = NoBatch
      BY <1>1, <1>3, <2>1 DEF Home, ControlAt
    <3> QED BY <1>1, <1>2, <1>3, <1>4, <2>1, <3>1 DEF ControlAt
  <2> QED BY <1>3, <1>4, <2>2, <2>3, QuietOwn
<1>5. CASE ToCurb(s, p, a) /\ Goto(s, from) /\ mail' = delivered
  <2>1. /\ UNCHANGED <<pend, rq, rqstate, free, laundry, job, ret, bat, slot>>
        /\ curb' = [curb EXCEPT ![s].procs = Append(@, p)]
    BY <1>5 DEF ToCurb, CurbWith, queueVars
  <2>2. curb \in [Scheds -> CurbSet] /\ curb[s] \in CurbSet
    BY <1>1 DEF Types
  <2>3. PICK q \in Seq(Procs) : q = Append(curb[s].procs, p)
    <3>1. curb[s].procs \in Seq(Procs)
      BY <2>2 DEF CurbSet
    <3> QED BY <3>1, AppendOnce
  <2>4. curb' = [curb EXCEPT ![s] = [curb[s] EXCEPT !.procs = q]]
    BY <2>1, <2>2, <2>3
  <2>5. [curb[s] EXCEPT !.procs = q] \in CurbSet
    BY <2>2, CurbUpdate
  <2>6. curb' \in [Scheds -> CurbSet] /\ \A t \in Scheds : t # s => curb'[t] = curb[t]
    BY <2>2, <2>4, <2>5
  <2> QED BY <1>4, <1>5, <2>1, <2>6
<1>6. CASE ToPending(s, p, a, from) /\ mail' = delivered /\ UNCHANGED curb
  <2>1. Lands(s, from)
    <3>1. curb' \in [Scheds -> CurbSet] /\ curb' = curb
      BY <1>1, <1>6 DEF Types
    <3> QED BY <1>2, <1>6, <3>1 DEF Lands
  <2>2. HasWork(s)
    BY <1>6, WorkSet DEF ToPending
  <2>3. CASE SameBatch(s, a)
    <3>1. AddPending(s, p, a) /\ Goto(s, from)
      BY <1>6, <2>3 DEF ToPending, AddPending
    <3> QED BY <1>2, <2>1, <2>2, <3>1, AddPendingStep
  <2>4. CASE ~SameBatch(s, a)
    <3>1. pend[s].on /\ Stock(s) # {}
      BY <1>1, <1>6, <2>4 DEF BatchesAt, StockedAt, SameBatch, ToPending
    <3>2. PICK b \in Batches : b = Allocated(s)
      BY <3>1, WashedToo
    <3>3. PICK f \in [Batches -> BatSet] : f = Washed(ToWash(s)) /\ f[b] = CleanBatch
      BY <3>1, <3>2, WashedToo
    <3>4. /\ pend' = [pend EXCEPT ![s] = [batch |-> b, on |-> TRUE, aff |-> a]]
          /\ free' = [free EXCEPT ![s] = Stock(s) \ {b}]
          /\ laundry' = [laundry EXCEPT ![s] = @ \ ToWash(s)]
          /\ AddToRunqueue(s, pend[s].batch, pend[s].aff, [f EXCEPT ![b].procs = Append(@, p)], from)
      BY <1>6, <2>4, <3>2, <3>3 DEF ToPending
    <3>5. [f EXCEPT ![b].procs = Append(@, p)] = [f EXCEPT ![b].procs = <<p>>]
      <4>1. f[b].procs = << >> /\ Append(<< >>, p) = <<p>>
        BY <3>3 DEF CleanBatch
      <4> QED BY <4>1
    <3>6. ReplacePending(s, <<p>>, a, from)
      BY <3>1, <3>2, <3>3, <3>4, <3>5 DEF ReplacePending
    <3>7. <<p>> \in Seq(Procs) /\ <<p>> # << >>
      OBVIOUS
    <3> QED BY <1>2, <2>1, <2>2, <3>6, <3>7, ReplaceStep
  <2> QED BY <2>3, <2>4
<1>7. CASE /\ \E u \in a : mail' = [delivered EXCEPT ![u] = @ \cup {p}]
           /\ Goto(s, from) /\ UNCHANGED <<curb, queueVars, bat, slot>>
  <2>1. UNCHANGED <<curb, pend, rq, rqstate, free, laundry, job, ret, bat, slot>>
    BY <1>7 DEF queueVars
  <2>2. mail' \in [Scheds -> SUBSET Procs]
    BY <1>7
  <2>3. curb' \in [Scheds -> CurbSet] /\ curb' = curb
    BY <1>1, <2>1 DEF Types
  <2> QED BY <1>4, <1>7, <2>1, <2>2, <2>3
<1> QED BY <1>5, <1>6, <1>7 DEF EnqueueProcess

(* The running process wakes another one or sets its affinity, and mail is *)
(* taken.                                                                  *)
LEMMA CallStep ==
  ASSUME IInv, NEW s \in Scheds, NEW p \in Procs, NEW a \in SUBSET Scheds,
         Wake(s, p) \/ TakeMail(s, p) \/ SetAff(s, a)
  PROVE  IInv'
<1>1. Types /\ ControlAt(s)
  BY DEF IInv, Control
<1>2. /\ affinity \in [Procs -> SUBSET Scheds] /\ mail \in [Scheds -> SUBSET Procs]
      /\ cur \in [Scheds -> Procs \cup {NotProcess}] /\ affinity[p] \in SUBSET Scheds
      /\ pc[s] = "user" => cur[s] # NotProcess /\ cur[s] \in Procs
      /\ pc[s] = "sched" => cur[s] = NotProcess
  BY <1>1 DEF Types, ControlAt, Home, AddLabels
<1>3. CASE Wake(s, p)
  <2>1. /\ pc[s] = "user" /\ EnqueueProcess(s, p, affinity[p], "user", mail)
        /\ UNCHANGED <<cur, affinity, head, bm, mwstate, thief>>
    BY <1>3 DEF Wake
  <2>2. PICK d \in SUBSET Scheds : d = affinity[p]
    BY <1>2
  <2>3. EnqueueProcess(s, p, d, "user", mail)
    BY <2>1, <2>2
  <2> QED BY <1>2, <2>1, <2>3, EnqueueStep
<1>4. CASE TakeMail(s, p)
  <2>1. /\ pc[s] = "sched" /\ EnqueueProcess(s, p, affinity[p], "sched", [mail EXCEPT ![s] = @ \ {p}])
        /\ UNCHANGED <<cur, affinity, head, bm, mwstate, thief>>
    BY <1>4 DEF TakeMail
  <2>2. PICK d \in SUBSET Scheds : d = affinity[p]
    BY <1>2
  <2>3. PICK m \in [Scheds -> SUBSET Procs] : m = [mail EXCEPT ![s] = @ \ {p}]
    BY <1>2
  <2>4. EnqueueProcess(s, p, d, "sched", m)
    BY <2>1, <2>2, <2>3
  <2> QED BY <1>2, <2>1, <2>4, EnqueueStep
<1>5. CASE SetAff(s, a)
  <2>1. /\ pc[s] = "user" /\ EnqueueProcess(s, cur[s], a, "sched", mail)
        /\ cur' = [cur EXCEPT ![s] = NotProcess] /\ affinity' = [affinity EXCEPT ![cur[s]] = a]
        /\ UNCHANGED <<head, bm, mwstate, thief>>
    BY <1>5 DEF SetAff, Leave
  <2>2. PICK r \in Procs : r = cur[s]
    BY <1>2, <2>1
  <2>3. /\ affinity' \in [Procs -> SUBSET Scheds] /\ cur' \in [Scheds -> Procs \cup {NotProcess}]
        /\ cur'[s] = NotProcess /\ \A t \in Scheds : t # s => cur'[t] = cur[t]
    BY <1>2, <2>1, <2>2
  <2>4. EnqueueProcess(s, r, a, "sched", mail)
    BY <2>1, <2>2
  <2> QED BY <1>2, <2>1, <2>3, <2>4, EnqueueStep
<1> QED BY <1>3, <1>4, <1>5

-----------------------------------------------------------------------------
(***************************************************************************)
(* The invariant.                                                          *)
(***************************************************************************)
(* The program starts with nothing in the queues. *)
LEMMA InitIInv == Init => IInv
<1> SUFFICES ASSUME Init PROVE IInv
  OBVIOUS
<1>1. PICK st \in Starts :
        curb = [s \in Scheds |-> IF s = st[1] THEN [NoCurb EXCEPT !.procs = <<st[2]>>] ELSE NoCurb]
  BY DEF Init
<1>2. st \in Scheds \X Procs /\ 1 \in 1..PoolSize /\ 0 \in 0..Size /\ Ppd \in Int
  BY MigrateAssumption
<1>3. curb \in [Scheds -> CurbSet]
  <2>1. << >> \in Seq(Procs) /\ <<st[2]>> \in Seq(Procs) /\ {} \in SUBSET Scheds
    BY <1>2
  <2>2. NoCurb \in CurbSet
    BY <1>2, <2>1 DEF NoCurb, CurbSet
  <2>3. [NoCurb EXCEPT !.procs = <<st[2]>>] \in CurbSet
    BY <2>1, <2>2, CurbUpdate
  <2> QED BY <1>1, <2>2, <2>3
<1>4. /\ \A s \in Scheds : <<s, 1>> \in Own(s) /\ <<s, 1>> \in Batches
      /\ \A s \in Scheds : {s} \X (2..PoolSize) \subseteq Own(s) /\ {s} \X (2..PoolSize) \subseteq Batches
      /\ \A s \in Scheds : <<s, 1>> \notin {s} \X (2..PoolSize)
  BY <1>2, MigrateAssumption DEF Own, Batches
<1>5. CleanBatch \in BatSet /\ CleanBatch.win = 0 /\ CleanBatch.dirty = FALSE
  <2>1. << >> \in Seq(Procs \cup {NotProcess})
    OBVIOUS
  <2> QED BY <1>2, <2>1 DEF CleanBatch, BatSet
<1>6. \A s \in Scheds : [batch |-> <<s, 1>>, on |-> FALSE, aff |-> {}] \in PendSet
  BY <1>4 DEF PendSet
<1>7. \A s \in Scheds : NoThief(s) \in ThiefSet
  BY <1>2 DEF NoThief, ThiefSet
<1>8. Types
  <2>1. "sched" \in Labels /\ "sched" \in HomeLabels
    BY DEF Labels, HomeLabels
  <2>2. /\ pend \in [Scheds -> PendSet] /\ bat \in [Batches -> BatSet] /\ thief \in [Scheds -> ThiefSet]
        /\ free \in [Scheds -> SUBSET Batches] /\ head \in [Scheds -> 0..Size]
    BY <1>2, <1>4, <1>5, <1>6, <1>7 DEF Init
  <2>3. /\ pc \in [Scheds -> Labels] /\ cur \in [Scheds -> Procs \cup {NotProcess}]
        /\ affinity \in [Procs -> SUBSET Scheds] /\ mail \in [Scheds -> SUBSET Procs]
        /\ mwstate \in [Scheds -> BOOLEAN] /\ rqstate \in [Scheds -> BOOLEAN]
    BY <2>1 DEF Init
  <2>4. /\ rq \in [Scheds -> Seq(Batches)] /\ laundry \in [Scheds -> SUBSET Batches]
        /\ bm \in [Scheds -> SUBSET Slots] /\ ret \in [Scheds -> HomeLabels]
    BY <2>1 DEF Init
  <2>5. /\ slot \in [Scheds -> [Slots -> Batches \cup {NoBatch}]]
        /\ job \in [Scheds -> Batches \cup {NoBatch}]
    BY DEF Init
  <2> QED BY <1>3, <2>2, <2>3, <2>4, <2>5 DEF Types
<1>9. \A s \in Scheds : /\ pc[s] = "sched" /\ pc[s] \notin OwnLabels \cup AddLabels \cup ThiefLabels
                        /\ pc[s] \notin LookLabels
  BY DEF Init, OwnLabels, AddLabels, ThiefLabels, LookLabels
<1>10. Control
  BY <1>9 DEF Init, Control, ControlAt, Home
<1>11. ASSUME NEW s \in Scheds PROVE BatchesAt(s)
  <2>1. rq[s] = << >> /\ Q(s) = {} /\ Once(rq[s])
    <3>1. << >> \in Seq(Batches) /\ rq[s] = << >>
      BY DEF Init
    <3>2. ToSet(rq[s]) = {}
      BY <3>1, InSeq
    <3>3. Once(rq[s])
      BY <3>1 DEF Once
    <3> QED BY <3>1, <3>2, <3>3 DEF Q
  <2>2. /\ free[s] = {s} \X (2..PoolSize) /\ laundry[s] = {} /\ pend[s].batch = <<s, 1>>
        /\ ~pend[s].on /\ pend[s].aff = {} /\ \A b \in Batches : bat[b] = CleanBatch
        /\ \A w \in Slots : slot[s][w] = NoBatch
    BY DEF Init
  <2>3. OwnedAt(s) /\ ApartAt(s)
    BY <1>4, <1>9, <2>1, <2>2 DEF OwnedAt, ApartAt
  <2>4. StockedAt(s)
    BY <1>4, <1>5, <2>2 DEF StockedAt
  <2>5. LinedAt(s)
    BY <1>9, <2>1 DEF LinedAt
  <2>6. ShownAt(s)
    BY <2>2, OwnFacts DEF ShownAt
  <2> QED BY <2>3, <2>4, <2>5, <2>6 DEF BatchesAt
<1>12. Found
  BY DEF Init, Found, FoundAt
<1>13. Stolen
  BY <1>9 DEF Stolen, Holds
<1> QED BY <1>8, <1>10, <1>11, <1>12, <1>13 DEF IInv, Kept

(* Every step preserves the invariant. *)
LEMMA NextIInv == IInv /\ Next => IInv'
<1> SUFFICES ASSUME IInv, Next PROVE IInv'
  OBVIOUS
<1>1. PICK s \in Scheds : \/ Kernel(s) \/ Pause(s) \/ Block(s)
                          \/ (\E p \in Procs : Wake(s, p)) \/ (\E a \in SUBSET Scheds : SetAff(s, a))
  BY DEF Next
<1>2. CASE Pause(s) \/ Block(s)
  BY <1>2, LeaveStep
<1>3. CASE \E p \in Procs : Wake(s, p) \/ TakeMail(s, p)
  <2>1. {} \in SUBSET Scheds
    OBVIOUS
  <2> QED BY <1>3, <2>1, CallStep
<1>4. CASE \E a \in SUBSET Scheds : SetAff(s, a)
  <2>1. cur[s] \in Procs
    BY <1>4 DEF SetAff, IInv, Types, Control, ControlAt, Home, AddLabels
  <2> QED BY <1>4, <2>1, CallStep
<1>5. CASE AddState(s)
  BY <1>5, AddStateStep
<1>6. CASE AddMw(s)
  BY <1>6, AddMwStep
<1>7. CASE NextOfCurb(s) \/ ContinueCurb(s)
  BY <1>7, CurbStep
<1>8. CASE SplitCurb(s) \/ SaveCurb(s)
  BY <1>8, SaveStep
<1>9. CASE PullOwn(s)
  BY <1>9, PullOwnStep
<1>10. CASE PullVisible(s)
  BY <1>10, PullVisibleStep
<1>11. CASE PullClear(s)
  BY <1>11, PullClearStep
<1>12. CASE PullPending(s)
  BY <1>12, PullPendingStep
<1>13. CASE PickNone(s)
  BY <1>13, PickNoneStep
<1>14. CASE StartMigrate(s) \/ (\E v \in Scheds : NoWork(s, v) \/ TryMigrate(s, v))
  BY <1>14, LookStep
<1>15. CASE MigrateBit(s)
  BY <1>15, MigrateBitStep
<1>16. CASE MigrateSlot(s)
  BY <1>16, MigrateSlotStep
<1>17. CASE MigrateEnd(s) \/ MigrateMw(s)
  BY <1>17, MigratedStep
<1>18. CASE StealLoad(s)
  BY <1>18, StealLoadStep
<1>19. CASE StealMark(s)
  BY <1>19, StealMarkStep
<1>20. CASE NoWorkAnywhere(s)
  BY <1>20, NoWorkAnywhereStep
<1> QED BY <1>1, <1>2, <1>3, <1>4, <1>5, <1>6, <1>7, <1>8, <1>9, <1>10, <1>11, <1>12, <1>13, <1>14,
           <1>15, <1>16, <1>17, <1>18, <1>19, <1>20 DEF Kernel

(* And so does a step that changes nothing. *)
LEMMA StutterIInv == IInv /\ UNCHANGED vars => IInv'
<1> SUFFICES ASSUME IInv, UNCHANGED vars PROVE IInv'
  OBVIOUS
<1>1. UNCHANGED <<pc, cur, affinity, mail, curb, pend, rq, rqstate, free, laundry, job, ret, bat, slot,
                  head, bm, mwstate, thief>>
  BY DEF vars, schedVars, queueVars, windowVars
<1>2. Types'
  BY <1>1 DEF IInv, Types
<1>3. Control' /\ Found'
  BY <1>1 DEF IInv, Control, ControlAt, Home, Found, FoundAt
<1>4. Kept'
  BY <1>1 DEF IInv, Kept, BatchesAt, OwnedAt, ApartAt, StockedAt, LinedAt, ShownAt, Q, InSlot, Adding
<1>5. Stolen'
  BY <1>1 DEF IInv, Stolen, Holds, StolenBy, Q, InSlot, Adding
<1> QED BY <1>2, <1>3, <1>4, <1>5 DEF IInv

(* The inductive invariant holds in every state. *)
THEOREM Invariance == Spec => []IInv
<1>1. Init => IInv
  BY InitIInv
<1>2. IInv /\ [Next]_vars => IInv'
  BY NextIInv, StutterIInv
<1> QED BY <1>1, <1>2, PTL DEF Spec

(* Every variable has its type, a process runs where a scheduler is in     *)
(* user code, and no list of a scheduler (run queue, free list, laundry,   *)
(* pending batch) ever holds a batch another scheduler has allocated.      *)
THEOREM TypeCorrect == Spec => []TypeOK
<1>1. IInv => TypeOK
  <2> SUFFICES ASSUME IInv PROVE TypeOK
    OBVIOUS
  <2>1. ASSUME NEW s \in Scheds
        PROVE  /\ pc[s] \in {"user", "steal_mark"} => cur[s] # NotProcess
               /\ Q(s) \cup free[s] \cup laundry[s] \cup {pend[s].batch} \subseteq Own(s)
               /\ slot[s] \in [Slots -> Batches \cup {NoBatch}]
               /\ head[s] \in 0..Size /\ bm[s] \subseteq Slots
               /\ job[s] \in Batches \cup {NoBatch}
    <3>1. Types /\ ControlAt(s) /\ OwnedAt(s)
      BY DEF IInv, Control, Kept, BatchesAt
    <3>2. pc[s] \in {"user", "steal_mark"} => cur[s] # NotProcess
      BY <3>1 DEF ControlAt, Home, AddLabels
    <3>3. Q(s) \cup free[s] \cup laundry[s] \cup {pend[s].batch} \subseteq Own(s)
      BY <3>1 DEF OwnedAt
    <3> QED BY <3>1, <3>2, <3>3 DEF Types
  <2>2. /\ cur \in [Scheds -> Procs \cup {NotProcess}]
        /\ affinity \in [Procs -> SUBSET Scheds] /\ mail \in [Scheds -> SUBSET Procs]
    BY DEF IInv, Types
  <2> QED BY <2>1, <2>2 DEF TypeOK, Q, Own
<1> QED BY <1>1, Invariance, PTL

(* The assertions about batches (clean_batch in release_clean_batch and in *)
(* the loading of a batch of its own, dirty_batch of one of a victim,      *)
(* !empty_batch) never fail.                                               *)
THEOREM AssertionsHold == Spec => []BatchesAsAsserted
<1>1. IInv => BatchesAsAsserted
  <2> SUFFICES ASSUME IInv, NEW s \in Scheds
               PROVE  /\ \A b \in LiveBatches(s) : bat[b].procs # << >> /\ ~InBatch(NotProcess, b)
                      /\ \A b \in ToSet(rq[s]) : bat[b].win = 0 => ~bat[b].dirty
                      /\ ~bat[pend[s].batch].dirty
                      /\ pc[s] = "steal_load" => bat[job[s]].dirty
                      /\ \A b \in free[s] : ~bat[b].dirty /\ bat[b].procs = << >>
    BY DEF BatchesAsAsserted
  <2>1. Types /\ ControlAt(s) /\ BatchesAt(s)
    BY DEF IInv, Control, Kept
  <2>2. ASSUME NEW b, Good(bat[b].procs)
        PROVE  bat[b].procs # << >> /\ ~InBatch(NotProcess, b)
    <3>1. bat[b].procs \in Seq(Procs) /\ bat[b].procs # << >>
      BY <2>2 DEF Good
    <3>2. \A i \in DOMAIN bat[b].procs : bat[b].procs[i] \in Procs
      BY <3>1
    <3> QED BY <3>1, <3>2, MigrateAssumption DEF InBatch
  <2>3. ASSUME NEW b \in LiveBatches(s) PROVE Good(bat[b].procs)
    <3>1. CASE b \in ToSet(rq[s]) /\ InSlot(s, b)
      BY <2>1, <3>1 DEF BatchesAt, LinedAt, Q
    <3>2. CASE pend[s].on /\ b = pend[s].batch
      BY <2>1, <3>2 DEF BatchesAt, StockedAt
    <3>3. CASE JobLive(s) /\ b = job[s]
      <4>1. job[s] # NoBatch /\ job[s] \in Batches /\ pc[s] \in OwnLabels \cup ThiefLabels
        <5>0. pc[s] \in {"add_state", "add_mw"} => job[s] # NoBatch
          BY <2>1 DEF ControlAt, OwnLabels, AddLabels
        <5>1. job[s] # NoBatch
          BY <3>3, <5>0 DEF JobLive
        <5> QED BY <2>1, <5>1 DEF Types, ControlAt
      <4>2. CASE pc[s] \in AddLabels
        <5>1. InSlot(s, job[s])
          BY <3>3, <4>1, <4>2 DEF JobLive, AddLabels
        <5> QED BY <2>1, <3>3, <4>2, <5>1 DEF BatchesAt, LinedAt
      <4>3. CASE pc[s] = "pull_clear"
        BY <2>1, <3>3, <4>3 DEF BatchesAt, LinedAt
      <4>4. CASE pc[s] \in ThiefLabels
        <5>1. pc[s] # "steal_mark"
          BY <3>3, <4>1, <4>4 DEF JobLive, ThiefLabels
        <5>2. Holds(s, b)
          BY <3>3, <4>1, <4>4 DEF Holds
        <5> QED BY <3>3, <4>1, <5>1, <5>2 DEF IInv, Stolen, StolenBy
      <4> QED BY <4>1, <4>2, <4>3, <4>4 DEF OwnLabels
    <3> QED BY <3>1, <3>2, <3>3 DEF LiveBatches
  <2>4. pc[s] = "steal_load" => bat[job[s]].dirty
    <3> SUFFICES ASSUME pc[s] = "steal_load" PROVE bat[job[s]].dirty
      OBVIOUS
    <3>1. job[s] # NoBatch /\ job[s] \in Batches
      BY <2>1 DEF ControlAt, Types
    <3>2. Holds(s, job[s])
      BY <3>1 DEF Holds, ThiefLabels
    <3> QED BY <3>1, <3>2 DEF IInv, Stolen, StolenBy
  <2>5. \A b \in free[s] : ~bat[b].dirty /\ bat[b].procs = << >>
    BY <2>1 DEF BatchesAt, StockedAt, CleanBatch
  <2>6. /\ \A b \in ToSet(rq[s]) : bat[b].win = 0 => ~bat[b].dirty
        /\ ~bat[pend[s].batch].dirty
    BY <2>1 DEF BatchesAt, LinedAt, StockedAt, Q
  <2> QED BY <2>2, <2>3, <2>4, <2>5, <2>6
<1> QED BY <1>1, Invariance, PTL

(* A batch that migrate_some_work has taken is not reused by its owner     *)
(* before mark_batch_clean: it stays in the owner's run queue or laundry,  *)
(* or is on its way into the queue.                                        *)
THEOREM NoReuseWhileStolen == Spec => []StolenNotReused
<1>1. IInv => StolenNotReused
  <2> SUFFICES ASSUME IInv, NEW s \in Scheds, NEW v \in Scheds,
                      pc[s] \in ThiefLabels, job[s] # NoBatch, v = job[s][1]
               PROVE  /\ s # v
                      /\ job[s] \notin free[v] \cup {pend[v].batch}
                      /\ \/ job[s] \in ToSet(rq[v]) \cup laundry[v]
                         \/ job[v] = job[s] /\ pc[v] \in {"add_state", "add_mw"}
    BY DEF StolenNotReused, ThiefLabels
  <2>1. PICK b \in Batches : b = job[s]
    BY DEF IInv, Types
  <2>2. Holds(s, b) /\ b \in Own(v)
    BY <2>1, OwnFacts DEF Holds
  <2>3. /\ s # v /\ b \notin free[v] /\ b # pend[v].batch
        /\ b \in Q(v) \cup laundry[v] \/ Adding(v, b)
    BY <2>2, HeldOfOwner
  <2> QED BY <2>1, <2>3 DEF Q, Adding, AddLabels
<1> QED BY <1>1, Invariance, PTL

(* A batch in a slot of the migration window can be found by thieves, by   *)
(* its bit in the state word or by one that has just cleared this bit, and *)
(* by its owner, in the run queue.                                         *)
THEOREM VisibleFound == Spec => []VisibleBatchesFound
<1>1. IInv => VisibleBatchesFound
  <2> SUFFICES ASSUME IInv, NEW s \in Scheds, NEW w \in Slots, slot[s][w] # NoBatch
               PROVE  /\ \/ w \in bm[s]
                         \/ pc[s] = "add_state" /\ w = IncrementHead(head[s])
                         \/ \E t \in Scheds : pc[t] = "mig_slot" /\ thief[t].victim = s /\ thief[t].w = w
                      /\ slot[s][w] \in ToSet(rq[s]) \cup {job[s]}
    BY DEF VisibleBatchesFound
  <2>1. Types /\ ShownAt(s) /\ FoundAt(s)
    BY DEF IInv, Kept, BatchesAt, Found
  <2>2. slot[s][w] \in Batches
    BY <2>1 DEF Types
  <2>3. slot[s][w] \in Q(s) \/ Adding(s, slot[s][w])
    BY <2>1, <2>2 DEF ShownAt
  <2> QED BY <2>1, <2>3 DEF FoundAt, Q, Adding
<1> QED BY <1>1, Invariance, PTL
=============================================================================
