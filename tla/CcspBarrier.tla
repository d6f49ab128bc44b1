----------------------------- MODULE CcspBarrier -----------------------------
(***************************************************************************)
(* The lock-free barrier of the CCSP kernel (bar_t): bar_sync, bar_enroll, *)
(* bar_resign and bar_complete, run by several schedulers at once.         *)
(*                                                                         *)
(* Processes that wait are collected in one `head' per scheduler, to which *)
(* only that scheduler adds.  Whoever finds that everybody waits, sets     *)
(* BAR_SYNCING, advances the phase tag and lets go the processes of all    *)
(* heads; those may be back at the barrier before it has finished.  One    *)
(* action is one access to a shared word; a compare-and-swap loop whose    *)
(* result depends on the word alone is one action.                         *)
(***************************************************************************)
EXTENDS CcspSched

CONSTANT Members    \* the processes enrolled at first

ASSUME BarrierAssumption ==
  Members \subseteq Procs /\ Members # {} /\ IsFiniteSet(Procs)

VARIABLES count,     \* state: BAR_COUNT,
          tag,       \* BAR_TAG, two bits
          syncing,   \* and BAR_SYNCING
          heads,     \* the schedulers whose bits are set in bar->heads
          head,      \* head[s]: bar->head[s], Null or the head with its tag
          seen,      \* seen[s]: the tag and flag of the state read by bar_sync
          rel,       \* rel[s]: processes s has taken out of a head to let go
          ret,       \* ret[s]: where bar_complete_head returns to
          ctag,      \* ctag[s]: `tag' of bar_complete
          todo,      \* todo[s]: heads bar_complete has not looked at,
          idx,       \* idx[s]: the one it looks at
          enrolled,  \* history: the enrolled processes
          waiting    \* history: those counted off in the phase that goes on

stateVars == <<count, tag, syncing>>
barVars == <<stateVars, heads, head>>
completeVars == <<ctag, todo, idx>>
localVars == <<seen, rel, ret, completeVars>>
histVars == <<enrolled, waiting>>
vars == <<schedVars, barVars, localVars, histVars>>

Null == [tag |-> 0, procs |-> {}, used |-> FALSE]
Head(t, ps) == [tag |-> t, procs |-> ps, used |-> TRUE]
NextTag(t) == (t + 1) % 4

(* bar_init, and the enrollment of the first members. *)
Init ==
  /\ pc = [s \in Scheds |-> "sched"]
  /\ cur = [s \in Scheds |-> NotProcess]
  /\ queued = [p \in Procs |-> IF p \in Members THEN 1 ELSE 0]
  /\ count = Cardinality(Members) /\ tag = 0 /\ syncing = FALSE
  /\ heads = {}
  /\ head = [s \in Scheds |-> Null]
  /\ seen = [s \in Scheds |-> [tag |-> 0, syncing |-> FALSE]]
  /\ rel = [s \in Scheds |-> {}]
  /\ ret = [s \in Scheds |-> "sched"]
  /\ ctag = [s \in Scheds |-> 0]
  /\ todo = [s \in Scheds |-> {}]
  /\ idx = [s \in Scheds |-> s]
  /\ enrolled = Members /\ waiting = {}

SetState(c, t, f) == count' = c /\ tag' = t /\ syncing' = f
SetHead(s, h) == head' = [head EXCEPT ![s] = h]

(***************************************************************************)
(* bar_complete_head on head h: first give its count back to the state,    *)
(* then make its processes runnable, in any order, and return.             *)
(***************************************************************************)
CompleteHead(s, h, label) ==
  /\ rel' = [rel EXCEPT ![s] = h.procs]
  /\ ret' = [ret EXCEPT ![s] = label]

(* Mutant: the count is not given back. *)
AddNothing(s) ==
  /\ pc[s] = "add_count"
  /\ Goto(s, "release")
  /\ UNCHANGED <<queued, barVars, localVars, histVars>>

AddCount(s) ==
  /\ pc[s] = "add_count"
  /\ count' = count + Cardinality(rel[s])
  /\ Goto(s, "release")
  /\ UNCHANGED <<queued, tag, syncing, heads, head, localVars, histVars>>

Release(s, p) ==
  /\ pc[s] = "release" /\ p \in rel[s]
  /\ EnqueueProcess(p)
  /\ rel' = [rel EXCEPT ![s] = @ \ {p}]
  /\ Goto(s, IF rel[s] = {p} THEN ret[s] ELSE "release")
  /\ ret' = IF rel[s] = {p} THEN [ret EXCEPT ![s] = "sched"] ELSE ret
  /\ UNCHANGED <<barVars, seen, completeVars, histVars>>

(***************************************************************************)
(* bar_sync: read the state and the scheduler's own head.                  *)
(***************************************************************************)
BarSync(s) ==
  /\ pc[s] = "user"
  /\ seen' = [seen EXCEPT ![s] = [tag |-> tag, syncing |-> syncing]]
  /\ Goto(s, "bar_head")
  /\ UNCHANGED <<queued, barVars, rel, ret, completeVars, histVars>>

(* Mutant: whatever head there is will do. *)
BarHeadJoin(s) ==
  /\ pc[s] = "bar_head"
  /\ Goto(s, IF head[s].used THEN "bar_add" ELSE "bar_bit")
  /\ UNCHANGED <<queued, barVars, localVars, histVars>>

(* A head of the phase that is being completed must go first. *)
BarHead(s) ==
  /\ pc[s] = "bar_head"
  /\ Goto(s, CASE ~head[s].used -> "bar_bit"
               [] head[s].used /\ seen[s].syncing /\ head[s].tag # seen[s].tag -> "bar_swap"
               [] OTHER -> "bar_add")
  /\ UNCHANGED <<queued, barVars, localVars, histVars>>

BarSwap(s) ==
  /\ pc[s] = "bar_swap"
  /\ SetHead(s, Null)
  /\ IF head[s].used
       THEN CompleteHead(s, head[s], "bar_bit") /\ Goto(s, "add_count")
       ELSE Goto(s, "bar_bit") /\ UNCHANGED <<rel, ret>>
  /\ UNCHANGED <<queued, stateVars, heads, seen, completeVars, histVars>>

(* Mutant: the bit of the new head is not set. *)
BarNoBit(s) ==
  /\ pc[s] = "bar_bit"
  /\ Goto(s, "bar_set")
  /\ UNCHANGED <<queued, barVars, localVars, histVars>>

BarBit(s) ==
  /\ pc[s] = "bar_bit"
  /\ heads' = heads \cup {s}
  /\ Goto(s, "bar_set")
  /\ UNCHANGED <<queued, stateVars, head, localVars, histVars>>

BarSet(s) ==
  /\ pc[s] = "bar_set"
  /\ SetHead(s, Head(seen[s].tag, {}))
  /\ Goto(s, "bar_add")
  /\ UNCHANGED <<queued, stateVars, heads, localVars, histVars>>

BarAdd(s) ==
  /\ pc[s] = "bar_add"
  /\ head' = [head EXCEPT ![s].procs = @ \cup {cur[s]}]
  /\ Goto(s, "bar_cas")
  /\ UNCHANGED <<queued, stateVars, heads, localVars, histVars>>

(* The state becomes (1, next tag, BAR_SYNCING), bar_complete is called. *)
StartComplete(s) ==
  /\ SetState(1, NextTag(tag), TRUE)
  /\ ctag' = [ctag EXCEPT ![s] = NextTag(tag)]
  /\ waiting' = {}

(* Count off, or complete; from here on the process waits. *)
BarCas(s) ==
  /\ pc[s] = "bar_cas"
  /\ cur' = [cur EXCEPT ![s] = NotProcess]
  /\ seen' = [seen EXCEPT ![s] = [tag |-> 0, syncing |-> FALSE]]
  /\ IF count = 1 /\ ~syncing
       THEN StartComplete(s) /\ pc' = [pc EXCEPT ![s] = "complete"]
       ELSE /\ SetState(count - 1, tag, syncing)
            /\ waiting' = waiting \cup {cur[s]}
            /\ pc' = [pc EXCEPT ![s] = "sched"]
            /\ UNCHANGED ctag
  /\ UNCHANGED <<queued, heads, head, rel, ret, todo, idx, enrolled>>

(***************************************************************************)
(* bar_complete: take the heads, the own one first.  Its word is cleared   *)
(* when its processes have been let go.                                    *)
(***************************************************************************)
Complete(s) ==
  /\ pc[s] = "complete"
  /\ todo' = [todo EXCEPT ![s] = heads \ {s}]
  /\ heads' = {}
  /\ IF s \in heads
       THEN /\ CompleteHead(s, head[s], "local_clear")
            /\ SetHead(s, Head(head[s].tag, {}))
            /\ Goto(s, "add_count")
       ELSE Goto(s, "next_head") /\ UNCHANGED <<head, rel, ret>>
  /\ UNCHANGED <<queued, stateVars, seen, ctag, idx, histVars>>

LocalClear(s) ==
  /\ pc[s] = "local_clear"
  /\ SetHead(s, Null)
  /\ Goto(s, "next_head")
  /\ UNCHANGED <<queued, stateVars, heads, localVars, histVars>>

(***************************************************************************)
(* The other heads.  One with the new tag belongs to the next phase.       *)
(***************************************************************************)
NextHead(s, i) ==
  /\ pc[s] = "next_head" /\ i \in todo[s]
  /\ todo' = [todo EXCEPT ![s] = @ \ {i}]
  /\ IF head[i].used
       THEN /\ idx' = [idx EXCEPT ![s] = i]
            /\ Goto(s, IF head[i].tag = ctag[s] THEN "set_bit" ELSE "take_head")
       ELSE UNCHANGED <<pc, cur, idx>>
  /\ UNCHANGED <<queued, barVars, seen, rel, ret, ctag, histVars>>

SetBit(s) ==
  /\ pc[s] = "set_bit"
  /\ heads' = heads \cup {idx[s]}
  /\ idx' = [idx EXCEPT ![s] = s]
  /\ Goto(s, "next_head")
  /\ UNCHANGED <<queued, stateVars, head, seen, rel, ret, ctag, todo, histVars>>

(* The compare-and-swap fails if its scheduler has taken the head back or  *)
(* replaced it by one with the new tag.                                    *)
TakeHead(s) ==
  LET h == head[idx[s]] IN
  /\ pc[s] = "take_head"
  /\ IF h.used /\ h.tag # ctag[s]
       THEN /\ SetHead(idx[s], Null)
            /\ CompleteHead(s, h, "next_head")
            /\ Goto(s, "add_count")
       ELSE Goto(s, "next_head") /\ UNCHANGED <<head, rel, ret>>
  /\ idx' = [idx EXCEPT ![s] = s]
  /\ UNCHANGED <<queued, stateVars, heads, seen, ctag, todo, histVars>>

(***************************************************************************)
(* All heads are done.  If everybody is back at the barrier already, the   *)
(* next phase is completed at once; otherwise BAR_SYNCING is cleared and   *)
(* the extra count taken out of the state.                                 *)
(***************************************************************************)
AllBack(s) == count = 1 /\ tag = ctag[s] /\ syncing

Finish(s) ==
  /\ SetState(count - 1, ctag[s], FALSE)
  /\ ctag' = [ctag EXCEPT ![s] = 0]
  /\ KernelScheduler(s)

(* Mutant: nobody can be back already. *)
EndCompleteAlways(s) ==
  /\ pc[s] = "next_head" /\ todo[s] = {}
  /\ Finish(s)
  /\ UNCHANGED <<queued, heads, head, seen, rel, ret, todo, idx, histVars>>

EndComplete(s) ==
  /\ pc[s] = "next_head" /\ todo[s] = {}
  /\ IF AllBack(s)
       THEN Goto(s, "look_heads") /\ UNCHANGED <<stateVars, ctag>>
       ELSE Finish(s)
  /\ UNCHANGED <<queued, heads, head, seen, rel, ret, todo, idx, histVars>>

LookHeads(s) ==
  /\ pc[s] = "look_heads"
  /\ Goto(s, IF heads = {} THEN "finish_cas" ELSE "again_cas")
  /\ UNCHANGED <<queued, barVars, localVars, histVars>>

FinishCas(s) ==
  /\ pc[s] = "finish_cas"
  /\ IF AllBack(s)
       THEN Finish(s)
       ELSE Goto(s, "next_head") /\ UNCHANGED <<stateVars, ctag>>
  /\ UNCHANGED <<queued, heads, head, seen, rel, ret, todo, idx, histVars>>

AgainCas(s) ==
  /\ pc[s] = "again_cas"
  /\ IF AllBack(s)
       THEN StartComplete(s) /\ Goto(s, "complete")
       ELSE Goto(s, "next_head") /\ UNCHANGED <<stateVars, ctag, waiting>>
  /\ UNCHANGED <<queued, heads, head, seen, rel, ret, todo, idx, enrolled>>

(***************************************************************************)
(* bar_enroll, for a process that is started after it.                     *)
(***************************************************************************)
BarEnroll(s, p) ==
  /\ pc[s] = "user" /\ p \notin enrolled
  /\ \A u \in Scheds : cur[u] # p
  /\ count' = count + 1
  /\ enrolled' = enrolled \cup {p}
  /\ EnqueueProcess(p)
  /\ UNCHANGED <<pc, cur, tag, syncing, heads, head, localVars, waiting>>

(***************************************************************************)
(* bar_resign, after which the process ends.                               *)
(***************************************************************************)
Last == count = 1 /\ ~syncing

BarResign(s) ==
  /\ pc[s] = "user"
  /\ IF Last
       THEN Goto(s, "resign_heads") /\ UNCHANGED <<count, enrolled>>
       ELSE /\ count' = count - 1
            /\ enrolled' = enrolled \ {cur[s]}
            /\ KernelScheduler(s)
  /\ UNCHANGED <<queued, tag, syncing, heads, head, localVars, waiting>>

ResignHeads(s) ==
  /\ pc[s] = "resign_heads"
  /\ Goto(s, IF heads = {} THEN "resign_cas" ELSE "resign_complete")
  /\ UNCHANGED <<queued, barVars, localVars, histVars>>

ResignCas(s) ==
  /\ pc[s] = "resign_cas"
  /\ IF Last
       THEN /\ SetState(0, tag, FALSE)
            /\ enrolled' = enrolled \ {cur[s]}
            /\ KernelScheduler(s)
       ELSE Goto(s, "user") /\ UNCHANGED <<stateVars, enrolled>>
  /\ UNCHANGED <<queued, heads, head, localVars, waiting>>

ResignComplete(s) ==
  /\ pc[s] = "resign_complete"
  /\ IF Last
       THEN /\ StartComplete(s)
            /\ enrolled' = enrolled \ {cur[s]}
            /\ Goto(s, "complete")
       ELSE Goto(s, "user") /\ UNCHANGED <<stateVars, ctag, histVars>>
  /\ UNCHANGED <<queued, heads, head, seen, rel, ret, todo, idx>>

Kernel(s) ==
  \/ BarHead(s) \/ BarSwap(s) \/ BarBit(s) \/ BarSet(s) \/ BarAdd(s) \/ BarCas(s)
  \/ AddCount(s) \/ \E p \in Procs : Release(s, p)
  \/ Complete(s) \/ LocalClear(s) \/ \E i \in Scheds : NextHead(s, i)
  \/ SetBit(s) \/ TakeHead(s)
  \/ EndComplete(s) \/ LookHeads(s) \/ FinishCas(s) \/ AgainCas(s)
  \/ ResignHeads(s) \/ ResignCas(s) \/ ResignComplete(s)

Pick(s, p) == Dispatch(s, p) /\ UNCHANGED <<barVars, localVars, histVars>>

(* Everybody has resigned. *)
Ended == enrolled = {} /\ (\A s \in Scheds : pc[s] = "sched") /\ UNCHANGED vars

Next ==
  \/ \E s \in Scheds :
       \/ Kernel(s) \/ BarSync(s) \/ BarResign(s)
       \/ \E p \in Procs : Pick(s, p) \/ BarEnroll(s, p)
  \/ Ended

Spec == Init /\ [][Next]_vars

(***************************************************************************)
(* Threads run, a running process comes to the barrier (or resigns), and a *)
(* runnable process is not passed over for ever.                           *)
(***************************************************************************)
FairSpec ==
  /\ Spec
  /\ \A s \in Scheds : WF_vars(Kernel(s)) /\ SF_vars(BarSync(s))
  /\ \A p \in Procs : SF_vars(\E s \in Scheds : Pick(s, p))

-----------------------------------------------------------------------------
Tags == 0..3

(* Every variable has its type; the count in the state word never becomes  *)
(* negative, where it would borrow from the tag.                           *)
TypeOK ==
  /\ cur \in [Scheds -> Procs \cup {NotProcess}]
  /\ queued \in [Procs -> Nat]
  /\ count \in Nat /\ tag \in Tags /\ syncing \in BOOLEAN
  /\ heads \subseteq Scheds
  /\ head \in [Scheds -> [tag : Tags, procs : SUBSET Procs, used : BOOLEAN]]
  /\ seen \in [Scheds -> [tag : Tags, syncing : BOOLEAN]]
  /\ rel \in [Scheds -> SUBSET Procs]
  /\ ctag \in [Scheds -> Tags]
  /\ todo \in [Scheds -> SUBSET Scheds] /\ idx \in [Scheds -> Scheds]
  /\ enrolled \subseteq Procs /\ waiting \subseteq Procs

(***************************************************************************)
(* The processes to be let go: in a head, of a phase that is over.         *)
(***************************************************************************)
Running(p) == \E s \in Scheds : cur[s] = p
Held(p) == \E s \in Scheds : p \in head[s].procs \cup rel[s]
Released == {p \in Procs : Held(p) /\ p \notin waiting /\ ~Running(p)}

(* Nobody passes before everybody is there, however fast the first ones    *)
(* come back while bar_complete still lets go the others, and whoever      *)
(* waits is let go once (bar_sync, bar_resign, bar_complete).              *)
Abs == INSTANCE Barrier WITH released <- Released
ImplementsBarrier == Abs!Spec

(* The count of the state word is the number of processes the phase still  *)
(* waits for (and one more while BAR_SYNCING): a process that is let go is *)
(* counted before it runs, though its head is completed by any of three    *)
(* parties.                                                                *)
Uncounted == {p \in Released : ~\E s \in Scheds : pc[s] = "release" /\ p \in rel[s]}
CountExact ==
  count + Cardinality(waiting) + Cardinality(Uncounted)
    = Cardinality(enrolled) + (IF syncing THEN 1 ELSE 0)

(* A process that waits is in a head that the next bar_complete finds, by  *)
(* its bit or in the list of the one that runs: no head is forgotten when  *)
(* bar_complete takes all bits and puts some of them back.                 *)
Known(s) ==
  \/ s \in heads
  \/ \E u \in Scheds : s \in todo[u] \/ (pc[u] = "set_bit" /\ idx[u] = s)
NoHeadForgotten ==
  \A s \in Scheds : head[s].procs \cap waiting # {} => Known(s)

(* Whoever waits at the barrier becomes runnable: the last process to      *)
(* arrive, or to resign, or the bar_complete that is just running, lets it *)
(* go.                                                                     *)
EveryoneGetsThrough == \A p \in Procs : p \in waiting ~> queued[p] > 0
=============================================================================
