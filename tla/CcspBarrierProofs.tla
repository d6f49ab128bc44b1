-------------------------- MODULE CcspBarrierProofs --------------------------
(***************************************************************************)
(* The barrier of CCSP for any number of schedulers and processes: type    *)
(* correctness, the count of the state word, that no head is forgotten,    *)
(* and that CcspBarrier implements Barrier.                                *)
(*                                                                         *)
(* The inductive invariant says where each process is (Places), how the    *)
(* heads of this phase and of the last one are told apart by their tags    *)
(* and found by their bits (Phases), what a scheduler inside bar_sync may  *)
(* rely on (Syncing), and how far the one bar_complete has got             *)
(* (Completion).  A phase cannot end under a process that is running:      *)
(* that is what CountExact says when the count has come down to 1.         *)
(***************************************************************************)
EXTENDS CcspBarrier, FiniteSetTheorems, TLAPS

SyncLabels == {"bar_head", "bar_swap", "bar_bit", "bar_set", "bar_add", "bar_cas"}
EndLabels == {"look_heads", "finish_cas", "again_cas"}
CompleteLabels ==
  {"complete", "local_clear", "next_head", "set_bit", "take_head"} \cup EndLabels
UserLabels == {"user", "resign_heads", "resign_cas", "resign_complete"}
Letting == {"add_count", "release"}
Labels == SyncLabels \cup CompleteLabels \cup UserLabels \cup Letting \cup {"sched"}

Types ==
  /\ TypeOK
  /\ pc \in [Scheds -> Labels]
  /\ ret \in [Scheds -> {"sched", "bar_bit", "local_clear", "next_head"}]

(* The label s is at, or goes back to from bar_complete_head. *)
At(s) == IF pc[s] \in Letting THEN ret[s] ELSE pc[s]
Completing(s) == At(s) \in CompleteLabels
Inside(s) == At(s) \in UserLabels \cup SyncLabels

(* A process is enrolled and in one place: runnable, run by one scheduler, *)
(* in one head, or on its way out of one.                                  *)
Places ==
  /\ waiting \subseteq enrolled
  /\ \A s \in Scheds : head[s].procs \cup rel[s] \subseteq enrolled
  /\ \A s \in Scheds : ~head[s].used => head[s].procs = {}
  /\ \A s \in Scheds : rel[s] = {} <=> pc[s] \notin Letting
  /\ \A s \in Scheds : pc[s] \in Letting => ret[s] # "sched"
  /\ \A s, t \in Scheds :
       /\ s # t => head[s].procs \cap head[t].procs = {} /\ rel[s] \cap rel[t] = {}
       /\ head[s].procs \cap rel[t] = {}
  /\ \A p \in Procs : queued[p] \in {0, 1}
  /\ \A p \in Procs : queued[p] = 1 => p \in enrolled /\ ~Running(p) /\ ~Held(p)
  /\ \A p \in waiting : \E s \in Scheds : p \in head[s].procs
  /\ \A s \in Scheds : rel[s] \cap waiting = {}
  /\ \A s \in Scheds : Inside(s) =>
       /\ cur[s] \in enrolled /\ cur[s] \notin waiting
       /\ \A t \in Scheds :
            /\ cur[t] = cur[s] => t = s
            /\ cur[s] \notin rel[t]
            /\ cur[s] \in head[t].procs => t = s /\ pc[s] = "bar_cas"
  /\ \A s \in Scheds : ~Inside(s) => cur[s] \notin enrolled
  /\ \A s \in Scheds : pc[s] = "sched" => cur[s] = NotProcess

(* A head has the tag of the phase that goes on, and its bit is set; or it *)
(* belongs to the phase before, and bar_complete still has to look at it.  *)
Pending(s, c) ==
  Completing(c) /\ \/ pc[c] = "complete" /\ s \in heads
                   \/ s \in todo[c]
                   \/ pc[c] = "take_head" /\ idx[c] = s
HeadPhase(s) ==
  /\ head[s].used /\ head[s].tag = tag =>
       /\ s \in heads /\ head[s].procs \subseteq waiting \cup {cur[s]}
       /\ head[s].procs # {} \/ pc[s] = "bar_add"
  /\ head[s].used /\ head[s].tag # tag =>
       /\ head[s].procs \cap waiting = {}
       /\ s \in heads => \E c \in Scheds : pc[c] = "complete"
       /\ At(s) = "local_clear" \/ (head[s].procs # {} /\ \E c \in Scheds : Pending(s, c))
  /\ s \in heads => head[s].used \/ pc[s] = "bar_set"
Phases == \A s \in Scheds : HeadPhase(s)

(* What bar_sync has read still holds when it is used. *)
InSync(s) ==
  /\ At(s) \in SyncLabels => seen[s].tag = tag /\ (syncing => seen[s].syncing)
  /\ pc[s] = "bar_swap" => ~head[s].used \/ head[s].tag # tag
  /\ At(s) \in {"bar_bit", "bar_set"} => ~head[s].used
  /\ pc[s] = "bar_set" => s \in heads
  /\ pc[s] \in {"bar_add", "bar_cas"} => head[s].used /\ head[s].tag = tag
  /\ pc[s] = "bar_cas" => cur[s] \in head[s].procs
Syncing == \A s \in Scheds : InSync(s)

(* There is one bar_complete while BAR_SYNCING is set, and none otherwise. *)
Completion ==
  /\ syncing <=> \E c \in Scheds : Completing(c)
  /\ \A c, d \in Scheds : Completing(c) /\ Completing(d) => c = d
  /\ \A s \in Scheds : ~Completing(s) => todo[s] = {}
  /\ \A c \in Scheds : Completing(c) =>
       /\ ctag[c] = tag /\ c \notin todo[c]
       /\ pc[c] = "complete" =>
            /\ todo[c] = {} /\ waiting = {}
            /\ \A s \in Scheds : head[s].used => head[s].tag # tag
            /\ \A p \in enrolled : \E s \in Scheds : p \in head[s].procs
       /\ At(c) = "local_clear" => head[c].used /\ head[c].procs = {} /\ head[c].tag # tag
       /\ pc[c] # "complete" /\ At(c) # "local_clear" => ~head[c].used
       /\ pc[c] \in {"set_bit", "take_head"} => idx[c] # c
       /\ pc[c] = "set_bit" => head[idx[c]].used /\ head[idx[c]].tag = tag
       /\ pc[c] \in EndLabels => count = 1 /\ todo[c] = {} /\ waiting = enrolled
       /\ pc[c] = "finish_cas" => heads = {}
       /\ pc[c] = "again_cas" => heads # {}

(* The processes that are to be let go and not counted in the state yet. *)
Behind(s) ==
  (IF head[s].tag # tag THEN head[s].procs ELSE {})
    \cup (IF pc[s] = "add_count" THEN rel[s] ELSE {})
Late == {p \in Procs : \E s \in Scheds : p \in Behind(s)}
Counted ==
  count + Cardinality(waiting) + Cardinality(Late)
    = Cardinality(enrolled) + (IF syncing THEN 1 ELSE 0)

IInv == Types /\ Places /\ Phases /\ Syncing /\ Completion /\ Counted

-----------------------------------------------------------------------------
(* A step that takes s from one label to another one, outside              *)
(* bar_complete_head.                                                      *)
LEMMA GotoAt ==
  ASSUME Types, NEW s \in Scheds, NEW l \in Labels \ Letting,
         pc[s] \notin Letting, pc' = [pc EXCEPT ![s] = l], ret' = ret
  PROVE  /\ pc'[s] = l /\ At(s) = pc[s] /\ At(s)' = l
         /\ \A t \in Scheds : t # s => pc'[t] = pc[t] /\ At(t)' = At(t)
         /\ pc' \in [Scheds -> Labels]
<1>1. pc'[s] = l /\ (\A t \in Scheds : t # s => pc'[t] = pc[t]) /\ pc' \in [Scheds -> Labels]
  BY DEF Types
<1> QED BY <1>1 DEF At

(* The processes stay where they are. *)
LEMMA PlacesKept ==
  ASSUME Types, Places, UNCHANGED <<queued, cur, rel, waiting, enrolled>>,
         \A t \in Scheds :
           /\ head'[t].procs = head[t].procs /\ (~head'[t].used => head[t].procs = {})
           /\ pc'[t] \in Letting <=> pc[t] \in Letting
           /\ pc'[t] \in Letting => ret'[t] # "sched"
           /\ Inside(t)' <=> Inside(t)
           /\ pc[t] = "bar_cas" => pc'[t] = "bar_cas"
           /\ pc'[t] = "sched" => pc[t] = "sched"
  PROVE  Places'
<1>1. \A p : (Running(p)' <=> Running(p)) /\ (Held(p)' <=> Held(p))
  BY DEF Running, Held
<1>2. \A t \in Scheds : Inside(t)' =>
        /\ cur'[t] \in enrolled' /\ cur'[t] \notin waiting'
        /\ \A u \in Scheds :
             /\ cur'[u] = cur'[t] => u = t
             /\ cur'[t] \notin rel'[u]
             /\ cur'[t] \in head'[u].procs => u = t /\ pc'[t] = "bar_cas"
  BY DEF Places
<1> QED BY <1>1, <1>2 DEF Places

(* The heads stay what they are, and where bar_complete is does not        *)
(* matter as long as it does not pass over one.                            *)
LEMMA PhasesKept ==
  ASSUME Types, Phases, UNCHANGED <<head, heads, tag, waiting, cur>>,
         \A t \in Scheds :
           /\ pc[t] = "bar_add" => pc'[t] = "bar_add"
           /\ pc[t] = "bar_set" => pc'[t] = "bar_set"
           /\ pc[t] = "complete" => pc'[t] = "complete"
           /\ At(t) = "local_clear" => At(t)' = "local_clear"
           /\ \A c \in Scheds : Pending(t, c) => Pending(t, c)'
  PROVE  Phases'
BY DEF Types, Phases, HeadPhase

(* No process changes sides. *)
LEMMA CountedKept ==
  ASSUME Counted, UNCHANGED <<count, syncing, waiting, enrolled>>,
         \A t \in Scheds : Behind(t)' = Behind(t)
  PROVE  Counted'
<1>1. Late' = Late
  BY DEF Late
<1> QED BY <1>1 DEF Counted

(* Whoever completes the barrier does not notice what others do with their *)
(* own program counters.                                                   *)
LEMMA CompletionKept ==
  ASSUME Types, Completion, UNCHANGED <<stateVars, heads, head, ctag, todo, idx, waiting, enrolled>>,
         \A t \in Scheds :
           /\ Completing(t)' <=> Completing(t)
           /\ Completing(t) => At(t)' = At(t) /\ pc'[t] = pc[t]
  PROVE  Completion'
BY DEF Completion, stateVars, Types, TypeOK

(* A running process moves on without touching the barrier. *)
LEMMA QuietKeeps ==
  ASSUME IInv, NEW s \in Scheds, NEW l \in UserLabels \cup {"bar_head", "bar_swap", "bar_bit", "bar_add"},
         pc[s] \in UserLabels \cup {"bar_head"}, pc' = [pc EXCEPT ![s] = l],
         UNCHANGED <<cur, queued, stateVars, heads, head, rel, ret, ctag, todo, idx, enrolled, waiting>>,
         seen' \in [Scheds -> [tag : Tags, syncing : BOOLEAN]]
  PROVE  Types' /\ Places' /\ Phases' /\ Completion' /\ Counted'
<1>1. l \in Labels \ Letting /\ pc[s] \notin Letting
  BY DEF Labels, Letting, UserLabels, SyncLabels
<1>2. /\ pc'[s] = l /\ At(s) = pc[s] /\ At(s)' = l
      /\ \A t \in Scheds : t # s => pc'[t] = pc[t] /\ At(t)' = At(t)
      /\ pc' \in [Scheds -> Labels]
  BY <1>1, GotoAt DEF IInv
<1>3. Inside(s) /\ Inside(s)' /\ ~Completing(s) /\ ~Completing(s)'
  BY <1>2 DEF Inside, Completing, UserLabels, SyncLabels, CompleteLabels, EndLabels
<1>4. \A t \in Scheds : t # s => (Inside(t)' <=> Inside(t)) /\ (Completing(t)' <=> Completing(t))
  BY <1>2 DEF Inside, Completing
<1>5. Types'
  BY <1>2 DEF IInv, Types, TypeOK, stateVars
<1>6. Places'
  <2>1. \A t \in Scheds :
           /\ head'[t].procs = head[t].procs /\ (~head'[t].used => head[t].procs = {})
           /\ pc'[t] \in Letting <=> pc[t] \in Letting
           /\ pc'[t] \in Letting => ret'[t] # "sched"
           /\ Inside(t)' <=> Inside(t)
           /\ pc[t] = "bar_cas" => pc'[t] = "bar_cas"
           /\ pc'[t] = "sched" => pc[t] = "sched"
    BY <1>1, <1>2, <1>3, <1>4 DEF IInv, Places, UserLabels
  <2> QED BY <2>1, PlacesKept DEF IInv
<1>7. Phases'
  <2>1. pc[s] \notin {"bar_add", "bar_set", "complete", "local_clear"}
    BY DEF UserLabels
  <2>2. \A t, c \in Scheds : Pending(t, c) => Pending(t, c)'
    BY <1>2, <1>3, <1>4 DEF Pending
  <2> QED BY <1>2, <2>1, <2>2, PhasesKept DEF IInv, stateVars
<1>8. Completion'
  BY <1>2, <1>3, <1>4, CompletionKept DEF IInv
<1>9. Counted'
  <2>1. \A t \in Scheds : Behind(t)' = Behind(t)
    BY <1>1, <1>2 DEF Behind, Letting, stateVars
  <2> QED BY <2>1, CountedKept DEF IInv, stateVars
<1> QED BY <1>5, <1>6, <1>7, <1>8, <1>9

-----------------------------------------------------------------------------
(* The parts Counted adds up are finite. *)
LEMMA FiniteParts ==
  ASSUME Types, Places
  PROVE  /\ IsFiniteSet(waiting) /\ IsFiniteSet(Late) /\ IsFiniteSet(enrolled)
         /\ Cardinality(waiting) \in Nat /\ Cardinality(Late) \in Nat
         /\ Cardinality(enrolled) \in Nat
         /\ \A s \in Scheds : IsFiniteSet(rel[s]) /\ Cardinality(rel[s]) \in Nat
<1>1. /\ waiting \in SUBSET Procs /\ Late \in SUBSET Procs /\ enrolled \in SUBSET Procs
      /\ \A s \in Scheds : rel[s] \in SUBSET Procs
  BY DEF Types, TypeOK, Late
<1>2. IsFiniteSet(Procs)
  BY BarrierAssumption
<1>3. /\ IsFiniteSet(waiting) /\ IsFiniteSet(Late) /\ IsFiniteSet(enrolled)
      /\ \A s \in Scheds : IsFiniteSet(rel[s])
  BY <1>1, <1>2, FS_Subset
<1> QED BY <1>3, FS_CardinalityType

(* Who waits and who is late are different enrolled processes. *)
LEMMA LateApart ==
  ASSUME IInv
  PROVE  Late \subseteq enrolled /\ Late \cap waiting = {} /\ waiting \subseteq enrolled
<1>1. \A s \in Scheds : Behind(s) \subseteq enrolled
  BY DEF IInv, Places, Behind
<1>2. \A s \in Scheds : Behind(s) \cap waiting = {}
  BY DEF IInv, Places, Phases, HeadPhase, Behind
<1> QED BY <1>1, <1>2 DEF Late, IInv, Places

(* They are no more than are enrolled, and exactly those when as many. *)
LEMMA CountWaiting ==
  ASSUME IInv
  PROVE  /\ Cardinality(waiting) + Cardinality(Late) <= Cardinality(enrolled)
         /\ Cardinality(waiting) + Cardinality(Late) = Cardinality(enrolled) =>
              enrolled = waiting \cup Late
<1> DEFINE U == waiting \cup Late
<1>1. /\ IsFiniteSet(waiting) /\ IsFiniteSet(Late) /\ IsFiniteSet(enrolled)
      /\ Cardinality(waiting) \in Nat /\ Cardinality(Late) \in Nat
      /\ Cardinality(enrolled) \in Nat
  BY FiniteParts DEF IInv
<1>2. waiting \cap Late = {} /\ U \in SUBSET enrolled
  BY LateApart
<1>3. Cardinality(U) = Cardinality(waiting) + Cardinality(Late)
  <2>1. Cardinality(U) = Cardinality(waiting) + Cardinality(Late) - Cardinality(waiting \cap Late)
    BY <1>1, FS_Union
  <2>2. Cardinality(waiting \cap Late) = 0
    BY <1>2, FS_EmptySet
  <2> QED BY <1>1, <2>1, <2>2
<1>4. Cardinality(U) <= Cardinality(enrolled) /\ (Cardinality(enrolled) = Cardinality(U) => enrolled = U)
  BY <1>1, <1>2, FS_Subset
<1> QED BY <1>1, <1>3, <1>4

(* A running process is one more: the count says that it is missing. *)
LEMMA CountRunner ==
  ASSUME IInv, NEW s \in Scheds, Inside(s)
  PROVE  /\ cur[s] \in enrolled /\ cur[s] \notin waiting /\ cur[s] \notin Late
         /\ count >= 1 /\ (syncing => count >= 2)
         /\ count = 1 /\ pc[s] # "add_count" =>
              enrolled = waiting \cup {cur[s]} /\ Late = {}
<1> DEFINE U == waiting \cup Late
           V == U \cup {cur[s]}
<1>1. /\ IsFiniteSet(waiting) /\ IsFiniteSet(Late) /\ IsFiniteSet(enrolled)
      /\ Cardinality(waiting) \in Nat /\ Cardinality(Late) \in Nat
      /\ Cardinality(enrolled) \in Nat
  BY FiniteParts DEF IInv
<1>2. waiting \cap Late = {} /\ U \in SUBSET enrolled
  BY LateApart
<1>3. cur[s] \in enrolled /\ cur[s] \notin waiting
  BY DEF IInv, Places
<1>4. cur[s] \notin Late
  <2>1. ASSUME NEW t \in Scheds, cur[s] \in Behind(t) PROVE FALSE
    <3>1. cur[s] \notin rel[t] /\ (cur[s] \in head[t].procs => t = s /\ pc[s] = "bar_cas")
      BY DEF IInv, Places
    <3>2. pc[s] = "bar_cas" => head[s].tag = tag
      BY DEF IInv, Syncing, InSync
    <3> QED BY <2>1, <3>1, <3>2 DEF Behind
  <2> QED BY <2>1 DEF Late
<1>5. IsFiniteSet(U) /\ Cardinality(U) = Cardinality(waiting) + Cardinality(Late)
  <2>1. IsFiniteSet(U)
        /\ Cardinality(U) = Cardinality(waiting) + Cardinality(Late) - Cardinality(waiting \cap Late)
    BY <1>1, FS_Union
  <2>2. Cardinality(waiting \cap Late) = 0
    BY <1>2, FS_EmptySet
  <2> QED BY <1>1, <2>1, <2>2
<1>6. IsFiniteSet(V) /\ Cardinality(V) = Cardinality(waiting) + Cardinality(Late) + 1
  BY <1>3, <1>4, <1>5, FS_AddElement
<1>7. V \in SUBSET enrolled
  BY <1>2, <1>3
<1>8. Cardinality(V) <= Cardinality(enrolled) /\ (Cardinality(enrolled) = Cardinality(V) => enrolled = V)
  BY <1>1, <1>7, FS_Subset
<1>9. /\ count \in Nat
      /\ count + Cardinality(waiting) + Cardinality(Late)
           = Cardinality(enrolled) + (IF syncing THEN 1 ELSE 0)
  BY DEF IInv, Types, TypeOK, Counted
<1>10. count >= 1 /\ (syncing => count >= 2)
  BY <1>1, <1>6, <1>8, <1>9
<1>11. ASSUME count = 1, pc[s] # "add_count" PROVE enrolled = waiting \cup {cur[s]} /\ Late = {}
  <2>1. ~syncing
    BY <1>10, <1>11
  <2>2. Cardinality(enrolled) = Cardinality(V)
    BY <1>1, <1>6, <1>9, <1>11, <2>1
  <2>3. enrolled = V
    BY <1>8, <2>2
  <2>4. ASSUME NEW p \in Late PROVE FALSE
    <3>1. PICK t \in Scheds : p \in Behind(t)
      BY <2>4 DEF Late
    <3>2. CASE p \in head[t].procs /\ head[t].tag # tag
      <4>1. head[t].used
        BY <3>2 DEF IInv, Places
      <4>2. \E c \in Scheds : Completing(c)
        BY <3>2, <4>1 DEF IInv, Phases, HeadPhase, Completing, Pending, CompleteLabels
      <4> QED BY <2>1, <4>2 DEF IInv, Completion
    <3>3. CASE p \in rel[t] /\ pc[t] = "add_count"
      <4>1. Inside(t) \/ Completing(t)
        BY <3>3 DEF IInv, Types, Places, Letting, At, Inside, Completing, SyncLabels, CompleteLabels
      <4>2. Inside(t)
        BY <2>1, <4>1 DEF IInv, Completion
      <4>3. cur[t] \in enrolled /\ cur[t] \notin waiting
        BY <4>2 DEF IInv, Places
      <4>4. cur[t] \notin Late
        <5>1. ASSUME NEW u \in Scheds, cur[t] \in Behind(u) PROVE FALSE
          <6>1. cur[t] \notin rel[u] /\ (cur[t] \in head[u].procs => u = t /\ pc[t] = "bar_cas")
            BY <4>2 DEF IInv, Places
          <6> QED BY <3>3, <5>1, <6>1 DEF Behind
        <5> QED BY <5>1 DEF Late
      <4>5. cur[t] = cur[s]
        BY <2>3, <4>3, <4>4
      <4>6. t = s
        BY <4>5 DEF IInv, Places
      <4> QED BY <1>11, <3>3, <4>6
    <3> QED BY <3>1, <3>2, <3>3 DEF Behind
  <2> QED BY <2>3, <2>4
<1> QED BY <1>3, <1>4, <1>10, <1>11

-----------------------------------------------------------------------------
(* What t relies on in bar_sync is not disturbed by the others. *)
LEMMA InSyncKept ==
  ASSUME NEW t \in Scheds, InSync(t), tag' = tag, syncing' => syncing,
         pc'[t] = pc[t], At(t)' = At(t), seen'[t] = seen[t], head'[t] = head[t], cur'[t] = cur[t],
         t \in heads => t \in heads'
  PROVE  InSync(t)'
BY DEF InSync

(* As long as BAR_SYNCING is not set, there are no heads of another phase. *)
LEMMA NoOldHeads ==
  ASSUME IInv, ~syncing, NEW s \in Scheds, head[s].used
  PROVE  head[s].tag = tag
<1>1. \A c \in Scheds : ~Completing(c)
  BY DEF IInv, Completion
<1>2. At(s) # "local_clear" /\ \A c \in Scheds : ~Pending(s, c)
  BY <1>1 DEF Completing, CompleteLabels, Pending
<1> QED BY <1>2 DEF IInv, Phases, HeadPhase

(* bar_sync reads the state, and decides what to do about its head. *)
LEMMA BarSyncStep ==
  ASSUME IInv, NEW s \in Scheds, BarSync(s)
  PROVE  IInv'
<1>1. /\ pc[s] = "user" /\ pc' = [pc EXCEPT ![s] = "bar_head"] /\ cur' = cur
      /\ seen' = [seen EXCEPT ![s] = [tag |-> tag, syncing |-> syncing]]
      /\ UNCHANGED <<queued, stateVars, heads, head, rel, ret, ctag, todo, idx, enrolled, waiting>>
  BY DEF BarSync, Goto, barVars, completeVars, histVars
<1>2. /\ seen' \in [Scheds -> [tag : Tags, syncing : BOOLEAN]]
      /\ seen'[s].tag = tag /\ seen'[s].syncing = syncing
      /\ \A t \in Scheds : t # s => seen'[t] = seen[t]
  BY <1>1 DEF IInv, Types, TypeOK
<1>3. Types' /\ Places' /\ Phases' /\ Completion' /\ Counted'
  BY <1>1, <1>2, QuietKeeps DEF UserLabels
<1>4. /\ pc'[s] = "bar_head" /\ At(s)' = "bar_head"
      /\ \A t \in Scheds : t # s => pc'[t] = pc[t] /\ At(t)' = At(t)
  BY <1>1, GotoAt DEF IInv, Labels, SyncLabels, Letting
<1>5. Syncing'
  <2>1. InSync(s)'
    BY <1>1, <1>2, <1>4 DEF InSync, stateVars
  <2>2. \A t \in Scheds : t # s => InSync(t)'
    BY <1>1, <1>2, <1>4, InSyncKept DEF IInv, Syncing, stateVars
  <2> QED BY <2>1, <2>2 DEF Syncing
<1> QED BY <1>3, <1>5 DEF IInv

(* bar_sync looks at its own head. *)
LEMMA BarHeadStep ==
  ASSUME IInv, NEW s \in Scheds, BarHead(s)
  PROVE  IInv'
<1>1. PICK l \in {"bar_bit", "bar_swap", "bar_add"} :
        /\ pc[s] = "bar_head" /\ pc' = [pc EXCEPT ![s] = l]
        /\ l = "bar_bit" => ~head[s].used
        /\ l = "bar_swap" => head[s].tag # seen[s].tag
        /\ l = "bar_add" => head[s].used /\ (seen[s].syncing => head[s].tag = seen[s].tag)
  <2>1. CASE ~head[s].used
    BY <2>1 DEF BarHead, Goto
  <2>2. CASE head[s].used /\ seen[s].syncing /\ head[s].tag # seen[s].tag
    BY <2>2 DEF BarHead, Goto
  <2>3. CASE head[s].used /\ ~(seen[s].syncing /\ head[s].tag # seen[s].tag)
    BY <2>3 DEF BarHead, Goto
  <2> QED BY <2>1, <2>2, <2>3
<1>2. UNCHANGED <<cur, queued, stateVars, heads, head, rel, ret, ctag, todo, idx, enrolled, waiting, seen>>
  BY DEF BarHead, Goto, barVars, localVars, completeVars, histVars
<1>3. Types' /\ Places' /\ Phases' /\ Completion' /\ Counted'
  <2>1. seen' \in [Scheds -> [tag : Tags, syncing : BOOLEAN]]
    BY <1>2 DEF IInv, Types, TypeOK
  <2> QED BY <1>1, <1>2, <2>1, QuietKeeps
<1>4. l \in Labels \ Letting /\ pc[s] \notin Letting /\ l \in SyncLabels /\ pc[s] \in SyncLabels
  BY <1>1 DEF Labels, SyncLabels, Letting
<1>5. /\ pc'[s] = l /\ At(s) = pc[s] /\ At(s)' = l
      /\ \A t \in Scheds : t # s => pc'[t] = pc[t] /\ At(t)' = At(t)
  BY <1>1, <1>2, <1>4, GotoAt DEF IInv
<1>6. Syncing'
  <2>1. seen[s].tag = tag /\ (syncing => seen[s].syncing)
    BY <1>4, <1>5 DEF IInv, Syncing, InSync
  <2>2. l = "bar_add" => head[s].used /\ head[s].tag = tag
    BY <1>1, <2>1, NoOldHeads
  <2>3. InSync(s)'
    BY <1>1, <1>2, <1>5, <2>1, <2>2 DEF InSync, stateVars
  <2>4. \A t \in Scheds : t # s => InSync(t)'
    BY <1>2, <1>5, InSyncKept DEF IInv, Syncing, stateVars
  <2> QED BY <2>3, <2>4 DEF Syncing
<1> QED BY <1>3, <1>6 DEF IInv

(* bar_resign looks at the state and the heads, or starts again. *)
LEMMA ResignQuietStep ==
  ASSUME IInv, NEW s \in Scheds, NEW l \in UserLabels, pc[s] \in UserLabels,
         pc' = [pc EXCEPT ![s] = l],
         UNCHANGED <<cur, queued, stateVars, heads, head, seen, rel, ret, ctag, todo, idx, enrolled, waiting>>
  PROVE  IInv'
<1>1. Types' /\ Places' /\ Phases' /\ Completion' /\ Counted'
  <2>1. seen' \in [Scheds -> [tag : Tags, syncing : BOOLEAN]]
    BY DEF IInv, Types, TypeOK
  <2> QED BY <2>1, QuietKeeps
<1>2. l \in Labels \ Letting /\ pc[s] \notin Letting
  BY DEF Labels, UserLabels, Letting
<1>3. /\ pc'[s] = l /\ At(s)' = l
      /\ \A t \in Scheds : t # s => pc'[t] = pc[t] /\ At(t)' = At(t)
  BY <1>2, GotoAt DEF IInv
<1>4. Syncing'
  <2>1. InSync(s)'
    BY <1>3 DEF InSync, UserLabels, SyncLabels
  <2>2. \A t \in Scheds : t # s => InSync(t)'
    BY <1>3, InSyncKept DEF IInv, Syncing, stateVars
  <2> QED BY <2>1, <2>2 DEF Syncing
<1> QED BY <1>1, <1>4 DEF IInv

-----------------------------------------------------------------------------
(* While a process runs, no phase can be about to end or to be completed.  *)
LEMMA NotEnding ==
  ASSUME IInv, NEW s \in Scheds, Inside(s), NEW c \in Scheds
  PROVE  pc[c] # "complete" /\ pc[c] \notin EndLabels
<1>1. cur[s] \in enrolled /\ cur[s] \notin waiting
  BY DEF IInv, Places
<1>2. pc[c] \in EndLabels \/ pc[c] = "complete" => Completing(c)
  BY DEF Completing, At, Letting, CompleteLabels, EndLabels
<1>3. pc[c] \notin EndLabels
  BY <1>1, <1>2 DEF IInv, Completion
<1>4. ASSUME pc[c] = "complete" PROVE FALSE
  <2>1. /\ \A t \in Scheds : head[t].used => head[t].tag # tag
        /\ \E t \in Scheds : cur[s] \in head[t].procs
    BY <1>1, <1>2, <1>4 DEF IInv, Completion
  <2>2. pc[s] = "bar_cas"
    BY <2>1 DEF IInv, Places
  <2> QED BY <2>1, <2>2 DEF IInv, Syncing, InSync
<1> QED BY <1>3, <1>4

(* Completion survives what a running process does to its own head and     *)
(* bit: only a head that bar_complete has found in the new phase matters.  *)
LEMMA CompletionInside ==
  ASSUME IInv, NEW s \in Scheds, Inside(s), UNCHANGED <<stateVars, ctag, todo, idx, waiting, enrolled>>,
         \A t \in Scheds : t # s => pc'[t] = pc[t] /\ At(t)' = At(t) /\ head'[t] = head[t],
         ~Completing(s)', head[s].used /\ head[s].tag = tag => head'[s].used /\ head'[s].tag = tag
  PROVE  Completion'
<1>1. ~Completing(s)
  BY DEF Inside, Completing, UserLabels, SyncLabels, CompleteLabels, EndLabels
<1>2. \A t \in Scheds : (Completing(t)' <=> Completing(t)) /\ (Completing(t) => t # s)
  BY <1>1 DEF Completing
<1>3. \A c \in Scheds : pc[c] # "complete" /\ pc[c] \notin EndLabels
  BY NotEnding
<1>4. ASSUME NEW c \in Scheds, Completing(c)'
      PROVE  /\ ctag'[c] = tag' /\ c \notin todo'[c]
             /\ pc'[c] # "complete" /\ pc'[c] \notin EndLabels
             /\ At(c)' = "local_clear" =>
                  head'[c].used /\ head'[c].procs = {} /\ head'[c].tag # tag'
             /\ pc'[c] # "complete" /\ At(c)' # "local_clear" => ~head'[c].used
             /\ pc'[c] \in {"set_bit", "take_head"} => idx'[c] # c
             /\ pc'[c] = "set_bit" => head'[idx'[c]].used /\ head'[idx'[c]].tag = tag'
  <2>1. Completing(c) /\ c # s
    BY <1>2, <1>4
  <2>2. idx[c] \in Scheds
    BY DEF IInv, Types, TypeOK
  <2> QED BY <1>3, <2>1, <2>2 DEF IInv, Completion, stateVars
<1>5. /\ syncing' <=> \E c \in Scheds : Completing(c)'
      /\ \A c, d \in Scheds : Completing(c)' /\ Completing(d)' => c = d
      /\ \A t \in Scheds : ~Completing(t)' => todo'[t] = {}
  BY <1>2 DEF IInv, Completion, stateVars
<1> QED BY <1>4, <1>5 DEF Completion, EndLabels

(* What bar_complete still has to look at is not changed by the others. *)
LEMMA PendingKept ==
  ASSUME NEW s \in Scheds, UNCHANGED <<todo, idx>>, ~Completing(s),
         \A t \in Scheds : t # s => pc'[t] = pc[t] /\ At(t)' = At(t),
         NEW t \in Scheds, t \in heads => t \in heads', NEW c \in Scheds, Pending(t, c)
  PROVE  Pending(t, c)'
BY DEF Pending, Completing

(* bar_sync sets the bit of the head it is going to make ... *)
LEMMA BarBitStep ==
  ASSUME IInv, NEW s \in Scheds, BarBit(s)
  PROVE  IInv'
<1>1. /\ pc[s] = "bar_bit" /\ pc' = [pc EXCEPT ![s] = "bar_set"] /\ heads' = heads \cup {s}
      /\ UNCHANGED <<cur, queued, count, tag, syncing, head, seen, rel, ret, ctag, todo, idx,
                     enrolled, waiting>>
  BY DEF BarBit, Goto, stateVars, localVars, completeVars, histVars
<1>2. /\ pc'[s] = "bar_set" /\ At(s) = "bar_bit" /\ At(s)' = "bar_set"
      /\ \A t \in Scheds : t # s => pc'[t] = pc[t] /\ At(t)' = At(t)
      /\ pc' \in [Scheds -> Labels]
  BY <1>1, GotoAt DEF IInv, Labels, SyncLabels, Letting
<1>3. Inside(s) /\ ~Completing(s) /\ ~Completing(s)' /\ Inside(s)'
  BY <1>2 DEF Inside, Completing, SyncLabels, CompleteLabels, EndLabels
<1>4. ~head[s].used
  BY <1>1, <1>2 DEF IInv, Syncing, InSync
<1>5. Types'
  BY <1>1, <1>2 DEF IInv, Types, TypeOK
<1>6. Places'
  <2>1. \A t \in Scheds :
           /\ head'[t].procs = head[t].procs /\ (~head'[t].used => head[t].procs = {})
           /\ pc'[t] \in Letting <=> pc[t] \in Letting
           /\ pc'[t] \in Letting => ret'[t] # "sched"
           /\ Inside(t)' <=> Inside(t)
           /\ pc[t] = "bar_cas" => pc'[t] = "bar_cas"
           /\ pc'[t] = "sched" => pc[t] = "sched"
    BY <1>1, <1>2, <1>3 DEF IInv, Places, Letting, Inside
  <2> QED BY <1>1, <2>1, PlacesKept DEF IInv
<1>7. Phases'
  <2>1. HeadPhase(s)'
    BY <1>1, <1>2, <1>4 DEF HeadPhase
  <2>2. ASSUME NEW t \in Scheds, t # s PROVE HeadPhase(t)'
    <3>1. \A c \in Scheds : Pending(t, c) => Pending(t, c)'
      BY <1>1, <1>2, <1>3, PendingKept
    <3>2. \A c \in Scheds : pc[c] = "complete" => pc'[c] = "complete"
      BY <1>1, <1>2
    <3> QED BY <1>1, <1>2, <2>2, <3>1, <3>2 DEF IInv, Phases, HeadPhase
  <2> QED BY <2>1, <2>2 DEF Phases
<1>8. Syncing'
  <2>1. InSync(s)'
    <3>1. seen[s].tag = tag /\ (syncing => seen[s].syncing)
      BY <1>2 DEF IInv, Syncing, InSync, SyncLabels
    <3> QED BY <1>1, <1>2, <1>4, <3>1 DEF InSync
  <2>2. \A t \in Scheds : t # s => InSync(t)'
    BY <1>1, <1>2, InSyncKept DEF IInv, Syncing
  <2> QED BY <2>1, <2>2 DEF Syncing
<1>9. Completion'
  BY <1>1, <1>2, <1>3, CompletionInside DEF stateVars
<1>10. Counted'
  <2>1. \A t \in Scheds : Behind(t)' = Behind(t)
    BY <1>1, <1>2 DEF Behind
  <2> QED BY <1>1, <2>1, CountedKept DEF IInv
<1> QED BY <1>5, <1>6, <1>7, <1>8, <1>9, <1>10 DEF IInv

(* ... makes it ... *)
LEMMA BarSetStep ==
  ASSUME IInv, NEW s \in Scheds, BarSet(s)
  PROVE  IInv'
<1>1. /\ pc[s] = "bar_set" /\ pc' = [pc EXCEPT ![s] = "bar_add"]
      /\ head' = [head EXCEPT ![s] = [tag |-> seen[s].tag, procs |-> {}, used |-> TRUE]]
      /\ UNCHANGED <<cur, queued, count, tag, syncing, heads, seen, rel, ret, ctag, todo, idx,
                     enrolled, waiting>>
  BY DEF BarSet, SetHead, Head, Goto, stateVars, localVars, completeVars, histVars
<1>2. /\ pc'[s] = "bar_add" /\ At(s) = "bar_set" /\ At(s)' = "bar_add"
      /\ \A t \in Scheds : t # s => pc'[t] = pc[t] /\ At(t)' = At(t)
      /\ pc' \in [Scheds -> Labels]
  BY <1>1, GotoAt DEF IInv, Labels, SyncLabels, Letting
<1>3. Inside(s) /\ ~Completing(s) /\ ~Completing(s)' /\ Inside(s)'
  BY <1>2 DEF Inside, Completing, SyncLabels, CompleteLabels, EndLabels
<1>4. ~head[s].used /\ s \in heads /\ seen[s].tag = tag /\ (syncing => seen[s].syncing)
  BY <1>1, <1>2 DEF IInv, Syncing, InSync, SyncLabels
<1>5. /\ head'[s].used /\ head'[s].tag = tag /\ head'[s].procs = {} /\ head[s].procs = {}
      /\ \A t \in Scheds : t # s => head'[t] = head[t]
  BY <1>1, <1>4 DEF IInv, Types, TypeOK, Places
<1>6. Types'
  <2>1. head' \in [Scheds -> [tag : Tags, procs : SUBSET Procs, used : BOOLEAN]]
    BY <1>1 DEF IInv, Types, TypeOK
  <2> QED BY <1>1, <1>2, <2>1 DEF IInv, Types, TypeOK
<1>7. Places'
  <2>1. \A t \in Scheds :
           /\ head'[t].procs = head[t].procs /\ (~head'[t].used => head[t].procs = {})
           /\ pc'[t] \in Letting <=> pc[t] \in Letting
           /\ pc'[t] \in Letting => ret'[t] # "sched"
           /\ Inside(t)' <=> Inside(t)
           /\ pc[t] = "bar_cas" => pc'[t] = "bar_cas"
           /\ pc'[t] = "sched" => pc[t] = "sched"
    BY ZenonT(40), <1>1, <1>2, <1>3, <1>5 DEF IInv, Places, Letting, Inside
  <2> QED BY <1>1, <2>1, PlacesKept DEF IInv
<1>8. Phases'
  <2>1. HeadPhase(s)'
    BY <1>1, <1>2, <1>4, <1>5 DEF HeadPhase
  <2>2. ASSUME NEW t \in Scheds, t # s PROVE HeadPhase(t)'
    <3>1. \A c \in Scheds : Pending(t, c) => Pending(t, c)'
      BY <1>1, <1>2, <1>3, PendingKept
    <3>2. \A c \in Scheds : pc[c] = "complete" => pc'[c] = "complete"
      BY <1>1, <1>2
    <3> QED BY <1>1, <1>2, <1>5, <2>2, <3>1, <3>2 DEF IInv, Phases, HeadPhase
  <2> QED BY <2>1, <2>2 DEF Phases
<1>9. Syncing'
  <2>1. InSync(s)'
    BY <1>1, <1>2, <1>4, <1>5 DEF InSync
  <2>2. \A t \in Scheds : t # s => InSync(t)'
    BY <1>1, <1>2, <1>5, InSyncKept DEF IInv, Syncing
  <2> QED BY <2>1, <2>2 DEF Syncing
<1>10. Completion'
  BY <1>1, <1>2, <1>3, <1>4, <1>5, CompletionInside DEF stateVars
<1>11. Counted'
  <2>1. \A t \in Scheds : Behind(t)' = Behind(t)
    BY <1>1, <1>2, <1>5 DEF Behind
  <2> QED BY <1>1, <2>1, CountedKept DEF IInv
<1> QED BY <1>6, <1>7, <1>8, <1>9, <1>10, <1>11 DEF IInv

(* ... and adds its process to it. *)
LEMMA BarAddStep ==
  ASSUME IInv, NEW s \in Scheds, BarAdd(s)
  PROVE  IInv'
<1>1. /\ pc[s] = "bar_add" /\ pc' = [pc EXCEPT ![s] = "bar_cas"]
      /\ head' = [head EXCEPT ![s].procs = @ \cup {cur[s]}]
      /\ UNCHANGED <<cur, queued, count, tag, syncing, heads, seen, rel, ret, ctag, todo, idx,
                     enrolled, waiting>>
  BY DEF BarAdd, Goto, stateVars, localVars, completeVars, histVars
<1>2. /\ pc'[s] = "bar_cas" /\ At(s) = "bar_add" /\ At(s)' = "bar_cas"
      /\ \A t \in Scheds : t # s => pc'[t] = pc[t] /\ At(t)' = At(t)
      /\ pc' \in [Scheds -> Labels]
  BY <1>1, GotoAt DEF IInv, Labels, SyncLabels, Letting
<1>3. Inside(s) /\ ~Completing(s) /\ ~Completing(s)' /\ Inside(s)'
  BY <1>2 DEF Inside, Completing, SyncLabels, CompleteLabels, EndLabels
<1>4. /\ head[s].used /\ head[s].tag = tag /\ s \in heads
      /\ seen[s].tag = tag /\ (syncing => seen[s].syncing)
  BY <1>1, <1>2 DEF IInv, Syncing, InSync, SyncLabels, Phases, HeadPhase
<1>5. /\ head' \in [Scheds -> [tag : Tags, procs : SUBSET Procs, used : BOOLEAN]]
      /\ head'[s].used /\ head'[s].tag = tag /\ head'[s].procs = head[s].procs \cup {cur[s]}
      /\ \A t \in Scheds : t # s => head'[t] = head[t]
  <2>1. cur[s] \in Procs
    BY <1>3 DEF IInv, Types, TypeOK, Places
  <2> QED BY ZenonT(40), <1>1, <1>4, <2>1 DEF IInv, Types, TypeOK
<1>6. /\ cur[s] \in enrolled /\ cur[s] \notin waiting /\ Running(cur[s])
      /\ \A t \in Scheds : /\ cur[t] = cur[s] => t = s
                           /\ cur[s] \notin rel[t] /\ cur[s] \notin head[t].procs
  BY <1>1, <1>3 DEF IInv, Places, Running
<1>7. Types'
  BY <1>1, <1>2, <1>5 DEF IInv, Types, TypeOK
<1>8. Places'
  <2>1. \A t \in Scheds :
           /\ head'[t].procs = head[t].procs \/ (t = s /\ head'[t].procs = head[t].procs \cup {cur[s]})
           /\ ~head'[t].used => head'[t].procs = {}
           /\ pc'[t] \in Letting <=> pc[t] \in Letting
           /\ Inside(t)' <=> Inside(t)
           /\ pc'[t] = "sched" => pc[t] = "sched"
           /\ pc[t] = "bar_cas" => pc'[t] = "bar_cas"
    BY <1>1, <1>2, <1>3, <1>5 DEF IInv, Places, Letting, Inside
  <2>2. \A p : (Running(p)' <=> Running(p)) /\ (p # cur[s] => (Held(p)' <=> Held(p)))
    BY <1>1, <2>1 DEF Running, Held
  <2>3. \A t, u \in Scheds :
          /\ t # u => head'[t].procs \cap head'[u].procs = {} /\ rel'[t] \cap rel'[u] = {}
          /\ head'[t].procs \cap rel'[u] = {}
    BY <1>1, <1>6, <2>1 DEF IInv, Places
  <2>4. \A p \in Procs : queued'[p] = 1 => p \in enrolled' /\ ~Running(p)' /\ ~Held(p)'
    BY <1>1, <1>6, <2>2 DEF IInv, Places
  <2>5. \A p \in waiting' : \E t \in Scheds : p \in head'[t].procs
    BY <1>1, <2>1 DEF IInv, Places
  <2>6. \A t \in Scheds : Inside(t)' =>
          /\ cur'[t] \in enrolled' /\ cur'[t] \notin waiting'
          /\ \A u \in Scheds :
               /\ cur'[u] = cur'[t] => u = t
               /\ cur'[t] \notin rel'[u]
               /\ cur'[t] \in head'[u].procs => u = t /\ pc'[t] = "bar_cas"
    BY <1>1, <1>2, <1>6, <2>1 DEF IInv, Places
  <2>7. \A t \in Scheds : head'[t].procs \cup rel'[t] \subseteq enrolled'
    BY <1>1, <1>6, <2>1 DEF IInv, Places
  <2> QED BY <1>1, <1>2, <2>1, <2>3, <2>4, <2>5, <2>6, <2>7 DEF IInv, Places
<1>9. Phases'
  <2>1. HeadPhase(s)'
    <3>1. head[s].procs \subseteq waiting \cup {cur[s]}
      BY <1>4 DEF IInv, Phases, HeadPhase
    <3> QED BY <1>1, <1>4, <1>5, <3>1 DEF HeadPhase
  <2>2. ASSUME NEW t \in Scheds, t # s PROVE HeadPhase(t)'
    <3>1. \A c \in Scheds : Pending(t, c) => Pending(t, c)'
      BY <1>1, <1>2, <1>3, PendingKept
    <3>2. \A c \in Scheds : pc[c] = "complete" => pc'[c] = "complete"
      BY <1>1, <1>2
    <3> QED BY <1>1, <1>2, <1>5, <2>2, <3>1, <3>2 DEF IInv, Phases, HeadPhase
  <2> QED BY <2>1, <2>2 DEF Phases
<1>10. Syncing'
  <2>1. InSync(s)'
    BY <1>1, <1>2, <1>4, <1>5 DEF InSync
  <2>2. \A t \in Scheds : t # s => InSync(t)'
    BY <1>1, <1>2, <1>5, InSyncKept DEF IInv, Syncing
  <2> QED BY <2>1, <2>2 DEF Syncing
<1>11. Completion'
  BY <1>1, <1>2, <1>3, <1>4, <1>5, CompletionInside DEF stateVars
<1>12. Counted'
  <2>1. \A t \in Scheds : Behind(t)' = Behind(t)
    BY <1>1, <1>2, <1>4, <1>5 DEF Behind
  <2> QED BY <1>1, <2>1, CountedKept DEF IInv
<1> QED BY <1>7, <1>8, <1>9, <1>10, <1>11, <1>12 DEF IInv

-----------------------------------------------------------------------------
(* bar_complete_head begins: scheduler s takes the processes out of head x *)
(* of the last phase.  They stay late.                                     *)
LEMMA TakeKeeps ==
  ASSUME IInv, NEW s \in Scheds, NEW x \in Scheds,
         pc[s] \notin Letting, pc[s] # "bar_cas", pc' = [pc EXCEPT ![s] = "add_count"],
         head[x].tag # tag, head[x].procs # {},
         rel' = [rel EXCEPT ![s] = head[x].procs], head'[x].procs = {},
         \A t \in Scheds : t # x => head'[t] = head[t],
         ret'[s] # "sched", \A t \in Scheds : t # s => ret'[t] = ret[t],
         Inside(s)' <=> Inside(s),
         UNCHANGED <<queued, cur, waiting, enrolled, count, syncing, tag>>
  PROVE  Places' /\ Counted'
<1>1. /\ pc'[s] = "add_count" /\ rel'[s] = head[x].procs /\ rel[s] = {}
      /\ \A t \in Scheds : t # s => pc'[t] = pc[t] /\ rel'[t] = rel[t]
  BY DEF IInv, Types, TypeOK, Places
<1>2. \A t \in Scheds : Inside(t)' <=> Inside(t)
  BY <1>1 DEF Inside, At
<1>3. head[x].procs \cap waiting = {} /\ head[x].used
  BY DEF IInv, Places, Phases, HeadPhase
<1>4. \A p : (Running(p)' <=> Running(p)) /\ (Held(p)' <=> Held(p))
  BY <1>1 DEF Running, Held
<1>5. \A t, u \in Scheds :
        /\ t # u => head'[t].procs \cap head'[u].procs = {} /\ rel'[t] \cap rel'[u] = {}
        /\ head'[t].procs \cap rel'[u] = {}
  BY <1>1 DEF IInv, Places
<1>6. \A p \in waiting' : \E t \in Scheds : p \in head'[t].procs
  BY <1>3 DEF IInv, Places
<1>7. \A t \in Scheds :
        /\ head'[t].procs \cup rel'[t] \subseteq enrolled' /\ rel'[t] \cap waiting' = {}
        /\ ~head'[t].used => head'[t].procs = {}
        /\ rel'[t] = {} <=> pc'[t] \notin Letting
        /\ pc'[t] \in Letting => ret'[t] # "sched"
        /\ pc'[t] = "sched" => cur'[t] = NotProcess
  BY <1>1, <1>3 DEF IInv, Places, Letting
<1>9. ASSUME NEW t \in Scheds, Inside(t)'
      PROVE  /\ cur'[t] \in enrolled' /\ cur'[t] \notin waiting'
             /\ \A u \in Scheds :
                  /\ cur'[u] = cur'[t] => u = t
                  /\ cur'[t] \notin rel'[u]
                  /\ cur'[t] \in head'[u].procs => u = t /\ pc'[t] = "bar_cas"
  <2>1. cur[t] \notin head[x].procs
    <3>1. ASSUME cur[t] \in head[x].procs PROVE FALSE
      <4>1. x = t /\ pc[t] = "bar_cas"
        BY <1>2, <1>9, <3>1 DEF IInv, Places
      <4> QED BY <4>1 DEF IInv, Syncing, InSync
    <3> QED BY <3>1
  <2>2. Inside(t)
    BY <1>2, <1>9
  <2> QED BY <1>1, <2>1, <2>2 DEF IInv, Places
<1>10. Places'
  BY <1>2, <1>4, <1>5, <1>6, <1>7, <1>9 DEF IInv, Places
<1>11. Counted'
  <2>1. \A p \in Procs : (\E t \in Scheds : p \in Behind(t)') <=> (\E t \in Scheds : p \in Behind(t))
    <3>1. ASSUME NEW p \in Procs, NEW t \in Scheds, p \in Behind(t)'
          PROVE  \E u \in Scheds : p \in Behind(u)
      <4>1. CASE p \in head[x].procs
        BY <4>1 DEF Behind
      <4>2. CASE p \notin head[x].procs
        <5>1. p \in Behind(t)
          BY <1>1, <3>1, <4>2 DEF Behind
        <5> QED BY <5>1
      <4> QED BY <4>1, <4>2
    <3>2. ASSUME NEW p \in Procs, NEW t \in Scheds, p \in Behind(t)
          PROVE  \E u \in Scheds : p \in Behind(u)'
      <4>1. CASE p \in head[x].procs
        BY <1>1, <4>1 DEF Behind
      <4>2. CASE p \notin head[x].procs
        <5>1. p \in Behind(t)'
          BY <1>1, <3>2, <4>2 DEF Behind
        <5> QED BY <5>1
      <4> QED BY <4>1, <4>2
    <3> QED BY <3>1, <3>2
  <2>2. Late' = Late
    BY <2>1 DEF Late
  <2> QED BY <2>2 DEF IInv, Counted
<1> QED BY <1>10, <1>11

(* bar_sync takes its own head out of the way of the new phase. *)
LEMMA BarSwapStep ==
  ASSUME IInv, NEW s \in Scheds, BarSwap(s)
  PROVE  IInv'
<1>1. /\ pc[s] = "bar_swap" /\ head' = [head EXCEPT ![s] = Null]
      /\ UNCHANGED <<cur, queued, count, tag, syncing, heads, seen, ctag, todo, idx,
                     enrolled, waiting>>
  BY DEF BarSwap, SetHead, Goto, stateVars, completeVars, histVars
<1>2. At(s) = "bar_swap" /\ Inside(s) /\ ~Completing(s)
  BY <1>1 DEF At, Letting, Inside, Completing, SyncLabels, CompleteLabels, EndLabels
<1>3. /\ ~head[s].used \/ head[s].tag # tag
      /\ seen[s].tag = tag /\ (syncing => seen[s].syncing)
  BY <1>1, <1>2 DEF IInv, Syncing, InSync, SyncLabels
<1>4. /\ head' \in [Scheds -> [tag : Tags, procs : SUBSET Procs, used : BOOLEAN]]
      /\ ~head'[s].used /\ head'[s].procs = {}
      /\ \A t \in Scheds : t # s => head'[t] = head[t]
  BY <1>1 DEF IInv, Types, TypeOK, Null, Tags
<1>5. s \notin heads
  <2>1. \A c \in Scheds : pc[c] # "complete"
    BY <1>2, NotEnding
  <2> QED BY <1>1, <1>3, <2>1 DEF IInv, Phases, HeadPhase
<1>6. head[s].used => head[s].procs # {}
  BY <1>2, <1>3 DEF IInv, Phases, HeadPhase
<1>7. At(s)' = "bar_bit" /\ \A t \in Scheds : t # s => pc'[t] = pc[t] /\ At(t)' = At(t)
  <2>1. CASE head[s].used
    <3>1. pc' = [pc EXCEPT ![s] = "add_count"] /\ ret' = [ret EXCEPT ![s] = "bar_bit"]
      BY <2>1 DEF BarSwap, CompleteHead, Goto
    <3> QED BY <3>1 DEF At, Letting, IInv, Types
  <2>2. CASE ~head[s].used
    <3>1. pc' = [pc EXCEPT ![s] = "bar_bit"] /\ ret' = ret
      BY <2>2 DEF BarSwap, Goto
    <3> QED BY <3>1 DEF At, Letting, IInv, Types
  <2> QED BY <2>1, <2>2
<1>8. Inside(s)' /\ ~Completing(s)'
  BY <1>7 DEF Inside, Completing, SyncLabels, CompleteLabels, EndLabels
<1>9. Types' /\ Places' /\ Counted' /\ pc'[s] \in {"add_count", "bar_bit"}
  <2>1. CASE head[s].used
    <3>1. /\ pc' = [pc EXCEPT ![s] = "add_count"] /\ ret' = [ret EXCEPT ![s] = "bar_bit"]
          /\ rel' = [rel EXCEPT ![s] = head[s].procs]
      BY <2>1 DEF BarSwap, CompleteHead, Goto
    <3>2. /\ pc' \in [Scheds -> Labels] /\ rel' \in [Scheds -> SUBSET Procs]
          /\ ret' \in [Scheds -> {"sched", "bar_bit", "local_clear", "next_head"}]
          /\ ret'[s] = "bar_bit" /\ (\A t \in Scheds : t # s => ret'[t] = ret[t])
          /\ pc'[s] = "add_count"
      BY <3>1 DEF IInv, Types, TypeOK, Labels, Letting
    <3>3. Types'
      BY <1>1, <1>4, <3>2 DEF IInv, Types, TypeOK
    <3>4. Places' /\ Counted'
      <4>1. /\ pc[s] \notin Letting /\ pc[s] # "bar_cas" /\ ret'[s] # "sched"
            /\ head[s].tag # tag /\ head[s].procs # {} /\ (Inside(s)' <=> Inside(s))
        BY <1>1, <1>2, <1>3, <1>6, <1>8, <2>1, <3>2 DEF Letting
      <4>2. UNCHANGED <<queued, cur, waiting, enrolled, count, syncing, tag>>
        BY <1>1
      <4> QED BY ZenonT(40), <1>4, <3>1, <3>2, <4>1, <4>2, TakeKeeps
    <3> QED BY <3>2, <3>3, <3>4
  <2>2. CASE ~head[s].used
    <3>1. pc' = [pc EXCEPT ![s] = "bar_bit"] /\ UNCHANGED <<rel, ret>>
      BY <2>2 DEF BarSwap, Goto
    <3>2. pc' \in [Scheds -> Labels] /\ pc'[s] = "bar_bit"
      BY <3>1 DEF IInv, Types, Labels, SyncLabels
    <3>3. Types'
      BY <1>1, <1>4, <3>1, <3>2 DEF IInv, Types, TypeOK
    <3>4. head[s].procs = {}
      BY <2>2 DEF IInv, Places
    <3>5. Places'
      <4>1. \A t \in Scheds :
           /\ head'[t].procs = head[t].procs /\ (~head'[t].used => head[t].procs = {})
           /\ pc'[t] \in Letting <=> pc[t] \in Letting
           /\ pc'[t] \in Letting => ret'[t] # "sched"
           /\ Inside(t)' <=> Inside(t)
           /\ pc[t] = "bar_cas" => pc'[t] = "bar_cas"
           /\ pc'[t] = "sched" => pc[t] = "sched"
        BY ZenonT(40), <1>1, <1>2, <1>4, <1>7, <1>8, <3>1, <3>2, <3>4 DEF IInv, Places, Letting, Inside
      <4> QED BY <1>1, <3>1, <4>1, PlacesKept DEF IInv
    <3>6. Counted'
      <4>1. \A t \in Scheds : Behind(t)' = Behind(t)
        BY <1>1, <1>4, <1>7, <3>1, <3>2, <3>4 DEF Behind
      <4> QED BY <1>1, <4>1, CountedKept DEF IInv
    <3> QED BY <3>2, <3>3, <3>5, <3>6
  <2> QED BY <2>1, <2>2
<1>10. Phases'
  <2>1. HeadPhase(s)'
    BY <1>1, <1>4, <1>5 DEF HeadPhase
  <2>2. ASSUME NEW t \in Scheds, t # s PROVE HeadPhase(t)'
    <3>1. \A c \in Scheds : Pending(t, c) => Pending(t, c)'
      BY <1>1, <1>2, <1>7, PendingKept
    <3>2. \A c \in Scheds : pc[c] = "complete" => pc'[c] = "complete"
      BY <1>1, <1>7
    <3> QED BY <1>1, <1>4, <1>7, <2>2, <3>1, <3>2 DEF IInv, Phases, HeadPhase
  <2> QED BY <2>1, <2>2 DEF Phases
<1>11. Syncing'
  <2>1. InSync(s)'
    BY <1>1, <1>3, <1>4, <1>7, <1>9 DEF InSync
  <2>2. \A t \in Scheds : t # s => InSync(t)'
    BY <1>1, <1>4, <1>7, InSyncKept DEF IInv, Syncing
  <2> QED BY <2>1, <2>2 DEF Syncing
<1>12. Completion'
  BY <1>1, <1>2, <1>3, <1>4, <1>7, <1>8, CompletionInside DEF stateVars
<1> QED BY <1>9, <1>10, <1>11, <1>12 DEF IInv

(* bar_complete_head gives the count back before it lets anybody go. *)
LEMMA AddCountStep ==
  ASSUME IInv, NEW s \in Scheds, AddCount(s)
  PROVE  IInv'
<1>1. /\ pc[s] = "add_count" /\ pc' = [pc EXCEPT ![s] = "release"]
      /\ count' = count + Cardinality(rel[s])
      /\ UNCHANGED <<cur, queued, tag, syncing, heads, head, seen, rel, ret, ctag, todo, idx,
                     enrolled, waiting>>
  BY DEF AddCount, Goto, localVars, completeVars, histVars
<1>2. /\ pc'[s] = "release" /\ (\A t \in Scheds : t # s => pc'[t] = pc[t])
      /\ (\A t \in Scheds : At(t)' = At(t)) /\ pc' \in [Scheds -> Labels]
  <2>1. /\ pc'[s] = "release" /\ (\A t \in Scheds : t # s => pc'[t] = pc[t])
        /\ pc' \in [Scheds -> Labels]
    BY <1>1 DEF IInv, Types, Labels, Letting
  <2> QED BY <1>1, <2>1 DEF At, Letting
<1>3. \A t \in Scheds : (Inside(t)' <=> Inside(t)) /\ (Completing(t)' <=> Completing(t))
  BY <1>2 DEF Inside, Completing
<1>4. \A c \in Scheds : pc[c] \notin EndLabels
  <2>1. Inside(s) \/ Completing(s)
    BY <1>1 DEF IInv, Types, Places, At, Letting, Inside, Completing, SyncLabels, CompleteLabels
  <2>2. CASE Inside(s)
    BY <2>2, NotEnding
  <2>3. CASE Completing(s)
    <3>1. \A c \in Scheds : pc[c] \in EndLabels => Completing(c) /\ c # s
      BY <1>1 DEF Completing, At, Letting, EndLabels, CompleteLabels
    <3> QED BY <2>3, <3>1 DEF IInv, Completion
  <2> QED BY <2>1, <2>2, <2>3
<1>5. Types'
  <2>1. count' \in Nat
    BY <1>1, FiniteParts DEF IInv, Types, TypeOK
  <2> QED BY <1>1, <1>2, <2>1 DEF IInv, Types, TypeOK
<1>6. Places'
  <2>1. \A t \in Scheds :
           /\ head'[t].procs = head[t].procs /\ (~head'[t].used => head[t].procs = {})
           /\ pc'[t] \in Letting <=> pc[t] \in Letting
           /\ pc'[t] \in Letting => ret'[t] # "sched"
           /\ Inside(t)' <=> Inside(t)
           /\ pc[t] = "bar_cas" => pc'[t] = "bar_cas"
           /\ pc'[t] = "sched" => pc[t] = "sched"
    BY <1>1, <1>2, <1>3 DEF IInv, Places, Letting
  <2> QED BY <1>1, <2>1, PlacesKept DEF IInv
<1>7. Phases'
  <2>1. \A t, c \in Scheds : Pending(t, c) => Pending(t, c)'
    BY <1>1, <1>2, <1>3 DEF Pending
  <2> QED BY <1>1, <1>2, <2>1, PhasesKept DEF IInv
<1>8. Syncing'
  <2>1. \A t \in Scheds : InSync(t)'
    BY <1>1, <1>2 DEF IInv, Syncing, InSync
  <2> QED BY <2>1 DEF Syncing
<1>9. Completion'
  <2>1. \A c \in Scheds : pc'[c] \notin EndLabels /\ (pc'[c] = "complete" <=> pc[c] = "complete")
    BY <1>1, <1>2, <1>4 DEF EndLabels
  <2>2. \A c \in Scheds : pc'[c] \in {"set_bit", "take_head"} => pc'[c] = pc[c]
    BY <1>1, <1>2
  <2> QED BY <1>1, <1>2, <1>3, <2>1, <2>2 DEF IInv, Completion, EndLabels
<1>10. Counted'
  <2>1. Late' = Late \ rel[s]
    <3>1. \A t \in Scheds : t # s => Behind(t)' = Behind(t) /\ Behind(t) \cap rel[s] = {}
      BY <1>1, <1>2 DEF IInv, Places, Behind
    <3>2. Behind(s) = Behind(s)' \cup rel[s] /\ Behind(s)' \cap rel[s] = {}
      BY <1>1, <1>2 DEF IInv, Places, Behind
    <3> QED BY <3>1, <3>2 DEF Late
  <2>2. rel[s] \in SUBSET Late
    BY <1>1 DEF IInv, Types, TypeOK, Late, Behind
  <2>3. Cardinality(Late') = Cardinality(Late) - Cardinality(rel[s])
    <3>1. Cardinality(Late \ rel[s]) = Cardinality(Late) - Cardinality(Late \cap rel[s])
      BY FiniteParts, FS_Difference DEF IInv
    <3>2. Late \cap rel[s] = rel[s]
      BY <2>2
    <3> QED BY <2>1, <3>1, <3>2
  <2> QED BY <1>1, <2>3, FiniteParts DEF IInv, Counted, Types, TypeOK
<1> QED BY <1>5, <1>6, <1>7, <1>8, <1>9, <1>10 DEF IInv

(* bar_complete_head lets a process go, and returns after the last one. *)
LEMMA ReleaseStep ==
  ASSUME IInv, NEW s \in Scheds, NEW p \in Procs, Release(s, p)
  PROVE  IInv'
<1>1. /\ pc[s] = "release" /\ p \in rel[s]
      /\ queued' = [queued EXCEPT ![p] = @ + 1] /\ rel' = [rel EXCEPT ![s] = @ \ {p}]
      /\ pc' = [pc EXCEPT ![s] = IF rel[s] = {p} THEN ret[s] ELSE "release"]
      /\ ret' = IF rel[s] = {p} THEN [ret EXCEPT ![s] = "sched"] ELSE ret
      /\ UNCHANGED <<cur, count, tag, syncing, heads, head, seen, ctag, todo, idx, enrolled, waiting>>
  BY DEF Release, EnqueueProcess, Goto, barVars, stateVars, completeVars, histVars
<1>2. ret[s] \in {"bar_bit", "local_clear", "next_head"}
  BY <1>1 DEF IInv, Types, Places, Letting
<1>3. /\ pc' \in [Scheds -> Labels] /\ rel' \in [Scheds -> SUBSET Procs]
      /\ ret' \in [Scheds -> {"sched", "bar_bit", "local_clear", "next_head"}]
      /\ queued' \in [Procs -> Nat]
  BY <1>1, <1>2 DEF IInv, Types, TypeOK, Labels, Letting, SyncLabels, CompleteLabels
<1>4. /\ rel'[s] = rel[s] \ {p} /\ \A t \in Scheds : t # s => rel'[t] = rel[t]
      /\ pc'[s] = IF rel[s] = {p} THEN ret[s] ELSE "release"
      /\ \A t \in Scheds : t # s => pc'[t] = pc[t] /\ ret'[t] = ret[t]
      /\ rel[s] # {p} => ret'[s] = ret[s]
  BY <1>1 DEF IInv, Types, TypeOK
<1>5. \A t \in Scheds : At(t)' = At(t)
  BY <1>1, <1>2, <1>4 DEF At, Letting
<1>6. \A t \in Scheds : (Inside(t)' <=> Inside(t)) /\ (Completing(t)' <=> Completing(t))
  BY <1>5 DEF Inside, Completing
<1>7. \A t \in Scheds :
        /\ pc'[t] \notin {"release", "bar_bit", "local_clear", "next_head"} => pc'[t] = pc[t]
        /\ pc[t] # "release" => pc'[t] = pc[t]
  BY <1>1, <1>2, <1>4
<1>8. Types'
  BY <1>1, <1>3 DEF IInv, Types, TypeOK
<1>9. Places'
  <2>1. p \in enrolled /\ Held(p) /\ p \notin waiting
    BY <1>1 DEF IInv, Places, Held
  <2>2. queued[p] = 0 /\ queued'[p] = 1 /\ \A q \in Procs : q # p => queued'[q] = queued[q]
    BY <1>1, <2>1 DEF IInv, Places, Types, TypeOK
  <2>3. ~Running(p)
    BY <1>1, <2>1 DEF IInv, Places, Running
  <2>4. ~Held(p)'
    BY <1>1, <1>4 DEF IInv, Places, Held
  <2>5. \A q : (Running(q)' <=> Running(q)) /\ (Held(q)' => Held(q))
    BY <1>1, <1>4 DEF Running, Held
  <2>6. \A q \in Procs : queued'[q] \in {0, 1} /\ (queued'[q] = 1 => q \in enrolled' /\ ~Running(q)' /\ ~Held(q)')
    BY <1>1, <2>1, <2>2, <2>3, <2>4, <2>5 DEF IInv, Places
  <2>7. \A t, u \in Scheds :
          /\ t # u => head'[t].procs \cap head'[u].procs = {} /\ rel'[t] \cap rel'[u] = {}
          /\ head'[t].procs \cap rel'[u] = {}
    BY <1>1, <1>4 DEF IInv, Places
  <2>8. \A t \in Scheds :
          /\ head'[t].procs \cup rel'[t] \subseteq enrolled' /\ rel'[t] \cap waiting' = {}
          /\ ~head'[t].used => head'[t].procs = {}
    BY <1>1, <1>4 DEF IInv, Places
  <2>9. \A t \in Scheds :
          /\ rel'[t] = {} <=> pc'[t] \notin Letting
          /\ pc'[t] \in Letting => ret'[t] # "sched"
          /\ pc'[t] = "sched" => cur'[t] = NotProcess
    <3>1. rel'[s] = {} <=> rel[s] = {p}
      BY <1>1, <1>4
    <3> QED BY <1>1, <1>2, <1>4, <3>1 DEF IInv, Places, Letting
  <2>10. \A t \in Scheds : Inside(t)' =>
          /\ cur'[t] \in enrolled' /\ cur'[t] \notin waiting'
          /\ \A u \in Scheds :
               /\ cur'[u] = cur'[t] => u = t
               /\ cur'[t] \notin rel'[u]
               /\ cur'[t] \in head'[u].procs => u = t /\ pc'[t] = "bar_cas"
    BY <1>1, <1>4, <1>6, <1>7 DEF IInv, Places
  <2>11. waiting' \subseteq enrolled' /\ \A q \in waiting' : \E t \in Scheds : q \in head'[t].procs
    BY <1>1 DEF IInv, Places
  <2>12. \A t \in Scheds : ~Inside(t)' => cur'[t] \notin enrolled'
    BY <1>1, <1>6 DEF IInv, Places
  <2> QED BY <2>6, <2>7, <2>8, <2>9, <2>10, <2>11, <2>12 DEF Places
<1>10. Phases'
  <2>1. \A t, c \in Scheds : Pending(t, c) => Pending(t, c)'
    BY <1>1, <1>6, <1>7 DEF Pending
  <2> QED BY <1>1, <1>5, <1>7, <2>1, PhasesKept DEF IInv
<1>11. Syncing'
  <2>1. \A t \in Scheds : InSync(t)'
    BY <1>1, <1>5, <1>7 DEF IInv, Syncing, InSync
  <2> QED BY <2>1 DEF Syncing
<1>12. Completion'
  <2>1. \A c \in Scheds :
          /\ pc'[c] \in EndLabels \cup {"complete", "set_bit", "take_head"} => pc'[c] = pc[c]
          /\ pc[c] = "complete" => pc'[c] = "complete"
    BY <1>7 DEF EndLabels
  <2> QED BY <1>1, <1>5, <1>6, <2>1 DEF IInv, Completion, EndLabels
<1>13. Counted'
  <2>1. \A t \in Scheds : Behind(t)' = Behind(t)
    BY <1>1, <1>2, <1>4 DEF Behind
  <2> QED BY <1>1, <2>1, CountedKept DEF IInv
<1> QED BY <1>8, <1>9, <1>10, <1>11, <1>12, <1>13 DEF IInv

-----------------------------------------------------------------------------
(* A step of bar_complete that leaves the processes where they are. *)
LEMMA CompleterKeeps ==
  ASSUME IInv, NEW s \in Scheds, NEW l \in CompleteLabels, pc[s] \in CompleteLabels,
         pc' = [pc EXCEPT ![s] = l], heads \subseteq heads', heads' \subseteq Scheds,
         \A t \in Scheds : t # s => head'[t] = head[t],
         head' = head \/ (head[s].procs = {} /\ head'[s] = Null),
         head' \in [Scheds -> [tag : Tags, procs : SUBSET Procs, used : BOOLEAN]],
         todo' \in [Scheds -> SUBSET Scheds], idx' \in [Scheds -> Scheds],
         UNCHANGED <<cur, queued, count, tag, syncing, seen, rel, ret, ctag, enrolled, waiting>>
  PROVE  /\ Types' /\ Places' /\ Syncing' /\ Counted'
         /\ pc'[s] = l /\ At(s)' = l /\ Completing(s) /\ Completing(s)'
         /\ \A t \in Scheds : t # s => /\ pc'[t] = pc[t] /\ At(t)' = At(t)
                                       /\ ~Completing(t) /\ ~Completing(t)'
<1>1. l \in Labels \ Letting /\ pc[s] \notin Letting
  BY DEF Labels, Letting, CompleteLabels, EndLabels
<1>2. /\ pc'[s] = l /\ At(s) = pc[s] /\ At(s)' = l
      /\ \A t \in Scheds : t # s => pc'[t] = pc[t] /\ At(t)' = At(t)
      /\ pc' \in [Scheds -> Labels]
  BY <1>1, GotoAt DEF IInv
<1>3. Completing(s) /\ Completing(s)' /\ ~Inside(s) /\ ~Inside(s)'
  BY <1>2 DEF Inside, Completing, UserLabels, SyncLabels, CompleteLabels, EndLabels
<1>4. \A t \in Scheds : t # s => ~Completing(t) /\ ~Completing(t)'
  BY <1>2, <1>3 DEF IInv, Completion, Completing
<1>5. Types'
  BY <1>2 DEF IInv, Types, TypeOK
<1>6. Places'
  <2>1. \A t \in Scheds :
           /\ head'[t].procs = head[t].procs /\ (~head'[t].used => head[t].procs = {})
           /\ pc'[t] \in Letting <=> pc[t] \in Letting
           /\ pc'[t] \in Letting => ret'[t] # "sched"
           /\ Inside(t)' <=> Inside(t)
           /\ pc[t] = "bar_cas" => pc'[t] = "bar_cas"
           /\ pc'[t] = "sched" => pc[t] = "sched"
    <3>1. /\ pc[s] # "bar_cas" /\ l # "sched" /\ (pc'[s] \notin Letting) /\ (pc[s] \notin Letting)
          /\ (Inside(s)' <=> Inside(s))
      BY <1>1, <1>2, <1>3 DEF CompleteLabels, EndLabels
    <3>2. \A t \in Scheds :
            head'[t].procs = head[t].procs /\ (~head'[t].used => head[t].procs = {})
      <4>1. \A t \in Scheds : ~head[t].used => head[t].procs = {}
        BY DEF IInv, Places
      <4>2. Null.procs = {}
        BY DEF Null
      <4> QED BY <4>1, <4>2
    <3>3. \A t \in Scheds : t # s => (Inside(t)' <=> Inside(t))
      BY <1>2 DEF Inside
    <3>4. \A t \in Scheds : pc[t] \in Letting => ret[t] # "sched"
      BY DEF IInv, Places
    <3> QED BY <1>2, <3>1, <3>2, <3>3, <3>4
  <2> QED BY <2>1, PlacesKept DEF IInv
<1>7. Syncing'
  <2>1. InSync(s)'
    BY <1>2 DEF InSync, SyncLabels, CompleteLabels, EndLabels
  <2>2. \A t \in Scheds : t # s => InSync(t)'
    BY <1>2, InSyncKept DEF IInv, Syncing
  <2> QED BY <2>1, <2>2 DEF Syncing
<1>8. Counted'
  <2>1. \A t \in Scheds : Behind(t)' = Behind(t)
    BY <1>1, <1>2 DEF Behind, Letting, Null
  <2> QED BY <2>1, CountedKept DEF IInv
<1> QED BY <1>2, <1>3, <1>4, <1>5, <1>6, <1>7, <1>8

(* bar_complete clears the word of its own head. *)
LEMMA LocalClearStep ==
  ASSUME IInv, NEW s \in Scheds, LocalClear(s)
  PROVE  IInv'
<1>1. /\ pc[s] = "local_clear" /\ pc' = [pc EXCEPT ![s] = "next_head"]
      /\ head' = [head EXCEPT ![s] = Null]
      /\ UNCHANGED <<cur, queued, count, tag, syncing, heads, seen, rel, ret, ctag, todo, idx,
                     enrolled, waiting>>
  BY DEF LocalClear, SetHead, Goto, stateVars, localVars, completeVars, histVars
<1>2. "next_head" \in CompleteLabels /\ pc[s] \in CompleteLabels /\ At(s) = "local_clear"
  BY <1>1 DEF CompleteLabels, At, Letting
<1>3. head[s].used /\ head[s].procs = {} /\ head[s].tag # tag
  <2>1. Completing(s)
    BY <1>2 DEF Completing, CompleteLabels
  <2> QED BY <1>2, <2>1 DEF IInv, Completion
<1>4. /\ head' \in [Scheds -> [tag : Tags, procs : SUBSET Procs, used : BOOLEAN]]
      /\ head'[s] = Null /\ ~head'[s].used /\ head'[s].procs = {}
      /\ \A t \in Scheds : t # s => head'[t] = head[t]
  BY <1>1 DEF IInv, Types, TypeOK, Null, Tags
<1>5. /\ Types' /\ Places' /\ Syncing' /\ Counted'
      /\ pc'[s] = "next_head" /\ At(s)' = "next_head" /\ Completing(s) /\ Completing(s)'
      /\ \A t \in Scheds : t # s => /\ pc'[t] = pc[t] /\ At(t)' = At(t)
                                    /\ ~Completing(t) /\ ~Completing(t)'
  <2>1. heads' \subseteq Scheds /\ todo' \in [Scheds -> SUBSET Scheds] /\ idx' \in [Scheds -> Scheds]
    BY <1>1 DEF IInv, Types, TypeOK
  <2> QED BY <1>1, <1>2, <1>3, <1>4, <2>1, CompleterKeeps
<1>6. \A c \in Scheds : pc[c] # "complete" /\ pc'[c] # "complete"
  BY <1>1, <1>5 DEF Completing, At, Letting, CompleteLabels
<1>7. Phases'
  <2>1. HeadPhase(s)'
    BY <1>1, <1>3, <1>4, <1>6 DEF IInv, Phases, HeadPhase
  <2>2. ASSUME NEW t \in Scheds, t # s PROVE HeadPhase(t)'
    <3>1. \A c \in Scheds : Pending(t, c) => Pending(t, c)'
      BY <1>1, <1>5, <1>6 DEF Pending
    <3> QED BY <1>1, <1>4, <1>5, <1>6, <2>2, <3>1 DEF IInv, Phases, HeadPhase
  <2> QED BY <2>1, <2>2 DEF Phases
<1>8. Completion'
  BY <1>1, <1>4, <1>5 DEF IInv, Completion, EndLabels
<1> QED BY <1>5, <1>7, <1>8 DEF IInv

(* bar_complete looks at the next head, *)
LEMMA NextHeadStep ==
  ASSUME IInv, NEW s \in Scheds, NEW i \in Scheds, NextHead(s, i)
  PROVE  IInv'
<1>1. /\ pc[s] = "next_head" /\ i \in todo[s] /\ todo' = [todo EXCEPT ![s] = @ \ {i}]
      /\ UNCHANGED <<cur, queued, count, tag, syncing, heads, head, seen, rel, ret, ctag,
                     enrolled, waiting>>
  BY DEF NextHead, Goto, barVars, stateVars, histVars
<1>2. pc[s] \in CompleteLabels /\ At(s) = "next_head" /\ Completing(s)
  BY <1>1 DEF CompleteLabels, At, Letting, Completing
<1>3. ctag[s] = tag /\ i # s /\ s \notin todo[s]
  BY <1>1, <1>2 DEF IInv, Completion
<1>4. PICK l \in {"set_bit", "take_head", "next_head"} :
        /\ pc' = [pc EXCEPT ![s] = l]
        /\ IF head[i].used THEN idx' = [idx EXCEPT ![s] = i] ELSE idx' = idx
        /\ head[i].used => l = IF head[i].tag = tag THEN "set_bit" ELSE "take_head"
        /\ ~head[i].used => l = "next_head"
  <2>1. CASE head[i].used
    <3>1. /\ idx' = [idx EXCEPT ![s] = i]
          /\ pc' = [pc EXCEPT ![s] = IF head[i].tag = ctag[s] THEN "set_bit" ELSE "take_head"]
      BY <2>1 DEF NextHead, Goto
    <3>2. CASE head[i].tag = tag
      <4>1. pc' = [pc EXCEPT ![s] = "set_bit"]
        BY <1>3, <3>1, <3>2
      <4> QED BY <2>1, <3>1, <3>2, <4>1
    <3>3. CASE head[i].tag # tag
      <4>1. pc' = [pc EXCEPT ![s] = "take_head"]
        BY <1>3, <3>1, <3>3
      <4> QED BY <2>1, <3>1, <3>3, <4>1
    <3> QED BY <3>2, <3>3
  <2>2. CASE ~head[i].used
    <3>1. pc' = pc /\ idx' = idx
      BY <2>2 DEF NextHead
    <3>2. pc' = [pc EXCEPT ![s] = "next_head"]
      BY <1>1, <3>1 DEF IInv, Types
    <3> QED BY <2>2, <3>1, <3>2
  <2> QED BY <2>1, <2>2
<1>5. /\ todo' \in [Scheds -> SUBSET Scheds] /\ idx' \in [Scheds -> Scheds]
      /\ todo'[s] = todo[s] \ {i} /\ (\A t \in Scheds : t # s => todo'[t] = todo[t])
      /\ head[i].used => idx'[s] = i
  BY <1>1, <1>4 DEF IInv, Types, TypeOK
<1>6. /\ Types' /\ Places' /\ Syncing' /\ Counted'
      /\ pc'[s] = l /\ At(s)' = l /\ Completing(s)'
      /\ \A t \in Scheds : t # s => /\ pc'[t] = pc[t] /\ At(t)' = At(t)
                                    /\ ~Completing(t) /\ ~Completing(t)'
  <2>1. /\ l \in CompleteLabels /\ heads \subseteq heads' /\ heads' \subseteq Scheds /\ head' = head
        /\ head' \in [Scheds -> [tag : Tags, procs : SUBSET Procs, used : BOOLEAN]]
    BY <1>1, <1>4 DEF IInv, Types, TypeOK, CompleteLabels
  <2> QED BY <1>1, <1>2, <1>4, <1>5, <2>1, CompleterKeeps
<1>7. \A c \in Scheds : pc[c] # "complete" /\ pc'[c] # "complete"
  <2>1. \A c \in Scheds : pc[c] = "complete" \/ pc'[c] = "complete" => c # s
    BY <1>1, <1>4, <1>6
  <2>2. \A c \in Scheds : pc[c] = "complete" => Completing(c)
    BY DEF Completing, At, Letting, CompleteLabels
  <2> QED BY <1>6, <2>1, <2>2
<1>8. Phases'
  <2>1. ASSUME NEW t \in Scheds PROVE HeadPhase(t)'
    <3>1. ASSUME NEW c \in Scheds, Pending(t, c), head[t].used, head[t].tag # tag
          PROVE  Pending(t, c)'
      <4>1. c = s /\ t \in todo[s]
        BY <1>1, <1>6, <1>7, <3>1 DEF Pending
      <4> QED BY <1>4, <1>5, <1>6, <3>1, <4>1 DEF Pending
    <3>2. pc[t] \in {"bar_add", "bar_set"} => pc'[t] = pc[t]
      BY <1>1, <1>6
    <3>3. At(t) = "local_clear" => At(t)' = "local_clear"
      BY <1>2, <1>6
    <3> QED BY <1>1, <1>7, <3>1, <3>2, <3>3 DEF IInv, Phases, HeadPhase
  <2> QED BY <2>1 DEF Phases
<1>9. Completion'
  BY <1>1, <1>2, <1>3, <1>4, <1>5, <1>6 DEF IInv, Completion, EndLabels
<1> QED BY <1>6, <1>8, <1>9 DEF IInv

(* and puts the bit of one of the new phase back. *)
LEMMA SetBitStep ==
  ASSUME IInv, NEW s \in Scheds, SetBit(s)
  PROVE  IInv'
<1>1. /\ pc[s] = "set_bit" /\ pc' = [pc EXCEPT ![s] = "next_head"]
      /\ heads' = heads \cup {idx[s]} /\ idx' = [idx EXCEPT ![s] = s]
      /\ UNCHANGED <<cur, queued, count, tag, syncing, head, seen, rel, ret, ctag, todo,
                     enrolled, waiting>>
  BY DEF SetBit, Goto, stateVars, histVars
<1>2. "next_head" \in CompleteLabels /\ pc[s] \in CompleteLabels /\ At(s) = "set_bit" /\ Completing(s)
  BY <1>1 DEF CompleteLabels, At, Letting, Completing
<1>3. idx[s] \in Scheds /\ idx' \in [Scheds -> Scheds] /\ head[idx[s]].used /\ head[idx[s]].tag = tag
  BY <1>1, <1>2 DEF IInv, Types, TypeOK, Completion
<1>4. /\ Types' /\ Places' /\ Syncing' /\ Counted'
      /\ pc'[s] = "next_head" /\ At(s)' = "next_head" /\ Completing(s)'
      /\ \A t \in Scheds : t # s => /\ pc'[t] = pc[t] /\ At(t)' = At(t)
                                    /\ ~Completing(t) /\ ~Completing(t)'
  <2>1. /\ heads \subseteq heads' /\ heads' \subseteq Scheds /\ head' = head
        /\ head' \in [Scheds -> [tag : Tags, procs : SUBSET Procs, used : BOOLEAN]]
        /\ todo' \in [Scheds -> SUBSET Scheds]
    BY <1>1, <1>3 DEF IInv, Types, TypeOK
  <2> QED BY <1>1, <1>2, <1>3, <2>1, CompleterKeeps
<1>5. \A c \in Scheds : pc[c] # "complete" /\ pc'[c] # "complete"
  BY <1>1, <1>4 DEF Completing, At, Letting, CompleteLabels
<1>6. Phases'
  <2>1. ASSUME NEW t \in Scheds PROVE HeadPhase(t)'
    <3>1. \A c \in Scheds : Pending(t, c) => Pending(t, c)'
      BY <1>1, <1>4, <1>5 DEF Pending
    <3>2. pc[t] \in {"bar_add", "bar_set"} => pc'[t] = pc[t]
      BY <1>1, <1>4
    <3>3. At(t) = "local_clear" => At(t)' = "local_clear"
      BY <1>2, <1>4
    <3> QED BY <1>1, <1>3, <1>5, <3>1, <3>2, <3>3 DEF IInv, Phases, HeadPhase
  <2> QED BY <2>1 DEF Phases
<1>7. Completion'
  BY <1>1, <1>2, <1>4 DEF IInv, Completion, EndLabels
<1> QED BY <1>4, <1>6, <1>7 DEF IInv

(* A scheduler that neither runs a process nor completes the barrier is in *)
(* kernel_scheduler.                                                       *)
LEMMA Idle ==
  ASSUME IInv, NEW t \in Scheds, ~Inside(t), ~Completing(t)
  PROVE  pc[t] = "sched" /\ At(t) = "sched"
<1>1. At(t) \notin UserLabels \cup SyncLabels \cup CompleteLabels
  BY DEF Inside, Completing
<1>2. pc[t] \in Letting => At(t) \in {"bar_bit", "local_clear", "next_head"}
  BY DEF IInv, Types, Places, At
<1>3. pc[t] \notin Letting
  BY <1>1, <1>2 DEF SyncLabels, CompleteLabels
<1> QED BY <1>1, <1>3 DEF At, IInv, Types, Labels

(* While somebody is about to take the heads, nobody else does anything. *)
LEMMA AloneAtComplete ==
  ASSUME IInv, NEW s \in Scheds, pc[s] = "complete"
  PROVE  /\ Completing(s) /\ ~Inside(s) /\ At(s) = "complete"
         /\ ctag[s] = tag /\ todo[s] = {} /\ waiting = {}
         /\ \A t \in Scheds : head[t].used => head[t].tag # tag
         /\ \A t \in Scheds : t # s => pc[t] = "sched" /\ At(t) = "sched"
<1>1. Completing(s) /\ ~Inside(s) /\ At(s) = "complete"
  BY DEF Completing, Inside, At, Letting, UserLabels, SyncLabels, CompleteLabels
<1>2. /\ ctag[s] = tag /\ todo[s] = {} /\ waiting = {}
      /\ \A t \in Scheds : head[t].used => head[t].tag # tag
  BY <1>1 DEF IInv, Completion
<1>3. ASSUME NEW t \in Scheds, t # s PROVE pc[t] = "sched" /\ At(t) = "sched"
  <2>1. ~Inside(t)
    BY NotEnding
  <2>2. ~Completing(t)
    BY <1>1, <1>3 DEF IInv, Completion
  <2> QED BY <2>1, <2>2, Idle
<1> QED BY <1>1, <1>2, <1>3

(* bar_complete takes all the bits, and the own head first. *)
LEMMA CompleteStep ==
  ASSUME IInv, NEW s \in Scheds, Complete(s)
  PROVE  IInv'
<1>1. /\ pc[s] = "complete" /\ todo' = [todo EXCEPT ![s] = heads \ {s}] /\ heads' = {}
      /\ UNCHANGED <<cur, queued, count, tag, syncing, seen, ctag, idx, enrolled, waiting>>
  BY DEF Complete, Goto, stateVars, histVars
<1>2. /\ Completing(s) /\ ~Inside(s) /\ At(s) = "complete"
      /\ ctag[s] = tag /\ todo[s] = {} /\ waiting = {}
      /\ \A t \in Scheds : head[t].used => head[t].tag # tag
      /\ \A t \in Scheds : t # s => pc[t] = "sched" /\ At(t) = "sched"
  BY <1>1, AloneAtComplete
<1>3. \A t, c \in Scheds : Pending(t, c) => c = s /\ t \in heads
  <2>1. \A c \in Scheds : Completing(c) => c = s
    BY <1>2 DEF IInv, Completion
  <2> QED BY <1>1, <1>2, <2>1 DEF Pending
<1>4. \A t \in Scheds : head[t].used => t \in heads /\ head[t].procs # {} /\ head[t].tag # tag
  BY <1>2, <1>3 DEF IInv, Phases, HeadPhase
<1>5. /\ todo' \in [Scheds -> SUBSET Scheds] /\ todo'[s] = heads \ {s}
      /\ \A t \in Scheds : t # s => todo'[t] = todo[t]
  BY <1>1 DEF IInv, Types, TypeOK
<1>6. /\ Types' /\ Places' /\ Counted' /\ Completing(s)' /\ ~Inside(s)'
      /\ pc'[s] \in {"add_count", "next_head"} /\ At(s)' \in {"local_clear", "next_head"}
      /\ \A t \in Scheds : t # s => pc'[t] = "sched" /\ At(t)' = "sched" /\ head'[t] = head[t]
      /\ At(s)' = "local_clear" => head'[s].used /\ head'[s].procs = {} /\ head'[s].tag # tag
      /\ At(s)' = "next_head" => ~head'[s].used
  <2>1. CASE s \in heads
    <3>1. /\ pc' = [pc EXCEPT ![s] = "add_count"] /\ ret' = [ret EXCEPT ![s] = "local_clear"]
          /\ rel' = [rel EXCEPT ![s] = head[s].procs]
          /\ head' = [head EXCEPT ![s] = [tag |-> head[s].tag, procs |-> {}, used |-> TRUE]]
      BY <2>1 DEF Complete, CompleteHead, SetHead, Head, Goto
    <3>2. head[s].used /\ head[s].procs # {} /\ head[s].tag # tag
      BY <1>1, <1>4, <2>1 DEF IInv, Phases, HeadPhase
    <3>3. /\ pc' \in [Scheds -> Labels] /\ rel' \in [Scheds -> SUBSET Procs]
          /\ ret' \in [Scheds -> {"sched", "bar_bit", "local_clear", "next_head"}]
          /\ ret'[s] = "local_clear" /\ (\A t \in Scheds : t # s => ret'[t] = ret[t])
          /\ pc'[s] = "add_count" /\ (\A t \in Scheds : t # s => pc'[t] = pc[t])
      BY <3>1 DEF IInv, Types, TypeOK, Labels, Letting
    <3>4. /\ head' \in [Scheds -> [tag : Tags, procs : SUBSET Procs, used : BOOLEAN]]
          /\ head'[s].used /\ head'[s].procs = {} /\ head'[s].tag = head[s].tag
          /\ \A t \in Scheds : t # s => head'[t] = head[t]
      BY <3>1 DEF IInv, Types, TypeOK
    <3>5. At(s)' = "local_clear" /\ Completing(s)' /\ ~Inside(s)'
      BY <3>3 DEF At, Letting, Completing, Inside, CompleteLabels, UserLabels, SyncLabels
    <3>6. \A t \in Scheds : t # s => pc'[t] = "sched" /\ At(t)' = "sched"
      BY <1>2, <3>3 DEF At, Letting
    <3>7. Types'
      <4>1. heads' \subseteq Scheds
        BY <1>1
      <4> QED BY <1>1, <1>5, <3>3, <3>4, <4>1 DEF IInv, Types, TypeOK
    <3>8. Places' /\ Counted'
      <4>1. /\ pc[s] \notin Letting /\ pc[s] # "bar_cas" /\ ret'[s] # "sched"
            /\ (Inside(s)' <=> Inside(s))
        BY <1>1, <1>2, <3>3, <3>5 DEF Letting
      <4>2. UNCHANGED <<queued, cur, waiting, enrolled, count, syncing, tag>>
        BY <1>1
      <4>3. /\ pc' = [pc EXCEPT ![s] = "add_count"] /\ rel' = [rel EXCEPT ![s] = head[s].procs]
            /\ head[s].tag # tag /\ head[s].procs # {} /\ head'[s].procs = {}
            /\ \A t \in Scheds : t # s => head'[t] = head[t]
            /\ \A t \in Scheds : t # s => ret'[t] = ret[t]
        BY <3>1, <3>2, <3>3, <3>4
      <4> QED BY <4>1, <4>2, <4>3, TakeKeeps
    <3> QED BY <1>1, <3>2, <3>3, <3>4, <3>5, <3>6, <3>7, <3>8
  <2>2. CASE s \notin heads
    <3>1. pc' = [pc EXCEPT ![s] = "next_head"] /\ UNCHANGED <<head, rel, ret>>
      BY <2>2 DEF Complete, Goto
    <3>2. "next_head" \in Labels \ Letting /\ pc[s] \notin Letting
      BY <1>1 DEF Labels, CompleteLabels, Letting
    <3>3. /\ pc'[s] = "next_head" /\ At(s)' = "next_head"
          /\ \A t \in Scheds : t # s => pc'[t] = pc[t] /\ At(t)' = At(t)
          /\ pc' \in [Scheds -> Labels]
      BY <3>1, <3>2, GotoAt DEF IInv
    <3>4. Completing(s)' /\ ~Inside(s)' /\ ~head[s].used
      BY <1>4, <2>2, <3>3 DEF Completing, Inside, CompleteLabels, UserLabels, SyncLabels
    <3>5. Types'
      <4>1. heads' \subseteq Scheds
        BY <1>1
      <4> QED BY <1>1, <1>5, <3>1, <3>3, <4>1 DEF IInv, Types, TypeOK
    <3>6. Places'
      <4>1. \A t \in Scheds :
           /\ head'[t].procs = head[t].procs /\ (~head'[t].used => head[t].procs = {})
           /\ pc'[t] \in Letting <=> pc[t] \in Letting
           /\ pc'[t] \in Letting => ret'[t] # "sched"
           /\ Inside(t)' <=> Inside(t)
           /\ pc[t] = "bar_cas" => pc'[t] = "bar_cas"
           /\ pc'[t] = "sched" => pc[t] = "sched"
        BY <1>1, <1>2, <3>1, <3>3, <3>4 DEF IInv, Places, Letting, Inside
      <4> QED BY <1>1, <3>1, <4>1, PlacesKept DEF IInv
    <3>7. Counted'
      <4>1. \A t \in Scheds : Behind(t)' = Behind(t)
        BY <1>1, <3>1, <3>3 DEF Behind
      <4> QED BY <1>1, <4>1, CountedKept DEF IInv
    <3> QED BY <1>2, <3>1, <3>3, <3>4, <3>5, <3>6, <3>7
  <2> QED BY <2>1, <2>2
<1>7. \A t \in Scheds : t # s => ~Completing(t)'
  BY <1>6 DEF Completing, CompleteLabels, EndLabels
<1>8. Phases'
  <2>1. HeadPhase(s)'
    BY <1>1, <1>2, <1>6 DEF HeadPhase
  <2>2. ASSUME NEW t \in Scheds, t # s PROVE HeadPhase(t)'
    <3>1. head[t].used => Pending(t, s)'
      BY <1>4, <1>5, <1>6, <2>2 DEF Pending
    <3> QED BY <1>1, <1>2, <1>4, <1>6, <2>2, <3>1 DEF HeadPhase
  <2> QED BY <2>1, <2>2 DEF Phases
<1>9. Syncing'
  BY <1>6 DEF Syncing, InSync, SyncLabels
<1>10. Completion'
  <2>1. /\ syncing' <=> \E c \in Scheds : Completing(c)'
        /\ \A c, d \in Scheds : Completing(c)' /\ Completing(d)' => c = d
        /\ \A t \in Scheds : ~Completing(t)' => todo'[t] = {}
    <3>1. syncing /\ \A t \in Scheds : t # s => todo[t] = {}
      BY <1>2 DEF IInv, Completion
    <3> QED BY <1>1, <1>5, <1>6, <1>7, <3>1
  <2>2. ctag'[s] = tag' /\ s \notin todo'[s]
    BY <1>1, <1>2, <1>5
  <2> QED BY <1>1, <1>6, <1>7, <2>1, <2>2 DEF Completion, EndLabels
<1> QED BY <1>6, <1>8, <1>9, <1>10 DEF IInv

(* bar_complete takes the head of another scheduler, unless that one has   *)
(* taken it back.                                                          *)
LEMMA TakeHeadStep ==
  ASSUME IInv, NEW s \in Scheds, TakeHead(s)
  PROVE  IInv'
<1> DEFINE x == idx[s]
<1>1. /\ pc[s] = "take_head" /\ idx' = [idx EXCEPT ![s] = s]
      /\ UNCHANGED <<cur, queued, count, tag, syncing, heads, seen, ctag, todo, enrolled, waiting>>
  BY DEF TakeHead, Goto, stateVars, histVars
<1>2. Completing(s) /\ ~Inside(s) /\ At(s) = "take_head" /\ pc[s] \in CompleteLabels
  BY <1>1 DEF Completing, Inside, At, Letting, CompleteLabels, UserLabels, SyncLabels
<1>3. /\ x \in Scheds /\ x # s /\ ctag[s] = tag /\ s \notin todo[s] /\ ~head[s].used
      /\ idx' \in [Scheds -> Scheds] /\ \A c \in Scheds : Completing(c) => c = s
  BY <1>1, <1>2 DEF IInv, Types, TypeOK, Completion
<1>4. \A c \in Scheds : pc[c] # "complete"
  <2>1. \A c \in Scheds : pc[c] = "complete" => Completing(c)
    BY DEF Completing, At, Letting, CompleteLabels
  <2> QED BY <1>1, <1>3, <2>1
<1>5. CASE ~(head[x].used /\ head[x].tag # tag)
  <2>1. pc' = [pc EXCEPT ![s] = "next_head"] /\ UNCHANGED <<head, rel, ret>>
    BY <1>3, <1>5 DEF TakeHead, Goto
  <2>2. /\ Types' /\ Places' /\ Syncing' /\ Counted'
        /\ pc'[s] = "next_head" /\ At(s)' = "next_head" /\ Completing(s)'
        /\ \A t \in Scheds : t # s => /\ pc'[t] = pc[t] /\ At(t)' = At(t)
                                      /\ ~Completing(t) /\ ~Completing(t)'
    <3>1. /\ "next_head" \in CompleteLabels /\ heads \subseteq heads' /\ heads' \subseteq Scheds
          /\ head' \in [Scheds -> [tag : Tags, procs : SUBSET Procs, used : BOOLEAN]]
          /\ todo' \in [Scheds -> SUBSET Scheds]
      BY <1>1, <2>1 DEF IInv, Types, TypeOK, CompleteLabels
    <3> QED BY <1>1, <1>2, <1>3, <2>1, <3>1, CompleterKeeps
  <2>3. Phases'
    <3>1. ASSUME NEW t \in Scheds PROVE HeadPhase(t)'
      <4>1. ASSUME NEW c \in Scheds, Pending(t, c), head[t].used, head[t].tag # tag
            PROVE  Pending(t, c)'
        <5>1. c = s /\ t \in todo[s]
          BY <1>3, <1>4, <1>5, <4>1 DEF Pending
        <5> QED BY <1>1, <2>2, <5>1 DEF Pending
      <4>2. pc[t] \in {"bar_add", "bar_set"} => pc'[t] = pc[t]
        BY <1>1, <2>2
      <4>3. At(t) = "local_clear" => At(t)' = "local_clear"
        BY <1>2, <2>2
      <4>4. \A c \in Scheds : pc'[c] # "complete"
        BY <1>4, <2>2
      <4> QED BY <1>1, <1>4, <2>1, <4>1, <4>2, <4>3, <4>4 DEF IInv, Phases, HeadPhase
    <3> QED BY <3>1 DEF Phases
  <2>4. Completion'
    BY <1>1, <1>2, <1>3, <2>1, <2>2 DEF IInv, Completion, EndLabels
  <2> QED BY <2>2, <2>3, <2>4 DEF IInv
<1>6. CASE head[x].used /\ head[x].tag # tag
  <2>1. /\ pc' = [pc EXCEPT ![s] = "add_count"] /\ ret' = [ret EXCEPT ![s] = "next_head"]
        /\ rel' = [rel EXCEPT ![s] = head[x].procs] /\ head' = [head EXCEPT ![x] = Null]
    BY <1>3, <1>6 DEF TakeHead, CompleteHead, SetHead, Goto
  <2>2. /\ pc' \in [Scheds -> Labels] /\ rel' \in [Scheds -> SUBSET Procs]
        /\ ret' \in [Scheds -> {"sched", "bar_bit", "local_clear", "next_head"}]
        /\ ret'[s] = "next_head" /\ (\A t \in Scheds : t # s => ret'[t] = ret[t])
        /\ pc'[s] = "add_count" /\ (\A t \in Scheds : t # s => pc'[t] = pc[t])
    BY <1>3, <2>1 DEF IInv, Types, TypeOK, Labels, Letting
  <2>3. PICK y \in Scheds : y = x
    BY <1>3
  <2>4. /\ head' \in [Scheds -> [tag : Tags, procs : SUBSET Procs, used : BOOLEAN]]
        /\ ~head'[y].used /\ head'[y].procs = {}
        /\ \A t \in Scheds : t # y => head'[t] = head[t]
    BY <1>3, <2>1, <2>3 DEF IInv, Types, TypeOK, Null, Tags
  <2>5. /\ At(s)' = "next_head" /\ Completing(s)' /\ ~Inside(s)'
        /\ \A t \in Scheds : t # s => At(t)' = At(t) /\ ~Completing(t)'
    <3>1. At(s)' = "next_head" /\ \A t \in Scheds : t # s => At(t)' = At(t)
      BY <2>2 DEF At, Letting
    <3> QED BY <1>3, <3>1 DEF Completing, Inside, CompleteLabels, UserLabels, SyncLabels
  <2>6. Types'
    BY <1>1, <1>3, <2>2, <2>4 DEF IInv, Types, TypeOK
  <2>7. y # s /\ head[y].used /\ head[y].tag # tag /\ At(y) # "local_clear" /\ y \notin heads
    <3>1. y # s /\ head[y].used /\ head[y].tag # tag
      BY <1>3, <1>6, <2>3
    <3>2. At(y) # "local_clear"
      BY <1>3, <3>1 DEF Completing, CompleteLabels
    <3> QED BY <1>4, <3>1, <3>2 DEF IInv, Phases, HeadPhase
  <2>8. Places' /\ Counted'
    <3>1. /\ pc[s] \notin Letting /\ pc[s] # "bar_cas" /\ ret'[s] # "sched"
          /\ (Inside(s)' <=> Inside(s)) /\ head[y].procs # {} /\ head[y].tag # tag
      BY <1>1, <1>2, <2>2, <2>5, <2>7 DEF Letting, IInv, Phases, HeadPhase
    <3>2. UNCHANGED <<queued, cur, waiting, enrolled, count, syncing, tag>>
      BY <1>1
    <3>3. rel' = [rel EXCEPT ![s] = head[y].procs]
      BY <2>1, <2>3
    <3>4. /\ pc' = [pc EXCEPT ![s] = "add_count"] /\ head'[y].procs = {}
          /\ \A t \in Scheds : t # y => head'[t] = head[t]
          /\ \A t \in Scheds : t # s => ret'[t] = ret[t]
      BY <2>1, <2>2, <2>4
    <3> QED BY <3>1, <3>2, <3>3, <3>4, TakeKeeps
  <2>9. Phases'
    <3>1. HeadPhase(y)'
      BY <1>1, <2>4, <2>7 DEF HeadPhase
    <3>2. ASSUME NEW t \in Scheds, t # y PROVE HeadPhase(t)'
      <4>1. ASSUME NEW c \in Scheds, Pending(t, c) PROVE Pending(t, c)'
        <5>1. c = s /\ t \in todo[s]
          BY <1>3, <1>4, <2>3, <3>2, <4>1 DEF Pending
        <5> QED BY <1>1, <2>5, <5>1 DEF Pending
      <4>2. pc[t] \in {"bar_add", "bar_set"} => pc'[t] = pc[t]
        BY <1>1, <2>2
      <4>3. At(t) = "local_clear" => At(t)' = "local_clear"
        BY <1>2, <2>5
      <4>4. \A c \in Scheds : pc'[c] # "complete"
        BY <1>4, <2>2
      <4> QED BY <1>1, <1>4, <2>4, <3>2, <4>1, <4>2, <4>3, <4>4 DEF IInv, Phases, HeadPhase
    <3> QED BY <3>1, <3>2 DEF Phases
  <2>10. Syncing'
    <3>1. InSync(s)'
      BY <2>2, <2>5 DEF InSync, SyncLabels
    <3>2. InSync(y)'
      <4>1. pc[y] \notin {"bar_add", "bar_cas"} /\ At(y) \notin {"bar_bit", "bar_set"}
        BY <2>7 DEF IInv, Syncing, InSync
      <4> QED BY <1>1, <2>2, <2>4, <2>5, <2>7, <4>1 DEF IInv, Syncing, InSync
    <3>3. \A t \in Scheds : t # s /\ t # y => InSync(t)'
      BY <1>1, <2>2, <2>4, <2>5, InSyncKept DEF IInv, Syncing
    <3> QED BY <3>1, <3>2, <3>3 DEF Syncing
  <2>11. Completion'
    <3>1. /\ syncing' <=> \E c \in Scheds : Completing(c)'
          /\ \A c, d \in Scheds : Completing(c)' /\ Completing(d)' => c = d
          /\ \A t \in Scheds : ~Completing(t)' => todo'[t] = {}
      <4>1. syncing /\ \A t \in Scheds : t # s => todo[t] = {}
        BY <1>2, <1>3 DEF IInv, Completion
      <4> QED BY <1>1, <2>5, <4>1
    <3>2. ctag'[s] = tag' /\ s \notin todo'[s] /\ ~head'[s].used
      BY <1>1, <1>3, <2>4, <2>7
    <3> QED BY <2>2, <2>5, <3>1, <3>2 DEF Completion, EndLabels
  <2> QED BY <2>6, <2>8, <2>9, <2>10, <2>11 DEF IInv
<1> QED BY <1>5, <1>6

-----------------------------------------------------------------------------
(* When bar_complete has looked at every head, the last phase is over. *)
LEMMA AllTaken ==
  ASSUME IInv, NEW s \in Scheds, pc[s] \in {"next_head"} \cup EndLabels, todo[s] = {}
  PROVE  /\ Completing(s) /\ ~Inside(s) /\ At(s) = pc[s] /\ pc[s] \in CompleteLabels
         /\ \A t \in Scheds : t # s => ~Completing(t)
         /\ syncing /\ ctag[s] = tag /\ ~head[s].used
         /\ \A t \in Scheds : head[t].used => head[t].tag = tag
         /\ \A t, c \in Scheds : ~Pending(t, c)
<1>1. Completing(s) /\ ~Inside(s) /\ At(s) = pc[s] /\ pc[s] \in CompleteLabels
  BY DEF Completing, Inside, At, Letting, CompleteLabels, EndLabels, UserLabels, SyncLabels
<1>2. pc[s] # "complete" /\ At(s) # "local_clear" /\ pc[s] # "take_head"
  BY <1>1 DEF EndLabels
<1>3. /\ \A t \in Scheds : t # s => ~Completing(t)
      /\ syncing /\ ctag[s] = tag /\ ~head[s].used
  BY <1>1, <1>2 DEF IInv, Completion
<1>4. \A t, c \in Scheds : ~Pending(t, c)
  BY <1>2, <1>3 DEF Pending
<1>5. \A t \in Scheds : At(t) # "local_clear"
  BY <1>2, <1>3 DEF Completing, CompleteLabels
<1>6. \A t \in Scheds : head[t].used => head[t].tag = tag
  BY <1>4, <1>5 DEF IInv, Phases, HeadPhase
<1> QED BY <1>1, <1>3, <1>4, <1>6

(* If then the count is down to the extra one, everybody is back. *)
LEMMA AllBackWaits ==
  ASSUME IInv, NEW s \in Scheds, pc[s] \in {"next_head"} \cup EndLabels, todo[s] = {}, count = 1
  PROVE  waiting = enrolled
<1>1. /\ syncing /\ pc[s] # "add_count"
      /\ \A t \in Scheds : head[t].used => head[t].tag = tag
      /\ \A t \in Scheds : t # s => ~Completing(t)
  BY AllTaken DEF EndLabels
<1>2. enrolled = waiting \cup Late
  <2>1. 1 + Cardinality(waiting) + Cardinality(Late) = Cardinality(enrolled) + 1
    BY <1>1 DEF IInv, Counted
  <2> QED BY <2>1, CountWaiting, FiniteParts DEF IInv
<1>3. ASSUME NEW p \in Late PROVE FALSE
  <2>1. PICK t \in Scheds : p \in Behind(t)
    BY <1>3 DEF Late
  <2>2. p \in rel[t] /\ pc[t] = "add_count"
    BY <1>1, <2>1 DEF Behind, IInv, Places
  <2>3. Inside(t)
    <3>1. ~Completing(t)
      BY <1>1, <2>2
    <3> QED BY <2>2, <3>1, Idle
  <2>4. cur[t] \in enrolled /\ cur[t] \notin waiting /\ cur[t] \notin Late
    BY <2>3, CountRunner
  <2> QED BY <1>2, <2>4
<1> QED BY <1>2, <1>3

(* bar_complete goes round the end of its loop. *)
LEMMA EndMoveKeeps ==
  ASSUME IInv, NEW s \in Scheds, pc[s] \in {"next_head"} \cup EndLabels, todo[s] = {},
         NEW l \in {"next_head"} \cup EndLabels, pc' = [pc EXCEPT ![s] = l],
         l \in EndLabels => count = 1 /\ waiting = enrolled,
         l = "finish_cas" => heads = {}, l = "again_cas" => heads # {},
         UNCHANGED <<cur, queued, count, tag, syncing, heads, head, seen, rel, ret, ctag, todo, idx,
                     enrolled, waiting>>
  PROVE  IInv'
<1>1. /\ Completing(s) /\ ~Inside(s) /\ At(s) = pc[s] /\ pc[s] \in CompleteLabels
      /\ \A t \in Scheds : t # s => ~Completing(t)
      /\ syncing /\ ctag[s] = tag /\ ~head[s].used
      /\ \A t, c \in Scheds : ~Pending(t, c)
  BY AllTaken
<1>2. l \in CompleteLabels /\ l \notin {"complete", "local_clear", "set_bit", "take_head"}
  BY DEF CompleteLabels, EndLabels
<1>3. /\ Types' /\ Places' /\ Syncing' /\ Counted'
      /\ pc'[s] = l /\ At(s)' = l /\ Completing(s)'
      /\ \A t \in Scheds : t # s => /\ pc'[t] = pc[t] /\ At(t)' = At(t)
                                    /\ ~Completing(t) /\ ~Completing(t)'
  <2>1. /\ heads \subseteq heads' /\ heads' \subseteq Scheds /\ head' = head
        /\ head' \in [Scheds -> [tag : Tags, procs : SUBSET Procs, used : BOOLEAN]]
        /\ todo' \in [Scheds -> SUBSET Scheds] /\ idx' \in [Scheds -> Scheds]
    BY DEF IInv, Types, TypeOK
  <2> QED BY <1>1, <1>2, <2>1, CompleterKeeps
<1>4. Phases'
  <2>1. \A t \in Scheds :
          /\ pc[t] = "bar_add" => pc'[t] = "bar_add"
          /\ pc[t] = "bar_set" => pc'[t] = "bar_set"
          /\ pc[t] = "complete" => pc'[t] = "complete"
          /\ At(t) = "local_clear" => At(t)' = "local_clear"
    BY <1>1, <1>3 DEF EndLabels
  <2> QED BY <1>1, <2>1, PhasesKept DEF IInv
<1>5. Completion'
  <2>1. \A t \in Scheds : t # s => todo[t] = {}
    BY <1>1 DEF IInv, Completion
  <2> QED BY <1>1, <1>2, <1>3, <2>1 DEF Completion
<1> QED BY <1>3, <1>4, <1>5 DEF IInv

(* bar_complete ends: the phase that has begun goes on without it. *)
LEMMA FinishKeeps ==
  ASSUME IInv, NEW s \in Scheds, pc[s] \in {"next_head"} \cup EndLabels, todo[s] = {}, Finish(s),
         UNCHANGED <<queued, heads, head, seen, rel, ret, todo, idx, enrolled, waiting>>
  PROVE  IInv'
<1>1. /\ Completing(s) /\ ~Inside(s) /\ At(s) = pc[s] /\ pc[s] \in CompleteLabels
      /\ \A t \in Scheds : t # s => ~Completing(t)
      /\ syncing /\ ctag[s] = tag /\ ~head[s].used
      /\ \A t \in Scheds : head[t].used => head[t].tag = tag
  BY AllTaken
<1>2. /\ pc' = [pc EXCEPT ![s] = "sched"] /\ cur' = [cur EXCEPT ![s] = NotProcess]
      /\ count' = count - 1 /\ tag' = tag /\ syncing' = FALSE /\ ctag' = [ctag EXCEPT ![s] = 0]
  BY <1>1 DEF Finish, SetState, KernelScheduler
<1>3. "sched" \in Labels \ Letting /\ pc[s] \notin Letting
  BY <1>1 DEF Labels, Letting, CompleteLabels, EndLabels
<1>4. /\ pc'[s] = "sched" /\ At(s)' = "sched"
      /\ \A t \in Scheds : t # s => pc'[t] = pc[t] /\ At(t)' = At(t)
      /\ pc' \in [Scheds -> Labels]
  BY <1>2, <1>3, GotoAt DEF IInv
<1>5. /\ ~Completing(s)' /\ ~Inside(s)'
      /\ \A t \in Scheds : t # s => (Inside(t)' <=> Inside(t)) /\ ~Completing(t)'
  BY <1>1, <1>4 DEF Completing, Inside, CompleteLabels, EndLabels, UserLabels, SyncLabels
<1>6. /\ cur' \in [Scheds -> Procs \cup {NotProcess}] /\ ctag' \in [Scheds -> Tags]
      /\ cur'[s] = NotProcess /\ \A t \in Scheds : t # s => cur'[t] = cur[t]
  BY <1>2 DEF IInv, Types, TypeOK, Tags
<1>7. NotProcess \notin enrolled
  BY NotProcessAssumption DEF IInv, Types, TypeOK
<1>8. count >= 1
  <2>1. count + Cardinality(waiting) + Cardinality(Late) = Cardinality(enrolled) + 1
    BY <1>1 DEF IInv, Counted
  <2>2. count \in Nat
    BY DEF IInv, Types, TypeOK
  <2> QED BY <2>1, <2>2, CountWaiting, FiniteParts DEF IInv
<1>9. Types'
  <2>1. count' \in Nat
    BY <1>2, <1>8 DEF IInv, Types, TypeOK
  <2> QED BY <1>2, <1>4, <1>6, <2>1 DEF IInv, Types, TypeOK
<1>10. Places'
  <2>1. \A p \in Procs : Running(p)' => Running(p)
    BY <1>6, NotProcessAssumption DEF Running
  <2>2. \A p : Held(p)' <=> Held(p)
    BY DEF Held
  <2>3. \A t \in Scheds : Inside(t)' =>
          /\ cur'[t] \in enrolled' /\ cur'[t] \notin waiting'
          /\ \A u \in Scheds :
               /\ cur'[u] = cur'[t] => u = t
               /\ cur'[t] \notin rel'[u]
               /\ cur'[t] \in head'[u].procs => u = t /\ pc'[t] = "bar_cas"
    BY <1>4, <1>5, <1>6, <1>7 DEF IInv, Places
  <2>4. \A t \in Scheds : ~Inside(t)' => cur'[t] \notin enrolled'
    BY <1>5, <1>6, <1>7 DEF IInv, Places
  <2>5. \A t \in Scheds :
          /\ rel'[t] = {} <=> pc'[t] \notin Letting
          /\ pc'[t] \in Letting => ret'[t] # "sched"
          /\ pc'[t] = "sched" => cur'[t] = NotProcess
    BY <1>3, <1>4, <1>6 DEF IInv, Places
  <2> QED BY <2>1, <2>2, <2>3, <2>4, <2>5 DEF IInv, Places
<1>11. Phases'
  <2>1. pc[s] \notin {"bar_add", "bar_set"}
    BY <1>1 DEF CompleteLabels, EndLabels
  <2>2. HeadPhase(s)'
    BY <1>1, <2>1 DEF IInv, Phases, HeadPhase
  <2>3. \A t \in Scheds : t # s => HeadPhase(t)'
    BY <1>1, <1>2, <1>4, <1>6 DEF IInv, Phases, HeadPhase
  <2> QED BY <2>2, <2>3 DEF Phases
<1>12. Syncing'
  <2>1. InSync(s)'
    BY <1>4 DEF InSync, SyncLabels
  <2>2. \A t \in Scheds : t # s => InSync(t)'
    BY <1>2, <1>4, <1>6, InSyncKept DEF IInv, Syncing
  <2> QED BY <2>1, <2>2 DEF Syncing
<1>13. Completion'
  <2>1. \A t \in Scheds : todo[t] = {}
    BY <1>1 DEF IInv, Completion
  <2> QED BY <1>2, <1>5, <2>1 DEF Completion
<1>14. Counted'
  <2>1. \A t \in Scheds : Behind(t)' = Behind(t)
    BY <1>2, <1>3, <1>4 DEF Behind, Letting
  <2>2. Late' = Late
    BY <2>1 DEF Late
  <2>3. count + Cardinality(waiting) + Cardinality(Late) = Cardinality(enrolled) + 1
    BY <1>1 DEF IInv, Counted
  <2>4. count' + Cardinality(waiting) + Cardinality(Late) = Cardinality(enrolled) + 0
    <3>1. count \in Nat
      BY DEF IInv, Types, TypeOK
    <3> QED BY <1>2, <2>3, <3>1, FiniteParts DEF IInv
  <2> QED BY <1>2, <2>2, <2>4 DEF Counted
<1> QED BY <1>9, <1>10, <1>11, <1>12, <1>13, <1>14 DEF IInv

(* bar_complete has looked at all heads. *)
LEMMA EndCompleteStep ==
  ASSUME IInv, NEW s \in Scheds, EndComplete(s)
  PROVE  IInv'
<1>1. /\ pc[s] = "next_head" /\ todo[s] = {}
      /\ UNCHANGED <<queued, heads, head, seen, rel, ret, todo, idx, enrolled, waiting>>
  BY DEF EndComplete, histVars
<1>2. CASE AllBack(s)
  <2>1. /\ pc' = [pc EXCEPT ![s] = "look_heads"]
        /\ UNCHANGED <<cur, count, tag, syncing, ctag>>
    BY <1>2 DEF EndComplete, Goto, stateVars
  <2>2. count = 1 /\ waiting = enrolled
    BY <1>1, <1>2, AllBackWaits DEF AllBack
  <2>3. "look_heads" \in {"next_head"} \cup EndLabels
    BY DEF EndLabels
  <2> QED BY <1>1, <2>1, <2>2, <2>3, EndMoveKeeps
<1>3. CASE ~AllBack(s)
  <2>1. Finish(s)
    BY <1>3 DEF EndComplete
  <2> QED BY <1>1, <2>1, FinishKeeps
<1> QED BY <1>2, <1>3

(* Everybody is back: are there heads of the phase that is over again? *)
LEMMA LookHeadsStep ==
  ASSUME IInv, NEW s \in Scheds, LookHeads(s)
  PROVE  IInv'
<1>1. /\ pc[s] = "look_heads" /\ pc' = [pc EXCEPT ![s] = IF heads = {} THEN "finish_cas" ELSE "again_cas"]
      /\ UNCHANGED <<cur, queued, count, tag, syncing, heads, head, seen, rel, ret, ctag, todo, idx,
                     enrolled, waiting>>
  BY DEF LookHeads, Goto, barVars, stateVars, localVars, completeVars, histVars
<1>2. pc[s] \in EndLabels /\ Completing(s)
  BY <1>1 DEF EndLabels, Completing, At, Letting, CompleteLabels
<1>3. count = 1 /\ todo[s] = {} /\ waiting = enrolled
  BY <1>2 DEF IInv, Completion
<1>4. CASE heads = {}
  <2>1. "finish_cas" \in {"next_head"} \cup EndLabels /\ pc' = [pc EXCEPT ![s] = "finish_cas"]
    BY <1>1, <1>4 DEF EndLabels
  <2> QED BY <1>1, <1>2, <1>3, <1>4, <2>1, EndMoveKeeps
<1>5. CASE heads # {}
  <2>1. "again_cas" \in {"next_head"} \cup EndLabels /\ pc' = [pc EXCEPT ![s] = "again_cas"]
    BY <1>1, <1>5 DEF EndLabels
  <2> QED BY <1>1, <1>2, <1>3, <1>5, <2>1, EndMoveKeeps
<1> QED BY <1>4, <1>5

(* There are none, that is, nobody is enrolled any more. *)
LEMMA FinishCasStep ==
  ASSUME IInv, NEW s \in Scheds, FinishCas(s)
  PROVE  IInv'
<1>1. /\ pc[s] = "finish_cas"
      /\ UNCHANGED <<queued, heads, head, seen, rel, ret, todo, idx, enrolled, waiting>>
  BY DEF FinishCas, histVars
<1>2. pc[s] \in EndLabels /\ Completing(s)
  BY <1>1 DEF EndLabels, Completing, At, Letting, CompleteLabels
<1>3. todo[s] = {}
  BY <1>2 DEF IInv, Completion
<1>4. CASE AllBack(s)
  <2>1. Finish(s)
    BY <1>4 DEF FinishCas
  <2> QED BY <1>1, <1>2, <1>3, <2>1, FinishKeeps
<1>5. CASE ~AllBack(s)
  <2>1. /\ pc' = [pc EXCEPT ![s] = "next_head"]
        /\ UNCHANGED <<cur, count, tag, syncing, ctag>>
    BY <1>5 DEF FinishCas, Goto, stateVars
  <2>2. "next_head" \in {"next_head"} \cup EndLabels /\ "next_head" \notin EndLabels
    BY DEF EndLabels
  <2> QED BY <1>1, <1>2, <1>3, <2>1, <2>2, EndMoveKeeps
<1> QED BY <1>4, <1>5

-----------------------------------------------------------------------------
(* The next tag is another one. *)
LEMMA NextTagDiffers ==
  ASSUME NEW t \in Tags
  PROVE  NextTag(t) \in Tags /\ NextTag(t) # t
<1>1. t = 0 \/ t = 1 \/ t = 2 \/ t = 3
  BY DEF Tags
<1> QED BY <1>1 DEF NextTag, Tags

(* A phase ends: everybody is in a head, and everything else is at rest.   *)
LEMMA StartKeeps ==
  ASSUME IInv, NEW s \in Scheds, pc[s] \notin Letting, pc[s] \notin {"bar_add", "bar_set"},
         \A t \in Scheds : t # s => pc[t] = "sched" /\ At(t) = "sched",
         \A t \in Scheds : todo[t] = {},
         \A t \in Scheds : head[t].used => head[t].tag = tag,
         pc' = [pc EXCEPT ![s] = "complete"],
         count' = 1, tag' = NextTag(tag), syncing' = TRUE,
         ctag' = [ctag EXCEPT ![s] = NextTag(tag)], waiting' = {},
         UNCHANGED <<queued, heads, head, rel, ret, todo, idx>>,
         seen' \in [Scheds -> [tag : Tags, syncing : BOOLEAN]],
         cur' \in [Scheds -> Procs \cup {NotProcess}], cur'[s] \notin enrolled',
         \A t \in Scheds : t # s => cur'[t] = cur[t],
         enrolled' \subseteq enrolled, enrolled \subseteq enrolled' \cup {cur[s]},
         \A t \in Scheds : head[t].procs \subseteq enrolled',
         \A p \in enrolled' : \E t \in Scheds : p \in head[t].procs
  PROVE  IInv'
<1>1. tag' \in Tags /\ tag' # tag
  BY NextTagDiffers DEF IInv, Types, TypeOK
<1>2. "complete" \in Labels \ Letting
  BY DEF Labels, CompleteLabels, Letting
<1>3. /\ pc'[s] = "complete" /\ At(s)' = "complete"
      /\ \A t \in Scheds : t # s => pc'[t] = "sched" /\ At(t)' = "sched"
      /\ pc' \in [Scheds -> Labels]
  BY ZenonT(40), <1>2, GotoAt DEF IInv
<1>4. /\ Completing(s)' /\ ~Inside(s)'
      /\ \A t \in Scheds : t # s => ~Completing(t)' /\ ~Inside(t)'
  BY <1>3 DEF Completing, Inside, CompleteLabels, EndLabels, UserLabels, SyncLabels
<1>5. ctag' \in [Scheds -> Tags] /\ ctag'[s] = tag'
  BY <1>1 DEF IInv, Types, TypeOK
<1>6. Types'
  <2>1. count' \in Nat /\ syncing' \in BOOLEAN /\ waiting' \subseteq Procs /\ enrolled' \subseteq Procs
    BY DEF IInv, Types, TypeOK
  <2> QED BY <1>1, <1>3, <1>5, <2>1 DEF IInv, Types, TypeOK
<1>7. Places'
  <2>1. \A t \in Scheds : rel[t] = {} /\ rel'[t] = {} /\ pc'[t] \notin Letting
    BY <1>3 DEF IInv, Places, Letting
  <2>2. \A p \in Procs : queued'[p] = 0
    <3>1. ASSUME NEW p \in Procs, queued[p] = 1 PROVE FALSE
      <4>1. p \in enrolled /\ ~Running(p) /\ ~Held(p)
        BY <3>1 DEF IInv, Places
      <4>2. p \in enrolled'
        BY <4>1 DEF Running
      <4> QED BY <4>1, <4>2 DEF Held
    <3> QED BY <3>1 DEF IInv, Places
  <2>3. \A t \in Scheds : cur'[t] \notin enrolled' /\ (pc'[t] = "sched" => cur'[t] = NotProcess)
    <3>1. \A t \in Scheds : t # s => cur'[t] = NotProcess
      BY DEF IInv, Places
    <3>2. NotProcess \notin enrolled'
      BY <1>6, NotProcessAssumption DEF Types, TypeOK
    <3> QED BY <1>3, <3>1, <3>2
  <2>4. \A t, u \in Scheds : t # u => head'[t].procs \cap head'[u].procs = {}
    BY DEF IInv, Places
  <2>5. \A t \in Scheds : ~head'[t].used => head'[t].procs = {}
    BY DEF IInv, Places
  <2> QED BY <1>4, <2>1, <2>2, <2>3, <2>4, <2>5 DEF Places
<1>8. Phases'
  <2>1. ASSUME NEW t \in Scheds PROVE HeadPhase(t)'
    <3>1. head[t].used => t \in heads /\ head[t].procs # {}
      BY DEF IInv, Phases, HeadPhase
    <3>2. t \in heads => head[t].used
      BY DEF IInv, Phases, HeadPhase
    <3>3. t \in heads => Pending(t, s)'
      BY <1>3, <1>4 DEF Pending
    <3> QED BY <1>1, <1>3, <3>1, <3>2, <3>3 DEF HeadPhase
  <2> QED BY <2>1 DEF Phases
<1>9. Syncing'
  BY <1>3 DEF Syncing, InSync, SyncLabels
<1>10. Completion'
  BY <1>1, <1>3, <1>4, <1>5 DEF Completion, EndLabels
<1>11. Counted'
  <2>1. \A t \in Scheds : Behind(t)' = head[t].procs
    <3>1. \A t \in Scheds : ~head[t].used => head[t].procs = {}
      BY DEF IInv, Places
    <3> QED BY <1>1, <1>3, <3>1 DEF Behind
  <2>2. Late' = enrolled'
    BY <1>6, <2>1 DEF Late, Types, TypeOK
  <2>3. Cardinality(waiting') = 0
    BY FS_EmptySet
  <2>4. Cardinality(enrolled') \in Nat
    BY <1>6, <1>7, BarrierAssumption, FS_Subset, FS_CardinalityType DEF Types, TypeOK
  <2> QED BY <2>2, <2>3, <2>4 DEF Counted
<1> QED BY <1>6, <1>7, <1>8, <1>9, <1>10, <1>11 DEF IInv

(* The process that finds the count at 1 is the last one. *)
LEMMA LastAlone ==
  ASSUME IInv, NEW s \in Scheds, Inside(s), pc[s] \notin Letting, count = 1, ~syncing
  PROVE  /\ enrolled = waiting \cup {cur[s]} /\ cur[s] \in enrolled /\ cur[s] \notin waiting
         /\ \A t \in Scheds : t # s => pc[t] = "sched" /\ At(t) = "sched"
         /\ \A t \in Scheds : todo[t] = {}
         /\ \A t \in Scheds : head[t].used => head[t].tag = tag
<1>1. enrolled = waiting \cup {cur[s]} /\ cur[s] \in enrolled /\ cur[s] \notin waiting
  BY CountRunner DEF Letting
<1>2. \A t \in Scheds : ~Completing(t)
  BY DEF IInv, Completion
<1>3. \A t \in Scheds : t # s => ~Inside(t)
  <2>1. ASSUME NEW t \in Scheds, Inside(t) PROVE t = s
    <3>1. cur[t] \in enrolled /\ cur[t] \notin waiting
      BY <2>1 DEF IInv, Places
    <3>2. cur[t] = cur[s]
      BY <1>1, <3>1
    <3> QED BY <3>2 DEF IInv, Places
  <2> QED BY <2>1
<1>4. \A t \in Scheds : t # s => pc[t] = "sched" /\ At(t) = "sched"
  BY <1>2, <1>3, Idle
<1>5. \A t \in Scheds : todo[t] = {}
  BY <1>2 DEF IInv, Completion
<1>6. \A t \in Scheds : head[t].used => head[t].tag = tag
  BY NoOldHeads
<1> QED BY <1>1, <1>4, <1>5, <1>6

(* bar_complete finds everybody back and completes the next phase, too. *)
LEMMA AgainCasStep ==
  ASSUME IInv, NEW s \in Scheds, AgainCas(s)
  PROVE  IInv'
<1>1. /\ pc[s] = "again_cas"
      /\ UNCHANGED <<cur, queued, heads, head, seen, rel, ret, todo, idx, enrolled>>
  BY DEF AgainCas, Goto
<1>2. pc[s] \in EndLabels /\ Completing(s) /\ pc[s] \notin Letting
      /\ pc[s] \notin {"bar_add", "bar_set"}
  BY <1>1 DEF EndLabels, Completing, At, Letting, CompleteLabels
<1>3. todo[s] = {} /\ waiting = enrolled
  BY <1>2 DEF IInv, Completion
<1>4. /\ ~Inside(s) /\ (\A t \in Scheds : t # s => ~Completing(t))
      /\ \A t \in Scheds : head[t].used => head[t].tag = tag
  BY <1>2, <1>3, AllTaken
<1>5. CASE AllBack(s)
  <2>1. /\ pc' = [pc EXCEPT ![s] = "complete"] /\ count' = 1 /\ tag' = NextTag(tag) /\ syncing' = TRUE
        /\ ctag' = [ctag EXCEPT ![s] = NextTag(tag)] /\ waiting' = {}
    BY <1>5 DEF AgainCas, StartComplete, SetState, Goto
  <2>2. \A t \in Scheds : t # s => pc[t] = "sched" /\ At(t) = "sched"
    <3>1. \A t \in Scheds : ~Inside(t)
      BY <1>3 DEF IInv, Places
    <3> QED BY <1>4, <3>1, Idle
  <2>3. \A t \in Scheds : todo[t] = {}
    BY <1>3, <1>4 DEF IInv, Completion
  <2>4. /\ seen' \in [Scheds -> [tag : Tags, syncing : BOOLEAN]]
        /\ cur' \in [Scheds -> Procs \cup {NotProcess}]
    BY <1>1 DEF IInv, Types, TypeOK
  <2>5. /\ cur'[s] \notin enrolled'
        /\ \A t \in Scheds : head[t].procs \subseteq enrolled'
        /\ \A p \in enrolled' : \E t \in Scheds : p \in head[t].procs
    BY <1>1, <1>3, <1>4 DEF IInv, Places
  <2> QED BY <1>1, <1>2, <1>4, <2>1, <2>2, <2>3, <2>4, <2>5, StartKeeps
<1>6. CASE ~AllBack(s)
  <2>1. /\ pc' = [pc EXCEPT ![s] = "next_head"]
        /\ UNCHANGED <<cur, count, tag, syncing, ctag, waiting>>
    BY <1>6 DEF AgainCas, Goto, stateVars
  <2>2. "next_head" \in {"next_head"} \cup EndLabels /\ "next_head" \notin EndLabels
    BY DEF EndLabels
  <2> QED BY <1>1, <1>2, <1>3, <2>1, <2>2, EndMoveKeeps
<1> QED BY <1>5, <1>6

(* bar_resign of the last process the others wait for. *)
LEMMA ResignCompleteStep ==
  ASSUME IInv, NEW s \in Scheds, ResignComplete(s)
  PROVE  IInv'
<1>1. /\ pc[s] = "resign_complete"
      /\ UNCHANGED <<cur, queued, heads, head, seen, rel, ret, todo, idx>>
  BY DEF ResignComplete, Goto
<1>2. Inside(s) /\ pc[s] \notin Letting /\ pc[s] \notin {"bar_add", "bar_set"}
  BY <1>1 DEF Inside, At, Letting, UserLabels
<1>3. CASE Last
  <2>1. /\ pc' = [pc EXCEPT ![s] = "complete"] /\ count' = 1 /\ tag' = NextTag(tag) /\ syncing' = TRUE
        /\ ctag' = [ctag EXCEPT ![s] = NextTag(tag)] /\ waiting' = {}
        /\ enrolled' = enrolled \ {cur[s]}
    BY <1>3 DEF ResignComplete, StartComplete, SetState, Goto
  <2>2. /\ enrolled = waiting \cup {cur[s]} /\ cur[s] \in enrolled /\ cur[s] \notin waiting
        /\ \A t \in Scheds : t # s => pc[t] = "sched" /\ At(t) = "sched"
        /\ \A t \in Scheds : todo[t] = {}
        /\ \A t \in Scheds : head[t].used => head[t].tag = tag
    BY <1>2, <1>3, LastAlone DEF Last
  <2>3. /\ seen' \in [Scheds -> [tag : Tags, syncing : BOOLEAN]]
        /\ cur' \in [Scheds -> Procs \cup {NotProcess}]
    BY <1>1 DEF IInv, Types, TypeOK
  <2>4. \A t \in Scheds : cur[s] \notin head[t].procs
    BY <1>1, <1>2 DEF IInv, Places
  <2>5. /\ cur'[s] \notin enrolled' /\ enrolled' \subseteq enrolled
        /\ enrolled \subseteq enrolled' \cup {cur[s]}
        /\ \A t \in Scheds : head[t].procs \subseteq enrolled'
        /\ \A p \in enrolled' : \E t \in Scheds : p \in head[t].procs
    BY <1>1, <2>1, <2>2, <2>4 DEF IInv, Places
  <2> QED BY <1>1, <1>2, <2>1, <2>2, <2>3, <2>5, StartKeeps
<1>4. CASE ~Last
  <2>1. pc' = [pc EXCEPT ![s] = "user"] /\ UNCHANGED <<stateVars, ctag, enrolled, waiting>>
    BY <1>4 DEF ResignComplete, Goto, histVars
  <2>2. "user" \in UserLabels /\ pc[s] \in UserLabels
    BY <1>1 DEF UserLabels
  <2> QED BY <1>1, <2>1, <2>2, ResignQuietStep
<1> QED BY <1>3, <1>4

-----------------------------------------------------------------------------
(* Completion survives a change of the count and of who takes part, made   *)
(* by a running process that leaves.                                       *)
LEMMA CompletionLeft ==
  ASSUME IInv, NEW s \in Scheds, Inside(s), UNCHANGED <<tag, syncing, heads, head, ctag, todo, idx>>,
         \A t \in Scheds : t # s => pc'[t] = pc[t] /\ At(t)' = At(t), ~Completing(s)'
  PROVE  Completion'
<1>1. ~Completing(s)
  BY DEF Inside, Completing, UserLabels, SyncLabels, CompleteLabels, EndLabels
<1>2. \A t \in Scheds : (Completing(t)' <=> Completing(t)) /\ (Completing(t) => t # s)
  BY <1>1 DEF Completing
<1>3. \A c \in Scheds : pc[c] # "complete" /\ pc[c] \notin EndLabels
  BY NotEnding
<1>4. ASSUME NEW c \in Scheds, Completing(c)'
      PROVE  /\ ctag'[c] = tag' /\ c \notin todo'[c]
             /\ pc'[c] # "complete" /\ pc'[c] \notin EndLabels
             /\ At(c)' = "local_clear" =>
                  head'[c].used /\ head'[c].procs = {} /\ head'[c].tag # tag'
             /\ pc'[c] # "complete" /\ At(c)' # "local_clear" => ~head'[c].used
             /\ pc'[c] \in {"set_bit", "take_head"} => idx'[c] # c
             /\ pc'[c] = "set_bit" => head'[idx'[c]].used /\ head'[idx'[c]].tag = tag'
  <2>1. Completing(c) /\ c # s
    BY <1>2, <1>4
  <2> QED BY <1>3, <2>1 DEF IInv, Completion
<1>5. /\ syncing' <=> \E c \in Scheds : Completing(c)'
      /\ \A c, d \in Scheds : Completing(c)' /\ Completing(d)' => c = d
      /\ \A t \in Scheds : ~Completing(t)' => todo'[t] = {}
  BY <1>2 DEF IInv, Completion
<1> QED BY <1>4, <1>5 DEF Completion, EndLabels

(* bar_sync counts its process off, or completes the phase. *)
LEMMA BarCasStep ==
  ASSUME IInv, NEW s \in Scheds, BarCas(s)
  PROVE  IInv'
<1>1. /\ pc[s] = "bar_cas" /\ cur' = [cur EXCEPT ![s] = NotProcess]
      /\ seen' = [seen EXCEPT ![s] = [tag |-> 0, syncing |-> FALSE]]
      /\ UNCHANGED <<queued, heads, head, rel, ret, todo, idx, enrolled>>
  BY DEF BarCas
<1>2. Inside(s) /\ pc[s] \notin Letting /\ pc[s] \notin {"bar_add", "bar_set"} /\ At(s) = "bar_cas"
      /\ ~Completing(s)
  BY <1>1 DEF Inside, At, Letting, SyncLabels, Completing, CompleteLabels, EndLabels
<1>3. head[s].used /\ head[s].tag = tag /\ cur[s] \in head[s].procs
  BY <1>1 DEF IInv, Syncing, InSync
<1>4. /\ cur' \in [Scheds -> Procs \cup {NotProcess}] /\ cur'[s] = NotProcess
      /\ (\A t \in Scheds : t # s => cur'[t] = cur[t])
      /\ seen' \in [Scheds -> [tag : Tags, syncing : BOOLEAN]]
      /\ \A t \in Scheds : t # s => seen'[t] = seen[t]
  BY <1>1 DEF IInv, Types, TypeOK, Tags
<1>5. NotProcess \notin enrolled
  BY NotProcessAssumption DEF IInv, Types, TypeOK
<1>6. CASE count = 1 /\ ~syncing
  <2>1. /\ pc' = [pc EXCEPT ![s] = "complete"] /\ count' = 1 /\ tag' = NextTag(tag) /\ syncing' = TRUE
        /\ ctag' = [ctag EXCEPT ![s] = NextTag(tag)] /\ waiting' = {}
    BY <1>6 DEF BarCas, StartComplete, SetState
  <2>2. /\ enrolled = waiting \cup {cur[s]}
        /\ \A t \in Scheds : t # s => pc[t] = "sched" /\ At(t) = "sched"
        /\ \A t \in Scheds : todo[t] = {}
        /\ \A t \in Scheds : head[t].used => head[t].tag = tag
    BY <1>2, <1>6, LastAlone
  <2>3. /\ cur'[s] \notin enrolled' /\ enrolled' \subseteq enrolled
        /\ enrolled \subseteq enrolled' \cup {cur[s]}
        /\ \A t \in Scheds : head[t].procs \subseteq enrolled'
        /\ \A p \in enrolled' : \E t \in Scheds : p \in head[t].procs
    BY <1>1, <1>3, <1>4, <1>5, <2>2 DEF IInv, Places
  <2> QED BY <1>1, <1>2, <1>4, <2>1, <2>2, <2>3, StartKeeps
<1>7. CASE ~(count = 1 /\ ~syncing)
  <2>1. /\ pc' = [pc EXCEPT ![s] = "sched"] /\ waiting' = waiting \cup {cur[s]}
        /\ count' = count - 1 /\ UNCHANGED <<tag, syncing, ctag>>
    BY <1>7 DEF BarCas, SetState
  <2>2. "sched" \in Labels \ Letting
    BY DEF Labels, Letting
  <2>3. /\ pc'[s] = "sched" /\ At(s)' = "sched"
        /\ \A t \in Scheds : t # s => pc'[t] = pc[t] /\ At(t)' = At(t)
        /\ pc' \in [Scheds -> Labels]
    BY <1>1, <1>2, <2>1, <2>2, GotoAt DEF IInv
  <2>4. /\ ~Completing(s)' /\ ~Inside(s)'
        /\ \A t \in Scheds : t # s => (Inside(t)' <=> Inside(t))
    BY <2>3 DEF Completing, Inside, CompleteLabels, EndLabels, UserLabels, SyncLabels
  <2>5. cur[s] \in enrolled /\ cur[s] \notin waiting /\ cur[s] \notin Late /\ count >= 1
    BY <1>2, CountRunner
  <2>6. Types'
    <3>1. count' \in Nat
      BY <2>1, <2>5 DEF IInv, Types, TypeOK
    <3>2. waiting' \subseteq Procs
      BY <2>1, <2>5 DEF IInv, Types, TypeOK
    <3> QED BY <1>1, <1>4, <2>1, <2>3, <3>1, <3>2 DEF IInv, Types, TypeOK
  <2>7. \A t \in Scheds : /\ cur[t] = cur[s] => t = s
                          /\ cur[s] \notin rel[t]
                          /\ cur[s] \in head[t].procs => t = s
    BY <1>2 DEF IInv, Places
  <2>8. Places'
    <3>1. \A p \in Procs : Running(p)' => Running(p)
      BY <1>4, NotProcessAssumption DEF Running
    <3>2. \A p : Held(p)' <=> Held(p)
      BY <1>1 DEF Held
    <3>3. \A t \in Scheds : Inside(t)' =>
            /\ cur'[t] \in enrolled' /\ cur'[t] \notin waiting'
            /\ \A u \in Scheds :
                 /\ cur'[u] = cur'[t] => u = t
                 /\ cur'[t] \notin rel'[u]
                 /\ cur'[t] \in head'[u].procs => u = t /\ pc'[t] = "bar_cas"
      BY <1>1, <1>4, <1>5, <2>1, <2>3, <2>4, <2>7 DEF IInv, Places
    <3>4. \A t \in Scheds : ~Inside(t)' => cur'[t] \notin enrolled'
      BY <1>1, <1>4, <1>5, <2>4 DEF IInv, Places
    <3>5. \A t \in Scheds :
            /\ rel'[t] = {} <=> pc'[t] \notin Letting
            /\ pc'[t] \in Letting => ret'[t] # "sched"
            /\ pc'[t] = "sched" => cur'[t] = NotProcess
      BY <1>1, <1>2, <1>4, <2>2, <2>3 DEF IInv, Places
    <3>6. /\ waiting' \subseteq enrolled' /\ (\A t \in Scheds : rel'[t] \cap waiting' = {})
          /\ \A p \in waiting' : \E t \in Scheds : p \in head'[t].procs
      BY <1>1, <1>3, <2>1, <2>5, <2>7 DEF IInv, Places
    <3> QED BY <1>1, <3>1, <3>2, <3>3, <3>4, <3>5, <3>6 DEF IInv, Places
  <2>9. Phases'
    <3>1. HeadPhase(s)'
      <4>1. s \in heads /\ head[s].procs \subseteq waiting \cup {cur[s]}
        BY <1>3 DEF IInv, Phases, HeadPhase
      <4> QED BY <1>1, <1>3, <2>1, <4>1 DEF HeadPhase
    <3>2. ASSUME NEW t \in Scheds, t # s PROVE HeadPhase(t)'
      <4>1. \A c \in Scheds : Pending(t, c) => Pending(t, c)'
        BY <1>1, <1>2, <2>3, PendingKept
      <4>2. \A c \in Scheds : pc[c] = "complete" => pc'[c] = "complete"
        BY <1>1, <2>3
      <4>3. cur[s] \notin head[t].procs
        BY <2>7, <3>2
      <4> QED BY <1>1, <1>4, <2>1, <2>3, <3>2, <4>1, <4>2, <4>3 DEF IInv, Phases, HeadPhase
    <3> QED BY <3>1, <3>2 DEF Phases
  <2>10. Syncing'
    <3>1. InSync(s)'
      BY <2>3 DEF InSync, SyncLabels
    <3>2. \A t \in Scheds : t # s => InSync(t)'
      BY <1>1, <1>4, <2>1, <2>3, InSyncKept DEF IInv, Syncing
    <3> QED BY <3>1, <3>2 DEF Syncing
  <2>11. Completion'
    BY <1>1, <1>2, <2>1, <2>3, <2>4, CompletionLeft
  <2>12. Counted'
    <3>1. \A t \in Scheds : Behind(t)' = Behind(t)
      BY <1>1, <2>1, <2>3 DEF Behind
    <3>2. Late' = Late
      BY <3>1 DEF Late
    <3>3. Cardinality(waiting') = Cardinality(waiting) + 1
      BY <2>1, <2>5, FiniteParts, FS_AddElement DEF IInv
    <3>4. count' + Cardinality(waiting') + Cardinality(Late)
            = Cardinality(enrolled) + (IF syncing THEN 1 ELSE 0)
      <4>1. count \in Nat /\ Cardinality(waiting) \in Nat /\ Cardinality(Late) \in Nat
        BY FiniteParts DEF IInv, Types, TypeOK
      <4>2. count' + Cardinality(waiting') + Cardinality(Late)
              = count + Cardinality(waiting) + Cardinality(Late)
        BY <2>1, <3>3, <4>1
      <4> QED BY <4>2 DEF IInv, Counted
    <3> QED BY <1>1, <2>1, <3>2, <3>4 DEF Counted
  <2> QED BY <2>6, <2>8, <2>9, <2>10, <2>11, <2>12 DEF IInv
<1> QED BY <1>6, <1>7

(* A process leaves that is not the last one the others wait for. *)
LEMMA LeaveKeeps ==
  ASSUME IInv, NEW s \in Scheds, pc[s] \in {"user", "resign_cas"},
         count' = count - 1, enrolled' = enrolled \ {cur[s]}, KernelScheduler(s),
         UNCHANGED <<queued, tag, syncing, heads, head, seen, rel, ret, ctag, todo, idx, waiting>>
  PROVE  IInv'
<1>1. pc' = [pc EXCEPT ![s] = "sched"] /\ cur' = [cur EXCEPT ![s] = NotProcess]
  BY DEF KernelScheduler
<1>2. Inside(s) /\ pc[s] \notin Letting /\ ~Completing(s) /\ "sched" \in Labels \ Letting
  BY DEF Inside, At, Letting, UserLabels, Labels, Completing, CompleteLabels, EndLabels
<1>3. /\ pc'[s] = "sched" /\ At(s)' = "sched"
      /\ \A t \in Scheds : t # s => pc'[t] = pc[t] /\ At(t)' = At(t)
      /\ pc' \in [Scheds -> Labels]
  BY <1>1, <1>2, GotoAt DEF IInv
<1>4. /\ ~Completing(s)' /\ ~Inside(s)'
      /\ \A t \in Scheds : t # s => (Inside(t)' <=> Inside(t))
  BY <1>3 DEF Completing, Inside, CompleteLabels, EndLabels, UserLabels, SyncLabels
<1>5. /\ cur' \in [Scheds -> Procs \cup {NotProcess}] /\ cur'[s] = NotProcess
      /\ \A t \in Scheds : t # s => cur'[t] = cur[t]
  BY <1>1 DEF IInv, Types, TypeOK
<1>6. cur[s] \in enrolled /\ cur[s] \notin waiting /\ cur[s] \notin Late /\ count >= 1
  BY <1>2, CountRunner
<1>7. \A t \in Scheds : /\ cur[t] = cur[s] => t = s
                        /\ cur[s] \notin rel[t] /\ cur[s] \notin head[t].procs
  BY <1>2 DEF IInv, Places
<1>8. NotProcess \notin enrolled
  BY NotProcessAssumption DEF IInv, Types, TypeOK
<1>9. Types'
  <2>1. count' \in Nat /\ enrolled' \subseteq Procs
    BY <1>6 DEF IInv, Types, TypeOK
  <2> QED BY <1>3, <1>5, <2>1 DEF IInv, Types, TypeOK
<1>10. Places'
  <2>1. \A p \in Procs : Running(p)' => Running(p)
    BY <1>5, NotProcessAssumption DEF Running
  <2>2. \A p : Held(p)' <=> Held(p)
    BY DEF Held
  <2>3. \A t \in Scheds : Inside(t)' =>
          /\ cur'[t] \in enrolled' /\ cur'[t] \notin waiting'
          /\ \A u \in Scheds :
               /\ cur'[u] = cur'[t] => u = t
               /\ cur'[t] \notin rel'[u]
               /\ cur'[t] \in head'[u].procs => u = t /\ pc'[t] = "bar_cas"
    BY <1>3, <1>4, <1>5, <1>7, <1>8 DEF IInv, Places
  <2>4. \A t \in Scheds : ~Inside(t)' => cur'[t] \notin enrolled'
    BY <1>4, <1>5, <1>8 DEF IInv, Places
  <2>5. \A t \in Scheds :
          /\ rel'[t] = {} <=> pc'[t] \notin Letting
          /\ pc'[t] \in Letting => ret'[t] # "sched"
          /\ pc'[t] = "sched" => cur'[t] = NotProcess
    BY <1>2, <1>3, <1>5 DEF IInv, Places
  <2>6. \A p \in Procs : queued'[p] = 1 => p \in enrolled' /\ ~Running(p)' /\ ~Held(p)'
    <3>1. Running(cur[s])
      BY DEF Running
    <3> QED BY <2>1, <2>2, <3>1 DEF IInv, Places
  <2>7. waiting' \subseteq enrolled' /\ \A t \in Scheds : head'[t].procs \cup rel'[t] \subseteq enrolled'
    BY <1>6, <1>7 DEF IInv, Places
  <2> QED BY <2>3, <2>4, <2>5, <2>6, <2>7 DEF IInv, Places
<1>11. Phases'
  <2>1. ASSUME NEW t \in Scheds PROVE HeadPhase(t)'
    <3>1. \A c \in Scheds : Pending(t, c) => Pending(t, c)'
      BY <1>2, <1>3, PendingKept
    <3>2. \A c \in Scheds : pc[c] = "complete" => pc'[c] = "complete"
      BY <1>3
    <3>3. \A p \in head[t].procs : p = cur[t] => p = cur'[t]
      BY <1>5, <1>7
    <3>4. /\ pc[t] = "bar_add" => pc'[t] = "bar_add"
          /\ pc[t] = "bar_set" => pc'[t] = "bar_set"
          /\ At(t) = "local_clear" => At(t)' = "local_clear"
      <4>1. At(s) # "local_clear"
        BY DEF At, Letting
      <4> QED BY <1>3, <4>1
    <3>5. head[t].procs \subseteq waiting \cup {cur[t]} => head'[t].procs \subseteq waiting' \cup {cur'[t]}
      BY <3>3
    <3> QED BY <3>1, <3>2, <3>4, <3>5 DEF IInv, Phases, HeadPhase
  <2> QED BY <2>1 DEF Phases
<1>12. Syncing'
  <2>1. InSync(s)'
    BY <1>3 DEF InSync, SyncLabels
  <2>2. \A t \in Scheds : t # s => InSync(t)'
    BY <1>3, <1>5, InSyncKept DEF IInv, Syncing
  <2> QED BY <2>1, <2>2 DEF Syncing
<1>13. Completion'
  BY <1>2, <1>3, <1>4, CompletionLeft
<1>14. Counted'
  <2>1. \A t \in Scheds : Behind(t)' = Behind(t)
    BY <1>3 DEF Behind
  <2>2. Late' = Late
    BY <2>1 DEF Late
  <2>3. Cardinality(enrolled') = Cardinality(enrolled) - 1
    BY <1>6, FiniteParts, FS_RemoveElement DEF IInv
  <2>4. count \in Nat /\ Cardinality(waiting) \in Nat /\ Cardinality(Late) \in Nat
        /\ Cardinality(enrolled) \in Nat
    BY FiniteParts DEF IInv, Types, TypeOK
  <2>5. count + Cardinality(waiting) + Cardinality(Late)
          = Cardinality(enrolled) + (IF syncing THEN 1 ELSE 0)
    BY DEF IInv, Counted
  <2>6. count' + Cardinality(waiting) + Cardinality(Late)
          = Cardinality(enrolled') + (IF syncing THEN 1 ELSE 0)
    BY <2>3, <2>4, <2>5
  <2> QED BY <2>2, <2>6 DEF Counted
<1> QED BY <1>9, <1>10, <1>11, <1>12, <1>13, <1>14 DEF IInv

(* A process resigns; the last one has to look at the heads first. *)
LEMMA BarResignStep ==
  ASSUME IInv, NEW s \in Scheds, BarResign(s)
  PROVE  IInv'
<1>1. /\ pc[s] = "user"
      /\ UNCHANGED <<queued, tag, syncing, heads, head, seen, rel, ret, ctag, todo, idx, waiting>>
  BY DEF BarResign, localVars, completeVars
<1>2. CASE Last
  <2>1. pc' = [pc EXCEPT ![s] = "resign_heads"] /\ UNCHANGED <<cur, count, enrolled>>
    BY <1>2 DEF BarResign, Goto
  <2>2. "resign_heads" \in UserLabels /\ pc[s] \in UserLabels
    BY <1>1 DEF UserLabels
  <2> QED BY <1>1, <2>1, <2>2, ResignQuietStep DEF stateVars
<1>3. CASE ~Last
  <2>1. count' = count - 1 /\ enrolled' = enrolled \ {cur[s]} /\ KernelScheduler(s)
    BY <1>3 DEF BarResign
  <2> QED BY <1>1, <2>1, LeaveKeeps
<1> QED BY <1>2, <1>3

(* Does anybody wait that the last process must let go? *)
LEMMA ResignHeadsStep ==
  ASSUME IInv, NEW s \in Scheds, ResignHeads(s)
  PROVE  IInv'
<1>1. /\ pc[s] = "resign_heads"
      /\ pc' = [pc EXCEPT ![s] = IF heads = {} THEN "resign_cas" ELSE "resign_complete"]
      /\ UNCHANGED <<cur, queued, stateVars, heads, head, seen, rel, ret, ctag, todo, idx, enrolled, waiting>>
  BY DEF ResignHeads, Goto, barVars, localVars, completeVars, histVars
<1>2. /\ (IF heads = {} THEN "resign_cas" ELSE "resign_complete") \in UserLabels
      /\ pc[s] \in UserLabels
  BY <1>1 DEF UserLabels
<1> QED BY <1>1, <1>2, ResignQuietStep

(* Nobody does. *)
LEMMA ResignCasStep ==
  ASSUME IInv, NEW s \in Scheds, ResignCas(s)
  PROVE  IInv'
<1>1. /\ pc[s] = "resign_cas"
      /\ UNCHANGED <<queued, heads, head, seen, rel, ret, ctag, todo, idx, waiting>>
  BY DEF ResignCas, localVars, completeVars
<1>2. CASE Last
  <2>1. /\ count' = count - 1 /\ tag' = tag /\ syncing' = syncing
        /\ enrolled' = enrolled \ {cur[s]} /\ KernelScheduler(s)
    <3>1. count = 1 /\ syncing = FALSE
      BY <1>2 DEF Last, IInv, Types, TypeOK
    <3>2. /\ count' = 0 /\ tag' = tag /\ syncing' = FALSE
          /\ enrolled' = enrolled \ {cur[s]} /\ KernelScheduler(s)
      BY <1>2 DEF ResignCas, SetState
    <3>3. count' = count - 1
      <4>1. count = 1 /\ count' = 0
        BY <3>1, <3>2
      <4> QED BY <4>1
    <3>4. syncing' = syncing
      BY <3>1, <3>2
    <3> QED BY <3>2, <3>3, <3>4
  <2> QED BY <1>1, <2>1, LeaveKeeps
<1>3. CASE ~Last
  <2>1. pc' = [pc EXCEPT ![s] = "user"] /\ UNCHANGED <<cur, stateVars, enrolled>>
    BY <1>3 DEF ResignCas, Goto
  <2>2. "user" \in UserLabels /\ pc[s] \in UserLabels
    BY <1>1 DEF UserLabels
  <2> QED BY <1>1, <2>1, <2>2, ResignQuietStep
<1> QED BY <1>2, <1>3

(* A process is enrolled by a running one, and starts. *)
LEMMA BarEnrollStep ==
  ASSUME IInv, NEW s \in Scheds, NEW p \in Procs, BarEnroll(s, p)
  PROVE  IInv'
<1>1. /\ pc[s] = "user" /\ p \notin enrolled /\ (\A u \in Scheds : cur[u] # p)
      /\ count' = count + 1 /\ enrolled' = enrolled \cup {p}
      /\ queued' = [queued EXCEPT ![p] = @ + 1]
      /\ UNCHANGED <<pc, cur, tag, syncing, heads, head, seen, rel, ret, ctag, todo, idx, waiting>>
  BY DEF BarEnroll, EnqueueProcess, localVars, completeVars
<1>2. Inside(s)
  BY <1>1 DEF Inside, At, Letting, UserLabels
<1>3. \A t \in Scheds : /\ At(t)' = At(t) /\ (Inside(t)' <=> Inside(t))
                        /\ (Completing(t)' <=> Completing(t))
  BY <1>1 DEF At, Inside, Completing
<1>4. \A c \in Scheds : pc[c] # "complete" /\ pc[c] \notin EndLabels
  BY <1>2, NotEnding
<1>5. Types'
  <2>1. count' \in Nat /\ enrolled' \subseteq Procs /\ queued' \in [Procs -> Nat]
    BY <1>1 DEF IInv, Types, TypeOK
  <2> QED BY <1>1, <2>1 DEF IInv, Types, TypeOK
<1>6. Places'
  <2>1. ~Running(p) /\ ~Held(p) /\ queued[p] = 0
    BY <1>1 DEF Running, Held, IInv, Places
  <2>2. queued'[p] = 1 /\ \A q \in Procs : q # p => queued'[q] = queued[q]
    BY <1>1, <2>1 DEF IInv, Types, TypeOK
  <2>3. \A q : (Running(q)' <=> Running(q)) /\ (Held(q)' <=> Held(q))
    BY <1>1 DEF Running, Held
  <2>4. \A q \in Procs : queued'[q] \in {0, 1} /\ (queued'[q] = 1 => q \in enrolled' /\ ~Running(q)' /\ ~Held(q)')
    BY <1>1, <2>1, <2>2, <2>3 DEF IInv, Places
  <2>5. \A t \in Scheds : Inside(t)' =>
          /\ cur'[t] \in enrolled' /\ cur'[t] \notin waiting'
          /\ \A u \in Scheds :
               /\ cur'[u] = cur'[t] => u = t
               /\ cur'[t] \notin rel'[u]
               /\ cur'[t] \in head'[u].procs => u = t /\ pc'[t] = "bar_cas"
    BY <1>1, <1>3 DEF IInv, Places
  <2>6. \A t \in Scheds : ~Inside(t)' => cur'[t] \notin enrolled'
    BY <1>1, <1>3 DEF IInv, Places
  <2> QED BY <1>1, <2>4, <2>5, <2>6 DEF IInv, Places
<1>7. Phases'
  <2>1. \A t, c \in Scheds : Pending(t, c) => Pending(t, c)'
    BY <1>1, <1>3 DEF Pending
  <2> QED BY <1>1, <1>3, <2>1, PhasesKept DEF IInv
<1>8. Syncing'
  BY <1>1, <1>3 DEF IInv, Syncing, InSync
<1>9. Completion'
  BY <1>1, <1>3, <1>4 DEF IInv, Completion, EndLabels
<1>10. Counted'
  <2>1. \A t \in Scheds : Behind(t)' = Behind(t)
    BY <1>1 DEF Behind
  <2>2. Late' = Late
    BY <2>1 DEF Late
  <2>3. Cardinality(enrolled') = Cardinality(enrolled) + 1
    BY <1>1, FiniteParts, FS_AddElement DEF IInv
  <2>4. count \in Nat /\ Cardinality(waiting) \in Nat /\ Cardinality(Late) \in Nat
        /\ Cardinality(enrolled) \in Nat
    BY FiniteParts DEF IInv, Types, TypeOK
  <2>5. count + Cardinality(waiting) + Cardinality(Late)
          = Cardinality(enrolled) + (IF syncing THEN 1 ELSE 0)
    BY DEF IInv, Counted
  <2>6. count' + Cardinality(waiting) + Cardinality(Late)
          = Cardinality(enrolled') + (IF syncing THEN 1 ELSE 0)
    BY <1>1, <2>3, <2>4, <2>5
  <2> QED BY <1>1, <2>2, <2>6 DEF Counted
<1> QED BY <1>5, <1>6, <1>7, <1>8, <1>9, <1>10 DEF IInv

(* A runnable process runs. *)
LEMMA PickStep ==
  ASSUME IInv, NEW s \in Scheds, NEW p \in Procs, Pick(s, p)
  PROVE  IInv'
<1>1. /\ pc[s] = "sched" /\ queued[p] > 0 /\ queued' = [queued EXCEPT ![p] = @ - 1]
      /\ cur' = [cur EXCEPT ![s] = p] /\ pc' = [pc EXCEPT ![s] = "user"]
      /\ UNCHANGED <<count, tag, syncing, heads, head, seen, rel, ret, ctag, todo, idx,
                     enrolled, waiting>>
  BY DEF Pick, Dispatch, barVars, stateVars, localVars, completeVars, histVars
<1>2. pc[s] \notin Letting /\ "user" \in Labels \ Letting
  BY <1>1 DEF Labels, UserLabels, Letting
<1>3. /\ pc'[s] = "user" /\ At(s) = "sched" /\ At(s)' = "user"
      /\ \A t \in Scheds : t # s => pc'[t] = pc[t] /\ At(t)' = At(t)
      /\ pc' \in [Scheds -> Labels]
  BY <1>1, <1>2, GotoAt DEF IInv
<1>4. /\ ~Completing(s) /\ ~Completing(s)' /\ Inside(s)' /\ ~Inside(s)
      /\ \A t \in Scheds : t # s => (Inside(t)' <=> Inside(t)) /\ (Completing(t)' <=> Completing(t))
  BY <1>3 DEF Completing, Inside, CompleteLabels, EndLabels, UserLabels, SyncLabels
<1>5. queued[p] = 1 /\ p \in enrolled /\ ~Running(p) /\ ~Held(p) /\ p \notin waiting
  <2>1. queued[p] = 1
    BY <1>1 DEF IInv, Places
  <2> QED BY <2>1 DEF IInv, Places, Held
<1>6. /\ cur' \in [Scheds -> Procs \cup {NotProcess}] /\ cur'[s] = p /\ cur[s] = NotProcess
      /\ (\A t \in Scheds : t # s => cur'[t] = cur[t])
      /\ queued' \in [Procs -> Nat] /\ queued'[p] = 0
      /\ \A q \in Procs : q # p => queued'[q] = queued[q]
  BY <1>1, <1>5 DEF IInv, Types, TypeOK, Places
<1>7. Types'
  BY <1>1, <1>3, <1>6 DEF IInv, Types, TypeOK
<1>8. Places'
  <2>1. \A q \in Procs : q # p => (Running(q)' => Running(q))
    BY <1>6 DEF Running
  <2>2. \A q : Held(q)' <=> Held(q)
    BY <1>1 DEF Held
  <2>3. \A q \in Procs : queued'[q] \in {0, 1} /\ (queued'[q] = 1 => q \in enrolled' /\ ~Running(q)' /\ ~Held(q)')
    BY <1>1, <1>6, <2>1, <2>2 DEF IInv, Places
  <2>4. ASSUME NEW t \in Scheds, Inside(t)'
        PROVE  /\ cur'[t] \in enrolled' /\ cur'[t] \notin waiting'
               /\ \A u \in Scheds :
                    /\ cur'[u] = cur'[t] => u = t
                    /\ cur'[t] \notin rel'[u]
                    /\ cur'[t] \in head'[u].procs => u = t /\ pc'[t] = "bar_cas"
    <3>1. CASE t = s
      BY <1>1, <1>5, <1>6, <3>1 DEF Running, Held
    <3>2. CASE t # s
      <4>1. Inside(t) /\ cur[t] # p
        BY <1>4, <1>5, <2>4, <3>2 DEF Running
      <4> QED BY <1>1, <1>3, <1>6, <3>2, <4>1 DEF IInv, Places
    <3> QED BY <3>1, <3>2
  <2>5. \A t \in Scheds : ~Inside(t)' => cur'[t] \notin enrolled'
    BY <1>1, <1>4, <1>6 DEF IInv, Places
  <2>6. \A t \in Scheds :
          /\ rel'[t] = {} <=> pc'[t] \notin Letting
          /\ pc'[t] \in Letting => ret'[t] # "sched"
          /\ pc'[t] = "sched" => cur'[t] = NotProcess
    BY <1>1, <1>2, <1>3, <1>6 DEF IInv, Places
  <2> QED BY <1>1, <2>3, <2>4, <2>5, <2>6 DEF IInv, Places
<1>9. Phases'
  <2>1. ASSUME NEW t \in Scheds PROVE HeadPhase(t)'
    <3>1. \A c \in Scheds : Pending(t, c) => Pending(t, c)'
      BY <1>1, <1>3, <1>4, PendingKept
    <3>2. \A c \in Scheds : pc[c] = "complete" => pc'[c] = "complete"
      BY <1>1, <1>3
    <3>3. head[t].procs \subseteq waiting \cup {cur[t]} => head'[t].procs \subseteq waiting' \cup {cur'[t]}
      <4>1. NotProcess \notin head[t].procs
        BY NotProcessAssumption DEF IInv, Places, Types, TypeOK
      <4> QED BY <1>1, <1>6, <4>1
    <3>4. /\ pc[t] = "bar_add" => pc'[t] = "bar_add"
          /\ pc[t] = "bar_set" => pc'[t] = "bar_set"
          /\ At(t) = "local_clear" => At(t)' = "local_clear"
      BY <1>1, <1>3
    <3> QED BY <1>1, <3>1, <3>2, <3>3, <3>4 DEF IInv, Phases, HeadPhase
  <2> QED BY <2>1 DEF Phases
<1>10. Syncing'
  <2>1. InSync(s)'
    BY <1>3 DEF InSync, SyncLabels
  <2>2. \A t \in Scheds : t # s => InSync(t)'
    BY <1>1, <1>3, <1>6, InSyncKept DEF IInv, Syncing
  <2> QED BY <2>1, <2>2 DEF Syncing
<1>11. Completion'
  BY <1>1, <1>3, <1>4, CompletionKept DEF IInv, stateVars
<1>12. Counted'
  <2>1. \A t \in Scheds : Behind(t)' = Behind(t)
    BY <1>1, <1>3 DEF Behind
  <2> QED BY <1>1, <2>1, CountedKept DEF IInv
<1> QED BY <1>7, <1>8, <1>9, <1>10, <1>11, <1>12 DEF IInv

-----------------------------------------------------------------------------
(* The first members are runnable, and nothing has happened yet. *)
LEMMA InitIInv ==
  ASSUME Init
  PROVE  IInv
<1>1. /\ pc = [s \in Scheds |-> "sched"] /\ cur = [s \in Scheds |-> NotProcess]
      /\ queued = [p \in Procs |-> IF p \in Members THEN 1 ELSE 0]
      /\ count = Cardinality(Members) /\ tag = 0 /\ syncing = FALSE /\ heads = {}
      /\ head = [s \in Scheds |-> Null] /\ rel = [s \in Scheds |-> {}]
      /\ seen = [s \in Scheds |-> [tag |-> 0, syncing |-> FALSE]]
      /\ ret = [s \in Scheds |-> "sched"] /\ ctag = [s \in Scheds |-> 0]
      /\ todo = [s \in Scheds |-> {}] /\ idx = [s \in Scheds |-> s]
      /\ enrolled = Members /\ waiting = {}
  BY DEF Init
<1>2. IsFiniteSet(Members) /\ Cardinality(Members) \in Nat /\ Members \subseteq Procs
  BY BarrierAssumption, FS_Subset, FS_CardinalityType
<1>3. \A s \in Scheds : ~head[s].used /\ head[s].procs = {} /\ head[s].tag = 0 /\ rel[s] = {}
  BY <1>1 DEF Null
<1>4. \A s \in Scheds : pc[s] = "sched" /\ At(s) = "sched" /\ ~Inside(s) /\ ~Completing(s)
  BY <1>1 DEF At, Letting, Inside, Completing, UserLabels, SyncLabels, CompleteLabels, EndLabels
<1>5. Types
  <2>1. head \in [Scheds -> [tag : Tags, procs : SUBSET Procs, used : BOOLEAN]]
    BY <1>1 DEF Null, Tags
  <2>2. /\ cur \in [Scheds -> Procs \cup {NotProcess}] /\ queued \in [Procs -> Nat]
        /\ seen \in [Scheds -> [tag : Tags, syncing : BOOLEAN]] /\ rel \in [Scheds -> SUBSET Procs]
        /\ ctag \in [Scheds -> Tags]
    BY <1>1 DEF Tags
  <2>3. /\ todo \in [Scheds -> SUBSET Scheds] /\ idx \in [Scheds -> Scheds]
        /\ pc \in [Scheds -> Labels] /\ ret \in [Scheds -> {"sched", "bar_bit", "local_clear", "next_head"}]
    BY <1>1 DEF Labels
  <2>4. /\ count \in Nat /\ tag \in Tags /\ syncing \in BOOLEAN /\ heads \subseteq Scheds
        /\ enrolled \subseteq Procs /\ waiting \subseteq Procs
    <3>1. syncing \in BOOLEAN
      BY <1>1
    <3>2. count \in Nat /\ tag \in Tags
      BY <1>1, <1>2 DEF Tags
    <3>3. heads \subseteq Scheds /\ enrolled \subseteq Procs /\ waiting \subseteq Procs
      BY <1>1, <1>2
    <3> QED BY <3>1, <3>2, <3>3
  <2> QED BY <2>1, <2>2, <2>3, <2>4 DEF Types, TypeOK
<1>6. Places
  <2>1. \A p \in Procs : queued[p] \in {0, 1} /\ (queued[p] = 1 => p \in enrolled)
    BY <1>1
  <2>2. \A p \in Procs : ~Running(p) /\ ~Held(p)
    BY <1>1, <1>3, NotProcessAssumption DEF Running, Held
  <2>3. \A s \in Scheds : cur[s] = NotProcess /\ cur[s] \notin enrolled
    BY <1>1, <1>2, NotProcessAssumption
  <2> QED BY <1>1, <1>3, <1>4, <2>1, <2>2, <2>3 DEF Places, Letting
<1>7. Phases
  BY <1>1, <1>3 DEF Phases, HeadPhase
<1>8. Syncing
  BY <1>4 DEF Syncing, InSync, SyncLabels
<1>9. Completion
  BY <1>1, <1>4 DEF Completion
<1>10. Counted
  <2>1. Late = {}
    BY <1>1, <1>3, <1>4 DEF Late, Behind
  <2>2. Cardinality(Late) = 0 /\ Cardinality(waiting) = 0
    BY <1>1, <2>1, FS_EmptySet
  <2> QED BY <1>1, <1>2, <2>2 DEF Counted
<1> QED BY <1>5, <1>6, <1>7, <1>8, <1>9, <1>10 DEF IInv

(* Every step keeps the invariant. *)
LEMMA NextIInv ==
  ASSUME IInv, [Next]_vars
  PROVE  IInv'
<1>1. ASSUME NEW s \in Scheds, Kernel(s) PROVE IInv'
  BY <1>1, BarHeadStep, BarSwapStep, BarBitStep, BarSetStep, BarAddStep, BarCasStep,
     AddCountStep, ReleaseStep, CompleteStep, LocalClearStep, NextHeadStep, SetBitStep,
     TakeHeadStep, EndCompleteStep, LookHeadsStep, FinishCasStep, AgainCasStep,
     ResignHeadsStep, ResignCasStep, ResignCompleteStep DEF Kernel
<1>2. ASSUME NEW s \in Scheds, BarSync(s) \/ BarResign(s) \/ \E p \in Procs : Pick(s, p) \/ BarEnroll(s, p)
      PROVE  IInv'
  BY <1>2, BarSyncStep, BarResignStep, PickStep, BarEnrollStep
<1>3. ASSUME UNCHANGED vars PROVE IInv'
  <2>1. UNCHANGED <<pc, cur, queued, count, tag, syncing, heads, head, seen, rel, ret, ctag, todo, idx,
                    enrolled, waiting>>
    BY <1>3 DEF vars, schedVars, barVars, stateVars, localVars, completeVars, histVars
  <2> QED BY <2>1 DEF IInv, Types, TypeOK, Places, Phases, HeadPhase, Pending, Syncing, InSync,
                      Completion, Counted, Late, Behind, At, Completing, Inside, Running, Held
<1> QED BY <1>1, <1>2, <1>3 DEF Next, Ended

(* The inductive invariant holds in every reachable state of the barrier,  *)
(* with any number of schedulers and processes.                            *)
THEOREM Invariance == Spec => []IInv
<1>1. Init => IInv
  BY InitIInv
<1>2. IInv /\ [Next]_vars => IInv'
  BY NextIInv
<1> QED BY <1>1, <1>2, PTL DEF Spec

(* No variable leaves its type; in particular the count in the state word  *)
(* never becomes negative, where it would borrow from the tag (bar_sync,   *)
(* bar_resign and bar_complete subtract from it).                          *)
THEOREM TypeCorrect == Spec => []TypeOK
<1>1. IInv => TypeOK
  BY DEF IInv, Types
<1> QED BY <1>1, Invariance, PTL

-----------------------------------------------------------------------------
(* The processes that are being let go: in a head of the last phase, or    *)
(* out of one and not runnable yet.                                        *)
Leaving ==
  {p \in Procs : \E s \in Scheds : p \in rel[s] \/ (head[s].tag # tag /\ p \in head[s].procs)}

(* They are the ones the refinement mapping calls released. *)
LEMMA ReleasedLeave == IInv => Released = Leaving
<1> SUFFICES ASSUME IInv PROVE Released = Leaving
  OBVIOUS
<1>1. ASSUME NEW p \in Procs, Held(p), p \notin waiting, ~Running(p) PROVE p \in Leaving
  <2>1. PICK s \in Scheds : p \in head[s].procs \/ p \in rel[s]
    BY <1>1 DEF Held
  <2>2. CASE p \in rel[s]
    BY <2>2 DEF Leaving
  <2>3. CASE p \in head[s].procs
    <3>1. head[s].used /\ p # cur[s]
      BY <1>1, <2>3 DEF IInv, Places, Running
    <3>2. head[s].tag # tag
      BY <1>1, <2>3, <3>1 DEF IInv, Phases, HeadPhase
    <3> QED BY <2>3, <3>2 DEF Leaving
  <2> QED BY <2>1, <2>2, <2>3
<1>2. ASSUME NEW p \in Procs, NEW s \in Scheds, p \in rel[s] \/ (head[s].tag # tag /\ p \in head[s].procs)
      PROVE  Held(p) /\ p \notin waiting /\ ~Running(p)
  <2>1. Held(p) /\ p \in enrolled
    BY <1>2 DEF Held, IInv, Places
  <2>2. p \notin waiting
    BY <1>2 DEF IInv, Places, Phases, HeadPhase
  <2>3. ASSUME NEW t \in Scheds, cur[t] = p PROVE FALSE
    <3>1. Inside(t)
      BY <2>1, <2>3 DEF IInv, Places
    <3>2. p \notin rel[s] /\ (p \in head[s].procs => s = t /\ pc[t] = "bar_cas")
      BY <2>3, <3>1 DEF IInv, Places
    <3>3. pc[t] = "bar_cas" => head[t].tag = tag
      BY DEF IInv, Syncing, InSync
    <3> QED BY <1>2, <3>2, <3>3
  <2> QED BY <2>1, <2>2, <2>3 DEF Running
<1> QED BY <1>1, <1>2 DEF Released, Leaving

(* Those that are not counted yet are the ones the invariant calls late. *)
LEMMA UncountedLate == IInv => Uncounted = Late
<1> SUFFICES ASSUME IInv PROVE Uncounted = Late
  OBVIOUS
<1>1. Released = Leaving
  BY ReleasedLeave
<1>2. ASSUME NEW p \in Leaving, ~\E s \in Scheds : pc[s] = "release" /\ p \in rel[s]
      PROVE  p \in Late
  <2>1. PICK s \in Scheds : p \in rel[s] \/ (head[s].tag # tag /\ p \in head[s].procs)
    BY <1>2 DEF Leaving
  <2>2. p \in rel[s] => pc[s] = "add_count"
    BY <1>2 DEF IInv, Places, Letting
  <2>3. p \in Behind(s)
    BY <2>1, <2>2 DEF Behind
  <2> QED BY <1>2, <2>3 DEF Late, Leaving
<1>3. ASSUME NEW p \in Late PROVE p \in Leaving /\ ~\E s \in Scheds : pc[s] = "release" /\ p \in rel[s]
  <2>1. PICK t \in Scheds : p \in Behind(t)
    BY <1>3 DEF Late
  <2>2. (head[t].tag # tag /\ p \in head[t].procs) \/ (pc[t] = "add_count" /\ p \in rel[t])
    BY <2>1 DEF Behind
  <2>3. p \in Leaving
    BY <1>3, <2>2 DEF Late, Leaving
  <2>4. ASSUME NEW s \in Scheds, pc[s] = "release", p \in rel[s] PROVE FALSE
    BY <2>2, <2>4 DEF IInv, Places
  <2> QED BY <2>3, <2>4
<1> QED BY <1>1, <1>2, <1>3 DEF Uncounted

(* The count of the state word is exactly the number of processes the      *)
(* phase still waits for, and one more while BAR_SYNCING is set, however   *)
(* the bar_complete, the bar_syncs that come back and the ones that take   *)
(* their own heads out of its way interleave.                              *)
THEOREM CountIsExact == Spec => []CountExact
<1>1. IInv => CountExact
  BY UncountedLate DEF IInv, Counted, CountExact
<1> QED BY <1>1, Invariance, PTL

(* bar_complete finds the head of every process that waits: its bit in     *)
(* bar->heads is never lost.                                               *)
THEOREM HeadsAreFound == Spec => []NoHeadForgotten
<1>1. ASSUME IInv, NEW s \in Scheds, head[s].procs \cap waiting # {} PROVE s \in heads
  <2>1. head[s].used
    BY <1>1 DEF IInv, Places
  <2>2. head[s].tag = tag
    BY <1>1, <2>1 DEF IInv, Phases, HeadPhase
  <2> QED BY <1>1, <2>1, <2>2 DEF IInv, Phases, HeadPhase
<1>2. IInv => NoHeadForgotten
  BY <1>1 DEF NoHeadForgotten, Known
<1> QED BY <1>2, Invariance, PTL

-----------------------------------------------------------------------------
(* What the mapping needs of the invariant, before the step and after it:  *)
(* the released processes are the ones that leave, and they are everybody  *)
(* as long as bar_complete has not taken the heads.                        *)
Mapped ==
  /\ Released = Leaving
  /\ \A s \in Scheds : pc[s] = "complete" => Leaving = enrolled

(* The invariant implies it, *)
LEMMA IInvMapped == IInv => Mapped
<1> SUFFICES ASSUME IInv, NEW s \in Scheds, pc[s] = "complete" PROVE Leaving = enrolled
  BY ReleasedLeave DEF Mapped
<1>1. Completing(s)
  BY DEF Completing, At, Letting, CompleteLabels
<1>2. /\ \A t \in Scheds : head[t].used => head[t].tag # tag
      /\ \A p \in enrolled : \E t \in Scheds : p \in head[t].procs
  BY <1>1 DEF IInv, Completion
<1>3. \A t \in Scheds : head[t].procs \cup rel[t] \subseteq enrolled /\ (~head[t].used => head[t].procs = {})
  BY DEF IInv, Places
<1>4. enrolled \subseteq Procs
  BY DEF IInv, Types, TypeOK
<1> QED BY <1>2, <1>3, <1>4 DEF Leaving

(* before a step and after it. *)
LEMMA IInvMappedNext == IInv' => Mapped'
<1>1. IInv => Mapped
  BY IInvMapped
<1> QED BY <1>1, PTL

(* A running process is outside the barrier. *)
LEMMA InsideOutside ==
  ASSUME IInv, NEW s \in Scheds, Inside(s)
  PROVE  cur[s] \in enrolled /\ cur[s] \in Procs /\ Abs!Outside(cur[s])
<1>1. cur[s] \in enrolled /\ cur[s] \notin waiting /\ enrolled \subseteq Procs
  BY DEF IInv, Types, TypeOK, Places
<1>2. cur[s] \notin Released
  BY DEF Released, Running
<1> QED BY <1>1, <1>2 DEF Abs!Outside

(* A step that only moves processes from a head to bar_complete_head, or   *)
(* moves none, is invisible.                                               *)
LEMMA StepUnseen ==
  ASSUME IInv, IInv', UNCHANGED <<enrolled, waiting>>, Leaving' = Leaving
  PROVE  UNCHANGED Abs!vars
BY IInvMapped, IInvMappedNext DEF Mapped, Abs!vars

(* Nobody moves. *)
LEMMA NothingMoved ==
  ASSUME UNCHANGED <<tag, head, rel>>
  PROVE  Leaving' = Leaving
BY DEF Leaving

(* bar_complete_head takes over what was in a head of the last phase. *)
LEMMA TakenStillLeave ==
  ASSUME IInv, NEW s \in Scheds, NEW x \in Scheds, tag' = tag, pc[s] \notin Letting,
         head[x].tag # tag, rel' = [rel EXCEPT ![s] = head[x].procs], head'[x].procs = {},
         \A t \in Scheds : t # x => head'[t] = head[t]
  PROVE  Leaving' = Leaving
<1>1. rel'[s] = head[x].procs /\ rel[s] = {} /\ \A t \in Scheds : t # s => rel'[t] = rel[t]
  BY DEF IInv, Types, TypeOK, Places
<1>2. ASSUME NEW p \in Leaving PROVE p \in Leaving'
  <2>1. PICK t \in Scheds : p \in rel[t] \/ (head[t].tag # tag /\ p \in head[t].procs)
    BY DEF Leaving
  <2>2. \E u \in Scheds : p \in rel'[u] \/ (head'[u].tag # tag' /\ p \in head'[u].procs)
    BY <1>1, <2>1
  <2> QED BY <1>2, <2>2 DEF Leaving
<1>3. ASSUME NEW p \in Leaving' PROVE p \in Leaving
  <2>1. PICK t \in Scheds : p \in rel'[t] \/ (head'[t].tag # tag' /\ p \in head'[t].procs)
    BY DEF Leaving
  <2>2. \E u \in Scheds : p \in rel[u] \/ (head[u].tag # tag /\ p \in head[u].procs)
    BY <1>1, <2>1
  <2> QED BY <1>3, <2>2 DEF Leaving
<1> QED BY <1>2, <1>3

(* The steps of bar_sync and bar_complete that the specification does not  *)
(* see.                                                                    *)
LEMMA UnseenSteps ==
  ASSUME IInv, IInv', NEW s \in Scheds,
         \/ BarSync(s) \/ BarHead(s) \/ BarSwap(s) \/ BarBit(s) \/ BarSet(s) \/ BarAdd(s)
         \/ AddCount(s) \/ Complete(s) \/ LocalClear(s) \/ (\E i \in Scheds : NextHead(s, i))
         \/ SetBit(s) \/ TakeHead(s) \/ EndComplete(s) \/ LookHeads(s) \/ FinishCas(s)
         \/ ResignHeads(s) \/ (\E p \in Procs : Pick(s, p))
  PROVE  UNCHANGED Abs!vars
<1>1. UNCHANGED <<enrolled, waiting>>
  BY DEF BarSync, BarHead, BarSwap, BarBit, BarSet, BarAdd, AddCount, Complete, LocalClear, NextHead,
         SetBit, TakeHead, EndComplete, LookHeads, FinishCas, ResignHeads, Pick, histVars
<1>2. CASE \/ BarSync(s) \/ BarHead(s) \/ BarBit(s) \/ AddCount(s) \/ (\E i \in Scheds : NextHead(s, i))
           \/ SetBit(s) \/ LookHeads(s) \/ ResignHeads(s) \/ (\E p \in Procs : Pick(s, p))
  <2>1. UNCHANGED <<tag, head, rel>>
    BY <1>2 DEF BarSync, BarHead, BarBit, AddCount, NextHead, SetBit, LookHeads, ResignHeads, Pick,
                barVars, stateVars, localVars
  <2> QED BY <1>1, <2>1, NothingMoved, StepUnseen
<1>3. CASE EndComplete(s) \/ FinishCas(s)
  <2>1. UNCHANGED <<head, rel>> /\ (tag' = tag \/ tag' = ctag[s]) /\ pc[s] \in {"next_head", "finish_cas"}
    BY <1>3 DEF EndComplete, FinishCas, Finish, SetState, stateVars
  <2>2. Completing(s)
    BY <2>1 DEF Completing, At, Letting, CompleteLabels, EndLabels
  <2>3. ctag[s] = tag
    BY <2>2 DEF IInv, Completion
  <2> QED BY <1>1, <2>1, <2>3, NothingMoved, StepUnseen
<1>4. CASE BarSet(s) \/ LocalClear(s)
  <2>1. /\ rel' = rel /\ tag' = tag /\ \A t \in Scheds : t # s => head'[t] = head[t]
    BY <1>4 DEF BarSet, LocalClear, SetHead, stateVars, localVars, IInv, Types, TypeOK
  <2>2. head'[s].procs = {}
    BY <1>4 DEF BarSet, LocalClear, SetHead, Head, Null, IInv, Types, TypeOK
  <2>3. head[s].procs = {}
    <3>1. pc[s] = "bar_set" => head[s].procs = {}
      BY DEF IInv, Syncing, InSync, At, Letting, Places
    <3>2. pc[s] = "local_clear" => head[s].procs = {}
      BY DEF IInv, Completion, Completing, At, Letting, CompleteLabels
    <3> QED BY <1>4, <3>1, <3>2 DEF BarSet, LocalClear
  <2>4. Leaving' = Leaving
    BY <2>1, <2>2, <2>3 DEF Leaving
  <2> QED BY <1>1, <2>4, StepUnseen
<1>5. CASE BarAdd(s)
  <2>1. /\ rel' = rel /\ tag' = tag /\ head' = [head EXCEPT ![s].procs = @ \cup {cur[s]}]
        /\ pc[s] = "bar_add"
    BY <1>5 DEF BarAdd, stateVars, localVars
  <2>2. head[s].tag = tag /\ head'[s].tag = tag' /\ \A t \in Scheds : t # s => head'[t] = head[t]
    BY <2>1 DEF IInv, Syncing, InSync, Types, TypeOK
  <2>3. Leaving' = Leaving
    BY <2>1, <2>2 DEF Leaving
  <2> QED BY <1>1, <2>3, StepUnseen
<1>6. CASE BarSwap(s)
  <2>1. pc[s] = "bar_swap" /\ head' = [head EXCEPT ![s] = Null] /\ tag' = tag
    BY <1>6 DEF BarSwap, SetHead, stateVars
  <2>2. pc[s] \notin Letting /\ (~head[s].used \/ head[s].tag # tag)
    BY <2>1 DEF Letting, IInv, Syncing, InSync
  <2>3. head'[s].procs = {} /\ \A t \in Scheds : t # s => head'[t] = head[t]
    BY <2>1 DEF Null, IInv, Types, TypeOK
  <2>4. CASE head[s].used
    <3>1. rel' = [rel EXCEPT ![s] = head[s].procs]
      BY <1>6, <2>4 DEF BarSwap, CompleteHead
    <3>2. Leaving' = Leaving
      BY <2>1, <2>2, <2>3, <2>4, <3>1, TakenStillLeave
    <3> QED BY <1>1, <3>2, StepUnseen
  <2>5. CASE ~head[s].used
    <3>1. rel' = rel /\ head[s].procs = {}
      BY <1>6, <2>5 DEF BarSwap, IInv, Places
    <3>2. Leaving' = Leaving
      BY <2>1, <2>3, <3>1 DEF Leaving
    <3> QED BY <1>1, <3>2, StepUnseen
  <2> QED BY <2>4, <2>5
<1>7. CASE Complete(s)
  <2>1. pc[s] = "complete" /\ tag' = tag
    BY <1>7 DEF Complete, stateVars
  <2>2. CASE s \in heads
    <3>1. /\ rel' = [rel EXCEPT ![s] = head[s].procs]
          /\ head' = [head EXCEPT ![s] = [tag |-> head[s].tag, procs |-> {}, used |-> TRUE]]
      BY <1>7, <2>2 DEF Complete, CompleteHead, SetHead, Head
    <3>2. head'[s].procs = {} /\ \A t \in Scheds : t # s => head'[t] = head[t]
      BY <3>1 DEF IInv, Types, TypeOK
    <3>3. head[s].used /\ head[s].tag # tag /\ pc[s] \notin Letting
      <4>1. head[s].used
        BY <2>1, <2>2 DEF IInv, Phases, HeadPhase
      <4> QED BY <2>1, <4>1, AloneAtComplete DEF Letting
    <3>4. Leaving' = Leaving
      BY <2>1, <3>1, <3>2, <3>3, TakenStillLeave
    <3> QED BY <1>1, <3>4, StepUnseen
  <2>3. CASE s \notin heads
    <3>1. UNCHANGED <<head, rel>>
      BY <1>7, <2>3 DEF Complete
    <3> QED BY <1>1, <2>1, <3>1, NothingMoved, StepUnseen
  <2> QED BY <2>2, <2>3
<1>8. CASE TakeHead(s)
  <2>1. pc[s] = "take_head" /\ tag' = tag
    BY <1>8 DEF TakeHead, stateVars
  <2>2. PICK x \in Scheds : x = idx[s]
    BY DEF IInv, Types, TypeOK
  <2>3. Completing(s) /\ pc[s] \notin Letting
    BY <2>1 DEF Completing, At, Letting, CompleteLabels
  <2>4. ctag[s] = tag
    BY <2>3 DEF IInv, Completion
  <2>5. CASE head[x].used /\ head[x].tag # tag
    <3>1. rel' = [rel EXCEPT ![s] = head[x].procs] /\ head' = [head EXCEPT ![x] = Null]
      BY <1>8, <2>2, <2>4, <2>5 DEF TakeHead, CompleteHead, SetHead
    <3>2. head'[x].procs = {} /\ \A t \in Scheds : t # x => head'[t] = head[t]
      BY <3>1 DEF Null, IInv, Types, TypeOK
    <3>3. Leaving' = Leaving
      BY <2>1, <2>3, <2>5, <3>1, <3>2, TakenStillLeave
    <3> QED BY <1>1, <3>3, StepUnseen
  <2>6. CASE ~(head[x].used /\ head[x].tag # tag)
    <3>1. UNCHANGED <<head, rel>>
      BY <1>8, <2>2, <2>4, <2>6 DEF TakeHead
    <3> QED BY <1>1, <2>1, <3>1, NothingMoved, StepUnseen
  <2> QED BY <2>5, <2>6
<1> QED BY <1>2, <1>3, <1>4, <1>5, <1>6, <1>7, <1>8

(* A process comes to the barrier, and may be the last one. *)
LEMMA BarCasSyncs ==
  ASSUME IInv, IInv', NEW s \in Scheds, BarCas(s)
  PROVE  Abs!Sync(cur[s]) /\ cur[s] \in Procs
<1>1. /\ pc[s] = "bar_cas" /\ UNCHANGED <<head, rel, enrolled>>
  BY DEF BarCas
<1>2. Inside(s) /\ pc[s] \notin Letting
  BY <1>1 DEF Inside, At, Letting, SyncLabels
<1>3. cur[s] \in enrolled /\ cur[s] \in Procs /\ Abs!Outside(cur[s])
  BY <1>2, InsideOutside
<1>4. Mapped /\ Mapped'
  BY IInvMapped, IInvMappedNext
<1>5. CASE count = 1 /\ ~syncing
  <2>1. pc' = [pc EXCEPT ![s] = "complete"] /\ waiting' = {}
    BY <1>5 DEF BarCas, StartComplete
  <2>2. pc'[s] = "complete"
    BY <2>1 DEF IInv, Types
  <2>3. waiting \cup {cur[s]} = enrolled
    BY <1>2, <1>5, LastAlone
  <2>4. Released' = enrolled
    BY <1>1, <1>4, <2>2 DEF Mapped
  <2>5. Released \subseteq enrolled
    BY <1>4 DEF Mapped, Leaving, IInv, Places
  <2>6. Released' = Released \cup (waiting \cup {cur[s]})
    BY <2>3, <2>4, <2>5
  <2> QED BY <1>1, <1>3, <2>1, <2>3, <2>6 DEF Abs!Sync, Abs!Meet
<1>6. CASE ~(count = 1 /\ ~syncing)
  <2>1. waiting' = waiting \cup {cur[s]} /\ tag' = tag
    BY <1>6 DEF BarCas, SetState
  <2>2. Released' = Released
    BY <1>1, <1>4, <2>1, NothingMoved DEF Mapped
  <2> QED BY <1>1, <1>3, <2>1, <2>2 DEF Abs!Sync, Abs!Meet
<1> QED BY <1>5, <1>6

(* bar_complete completes a phase in which everybody is back. *)
LEMMA AgainCasCompletes ==
  ASSUME IInv, IInv', NEW s \in Scheds, AgainCas(s)
  PROVE  Abs!Complete \/ UNCHANGED Abs!vars
<1>1. pc[s] = "again_cas" /\ UNCHANGED <<head, rel, enrolled>>
  BY DEF AgainCas
<1>2. Mapped /\ Mapped'
  BY IInvMapped, IInvMappedNext
<1>3. waiting = enrolled
  <2>1. Completing(s) /\ pc[s] \in EndLabels
    BY <1>1 DEF Completing, At, Letting, CompleteLabels, EndLabels
  <2> QED BY <2>1 DEF IInv, Completion
<1>4. CASE AllBack(s)
  <2>1. pc' = [pc EXCEPT ![s] = "complete"] /\ waiting' = {}
    BY <1>4 DEF AgainCas, StartComplete, Goto
  <2>2. pc'[s] = "complete"
    BY <2>1 DEF IInv, Types
  <2>3. Released' = enrolled
    BY <1>1, <1>2, <2>2 DEF Mapped
  <2>4. Released \subseteq enrolled
    BY <1>2 DEF Mapped, Leaving, IInv, Places
  <2>5. Released' = Released \cup waiting
    BY <1>3, <2>3, <2>4
  <2> QED BY <1>1, <1>3, <2>1, <2>5 DEF Abs!Complete, Abs!Meet
<1>5. CASE ~AllBack(s)
  <2>1. waiting' = waiting /\ tag' = tag
    BY <1>5 DEF AgainCas, stateVars
  <2> QED BY <1>1, <2>1, NothingMoved, StepUnseen
<1> QED BY <1>4, <1>5

(* A process resigns, and may have been the last one the others wait for. *)
LEMMA ResignResigns ==
  ASSUME IInv, IInv', NEW s \in Scheds, BarResign(s) \/ ResignCas(s) \/ ResignComplete(s)
  PROVE  (Abs!Resign(cur[s]) /\ cur[s] \in Procs) \/ UNCHANGED Abs!vars
<1>1. /\ pc[s] \in {"user", "resign_cas", "resign_complete"} /\ UNCHANGED <<head, rel>>
  BY DEF BarResign, ResignCas, ResignComplete, localVars
<1>2. Inside(s) /\ pc[s] \notin Letting
  BY <1>1 DEF Inside, At, Letting, UserLabels
<1>3. cur[s] \in enrolled /\ cur[s] \in Procs /\ Abs!Outside(cur[s])
  BY <1>2, InsideOutside
<1>4. Mapped /\ Mapped'
  BY IInvMapped, IInvMappedNext
<1>5. CASE (BarResign(s) /\ ~Last) \/ (ResignCas(s) /\ Last)
  <2>1. enrolled' = enrolled \ {cur[s]} /\ waiting' = waiting /\ tag' = tag
    BY <1>5 DEF BarResign, ResignCas, SetState
  <2>2. Released' = Released
    BY <1>1, <1>4, <2>1, NothingMoved DEF Mapped
  <2> QED BY <1>3, <2>1, <2>2 DEF Abs!Resign, Abs!Meet
<1>6. CASE ResignComplete(s) /\ Last
  <2>1. pc' = [pc EXCEPT ![s] = "complete"] /\ waiting' = {} /\ enrolled' = enrolled \ {cur[s]}
    BY <1>6 DEF ResignComplete, StartComplete, Goto
  <2>2. pc'[s] = "complete"
    BY <2>1 DEF IInv, Types
  <2>3. enrolled = waiting \cup {cur[s]} /\ cur[s] \notin waiting
    BY <1>2, <1>6, LastAlone DEF Last
  <2>4. Released' = enrolled' /\ waiting = enrolled'
    BY <1>4, <2>1, <2>2, <2>3 DEF Mapped
  <2>5. Released \subseteq enrolled /\ cur[s] \notin Released
    BY <1>3, <1>4 DEF Mapped, Leaving, IInv, Places, Abs!Outside
  <2>6. Released' = Released \cup waiting
    BY <2>3, <2>4, <2>5
  <2> QED BY <1>3, <2>1, <2>4, <2>6 DEF Abs!Resign, Abs!Meet
<1>7. CASE (BarResign(s) /\ Last) \/ (ResignCas(s) /\ ~Last) \/ (ResignComplete(s) /\ ~Last)
  <2>1. UNCHANGED <<enrolled, waiting, tag>>
    BY <1>7 DEF BarResign, ResignCas, ResignComplete, stateVars, histVars
  <2> QED BY <1>1, <2>1, NothingMoved, StepUnseen
<1> QED BY <1>5, <1>6, <1>7

(* A running process enrolls another one. *)
LEMMA BarEnrollEnrolls ==
  ASSUME IInv, IInv', NEW s \in Scheds, NEW p \in Procs, BarEnroll(s, p)
  PROVE  Abs!Enroll(p)
<1>1. /\ pc[s] = "user" /\ p \notin enrolled /\ enrolled' = enrolled \cup {p}
      /\ UNCHANGED <<tag, head, rel, waiting>>
  BY DEF BarEnroll, localVars
<1>2. Inside(s)
  BY <1>1 DEF Inside, At, Letting, UserLabels
<1>3. cur[s] \in enrolled /\ Abs!Outside(cur[s])
  BY <1>2, InsideOutside
<1>4. Mapped /\ Mapped'
  BY IInvMapped, IInvMappedNext
<1>5. Released' = Released
  BY <1>1, <1>4, NothingMoved DEF Mapped
<1> QED BY <1>1, <1>3, <1>5 DEF Abs!Enroll

(* bar_complete_head lets a process go. *)
LEMMA ReleaseReleases ==
  ASSUME IInv, IInv', NEW s \in Scheds, NEW p \in Procs, Release(s, p)
  PROVE  Abs!Release(p)
<1>1. /\ pc[s] = "release" /\ p \in rel[s] /\ rel' = [rel EXCEPT ![s] = @ \ {p}]
      /\ UNCHANGED <<tag, head, enrolled, waiting>>
  BY DEF Release, barVars, stateVars, histVars
<1>2. rel'[s] = rel[s] \ {p} /\ \A t \in Scheds : t # s => rel'[t] = rel[t]
  BY <1>1 DEF IInv, Types, TypeOK
<1>3. \A t \in Scheds : p \notin head[t].procs /\ (t # s => p \notin rel[t])
  BY <1>1 DEF IInv, Places
<1>4. Mapped /\ Mapped'
  BY IInvMapped, IInvMappedNext
<1>5. p \in Leaving
  BY <1>1 DEF Leaving
<1>6. Leaving' = Leaving \ {p}
  <2>1. \A q \in Procs : q # p => (q \in Leaving' <=> q \in Leaving)
    BY <1>1, <1>2 DEF Leaving
  <2>2. p \notin Leaving'
    BY <1>1, <1>2, <1>3 DEF Leaving
  <2>3. Leaving \subseteq Procs /\ Leaving' \subseteq Procs
    BY DEF Leaving
  <2> QED BY <2>1, <2>2, <2>3
<1> QED BY <1>1, <1>4, <1>5, <1>6 DEF Mapped, Abs!Release

(* The barrier of CCSP implements the abstract one: nobody passes before   *)
(* everybody enrolled has arrived, and whoever waits is let go once.       *)
THEOREM BarrierIsImplemented == Spec => ImplementsBarrier
<1>1. Init => Abs!Init
  <2> SUFFICES ASSUME Init PROVE Abs!Init
    OBVIOUS
  <2>1. IInv /\ Mapped
    BY InitIInv, IInvMapped
  <2>2. waiting = {} /\ enrolled \in SUBSET Procs
    BY BarrierAssumption DEF Init
  <2>3. Leaving = {}
    BY DEF Init, Leaving, Null
  <2> QED BY <2>1, <2>2, <2>3 DEF Mapped, Abs!Init
<1>2. IInv /\ IInv' /\ [Next]_vars => [Abs!Next]_(Abs!vars)
  <2> SUFFICES ASSUME IInv, IInv', [Next]_vars PROVE [Abs!Next]_(Abs!vars)
    OBVIOUS
  <2>1. ASSUME UNCHANGED vars PROVE UNCHANGED Abs!vars
    <3>1. UNCHANGED <<tag, head, rel, enrolled, waiting>>
      BY <2>1 DEF vars, barVars, stateVars, localVars, histVars
    <3> QED BY <3>1, NothingMoved, StepUnseen
  <2>2. ASSUME NEW s \in Scheds,
               Kernel(s) \/ BarSync(s) \/ BarResign(s) \/ \E p \in Procs : Pick(s, p) \/ BarEnroll(s, p)
        PROVE  Abs!Next \/ UNCHANGED Abs!vars
    <3>1. CASE \/ BarSync(s) \/ BarHead(s) \/ BarSwap(s) \/ BarBit(s) \/ BarSet(s) \/ BarAdd(s)
               \/ AddCount(s) \/ Complete(s) \/ LocalClear(s) \/ (\E i \in Scheds : NextHead(s, i))
               \/ SetBit(s) \/ TakeHead(s) \/ EndComplete(s) \/ LookHeads(s) \/ FinishCas(s)
               \/ ResignHeads(s) \/ (\E p \in Procs : Pick(s, p))
      BY <3>1, UnseenSteps
    <3>2. CASE BarCas(s)
      BY <3>2, BarCasSyncs DEF Abs!Next
    <3>3. CASE AgainCas(s)
      BY <3>3, AgainCasCompletes DEF Abs!Next
    <3>4. CASE BarResign(s) \/ ResignCas(s) \/ ResignComplete(s)
      BY <3>4, ResignResigns DEF Abs!Next
    <3>5. CASE \E p \in Procs : BarEnroll(s, p)
      BY <3>5, BarEnrollEnrolls DEF Abs!Next
    <3>6. CASE \E p \in Procs : Release(s, p)
      BY <3>6, ReleaseReleases DEF Abs!Next
    <3> QED BY <2>2, <3>1, <3>2, <3>3, <3>4, <3>5, <3>6 DEF Kernel
  <2> QED BY <2>1, <2>2 DEF Next, Ended
<1> QED BY <1>1, <1>2, Invariance, PTL DEF Spec, ImplementsBarrier, Abs!Spec
=============================================================================
