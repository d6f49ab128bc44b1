--------------------------- MODULE CcspTimerProofs ---------------------------
(***************************************************************************)
(* The nodes of the timer queues of CcspTimer, and channels and ALTs with  *)
(* timer guards, for any schedulers, processes, channels, timers, nodes    *)
(* and range of the clock.                                                 *)
(*                                                                         *)
(* A node has two owners, the queue it was put into and the process that   *)
(* waits on it, and each gives it up for itself: the queue by clearing the *)
(* dirty bit, the process by setting the released bit.  What has to be     *)
(* known is where a node is, seen from its two bits: in one queue, once,   *)
(* or taken out by the walk of that queue's scheduler, while it is dirty;  *)
(* in TLink of one process or in the hands of the one scheduler that       *)
(* disables a guard of it, until it is released.                           *)
(***************************************************************************)
EXTENDS CcspTimer, CcspAltProofs, SequenceTheorems

-----------------------------------------------------------------------------
(***************************************************************************)
(* A queue without some of its nodes.                                      *)
(***************************************************************************)
(* A set of numbers that is not empty has a least element. *)
LEMMA LeastNumber ==
  ASSUME NEW T, T \subseteq Nat, T # {}
  PROVE  \E k \in T : \A i \in T : k <= i
<1>1. PICK k \in T : \A i \in T : ~(<<i, k>> \in {ss \in Nat \X Nat : ss[1] < ss[2]})
  <2>1. IsWellFoundedOn({ss \in Nat \X Nat : ss[1] < ss[2]}, Nat)
    BY NatLessThanWellFounded DEF OpToRel
  <2> QED BY <2>1, WFMin
<1>2. ASSUME NEW i \in T PROVE k <= i
  <2>1. i \in Nat /\ k \in Nat
    OBVIOUS
  <2>2. <<i, k>> \notin {ss \in Nat \X Nat : ss[1] < ss[2]}
    BY <1>1
  <2> QED BY <2>1, <2>2
<1> QED BY <1>2

(* The elements of a set of positions up to m, one by one. *)
Upto(K, m) == {j \in K : j <= m}

(* How many there are up to m, and up to m - 1. *)
LEMMA CountUpto ==
  ASSUME NEW L \in Nat, NEW K, K \subseteq 1..L
  PROVE  /\ Cardinality(K) \in Nat /\ Upto(K, L) = K
         /\ Cardinality(Upto(K, 0)) = 0
         /\ \A m \in 1..L : /\ Cardinality(Upto(K, m)) \in Nat
                            /\ Cardinality(Upto(K, m - 1)) \in Nat
                            /\ Cardinality(Upto(K, m)) =
                                 Cardinality(Upto(K, m - 1)) + (IF m \in K THEN 1 ELSE 0)
<1>1. IsFiniteSet(K)
  <2>1. IsFiniteSet(1..L)
    BY FS_Interval
  <2> QED BY <2>1, FS_Subset
<1>2. \A j \in K : j \in Int /\ j <= L /\ ~(j <= 0)
  OBVIOUS
<1>3. Upto(K, L) = K /\ Upto(K, 0) = {}
  BY <1>2 DEF Upto
<1>4. ASSUME NEW m \in 1..L
      PROVE  /\ Cardinality(Upto(K, m)) \in Nat
             /\ Cardinality(Upto(K, m - 1)) \in Nat
             /\ Cardinality(Upto(K, m)) =
                  Cardinality(Upto(K, m - 1)) + (IF m \in K THEN 1 ELSE 0)
  <2>1. IsFiniteSet(Upto(K, m)) /\ IsFiniteSet(Upto(K, m - 1))
    <3>1. Upto(K, m) \subseteq K /\ Upto(K, m - 1) \subseteq K
      BY DEF Upto
    <3> QED BY <1>1, <3>1, FS_Subset
  <2>2. Cardinality(Upto(K, m)) \in Nat /\ Cardinality(Upto(K, m - 1)) \in Nat
    BY <2>1, FS_CardinalityType
  <2>3. \A j \in K : j <= m <=> j <= m - 1 \/ j = m
    BY <1>2
  <2>4. CASE m \in K
    <3>1. m \notin Upto(K, m - 1)
      BY DEF Upto
    <3>2. Upto(K, m) = Upto(K, m - 1) \cup {m}
      BY <2>3, <2>4 DEF Upto
    <3> QED BY <2>1, <2>2, <2>4, <3>1, <3>2, FS_AddElement
  <2>5. CASE m \notin K
    <3>1. Upto(K, m) = Upto(K, m - 1)
      BY <2>3, <2>5 DEF Upto
    <3> QED BY <2>2, <2>5, <3>1
  <2> QED BY <2>2, <2>4, <2>5
<1> QED BY <1>1, <1>3, <1>4, FS_CardinalityType, FS_EmptySet

(* There is a k-th element for every k up to their number. *)
LEMMA Ranked ==
  ASSUME NEW L \in Nat, NEW K, K \subseteq 1..L, NEW k \in 1..Cardinality(K)
  PROVE  \E i \in K : Cardinality(Upto(K, i)) = k
<1> DEFINE T == {m \in 0..L : Cardinality(Upto(K, m)) >= k}
<1>1. /\ Cardinality(K) \in Nat /\ Upto(K, L) = K /\ Cardinality(Upto(K, 0)) = 0
      /\ \A m \in 1..L : /\ Cardinality(Upto(K, m)) \in Nat
                         /\ Cardinality(Upto(K, m - 1)) \in Nat
                         /\ Cardinality(Upto(K, m)) =
                              Cardinality(Upto(K, m - 1)) + (IF m \in K THEN 1 ELSE 0)
  BY CountUpto
<1>2. L \in T /\ T \subseteq Nat
  BY <1>1
<1>3. PICK m \in T : \A i \in T : m <= i
  <2> HIDE DEF T
  <2> QED BY <1>2, LeastNumber
<1>4. m \in 1..L
  BY <1>1, <1>3
<1>5. m - 1 \in 0..L /\ m - 1 \notin T
  BY <1>3, <1>4
<1>6. Cardinality(Upto(K, m - 1)) < k /\ Cardinality(Upto(K, m)) >= k
  BY <1>1, <1>3, <1>4, <1>5
<1>7. m \in K /\ Cardinality(Upto(K, m)) = k
  BY <1>1, <1>4, <1>6
<1> QED BY <1>7

(* What is kept: nodes of the queue, none that is to go, each as often. *)
Once(q, n) == \A i, j \in DOMAIN q : q[i] = n /\ q[j] = n => i = j
Has(q, n) == \E i \in DOMAIN q : q[i] = n

(* The queue without some nodes: what is kept, and that it is kept once. *)
LEMMA WithoutFacts ==
  ASSUME NEW q \in Seq(Nodes), NEW gone
  PROVE  /\ Without(q, gone) \in Seq(Nodes)
         /\ \A n : Has(Without(q, gone), n) => Has(q, n) /\ n \notin gone
         /\ \A n : Once(q, n) => Once(Without(q, gone), n)
<1> DEFINE K == {i \in DOMAIN q : q[i] \notin gone}
<1> DEFINE At_(k) == CHOOSE i \in K : Cardinality(Upto(K, i)) = k
<1>1. Without(q, gone) = [k \in 1..Cardinality(K) |-> q[At_(k)]]
  BY DEF Without, Upto
<1>2. Len(q) \in Nat /\ DOMAIN q = 1..Len(q) /\ K \subseteq 1..Len(q)
  OBVIOUS
<1>3. Cardinality(K) \in Nat
  BY <1>2, CountUpto
<1>4. \A k \in 1..Cardinality(K) : \E i \in K : Cardinality(Upto(K, i)) = k
  <2> HIDE DEF K
  <2> QED BY <1>2, Ranked
<1>5. \A k \in 1..Cardinality(K) : At_(k) \in K /\ Cardinality(Upto(K, At_(k))) = k
  <2> HIDE DEF K
  <2> QED BY <1>4
<1> HIDE DEF At_
<1>6. \A k \in 1..Cardinality(K) : At_(k) \in DOMAIN q /\ q[At_(k)] \notin gone
  BY <1>5
<1> HIDE DEF K
<1>7. DOMAIN Without(q, gone) = 1..Cardinality(K)
  BY <1>1
<1>8. \A k \in 1..Cardinality(K) : Without(q, gone)[k] = q[At_(k)]
  BY <1>1
<1>9. Without(q, gone) \in Seq(Nodes)
  <2>1. \A k \in 1..Cardinality(K) : q[At_(k)] \in Nodes
    BY <1>6
  <2> QED BY <1>1, <1>3, <2>1
<1>10. ASSUME NEW n, Has(Without(q, gone), n) PROVE Has(q, n) /\ n \notin gone
  BY <1>6, <1>7, <1>8, <1>10 DEF Has
<1>11. ASSUME NEW n, Once(q, n) PROVE Once(Without(q, gone), n)
  <2> SUFFICES ASSUME NEW k \in 1..Cardinality(K), NEW l \in 1..Cardinality(K),
                      Without(q, gone)[k] = n, Without(q, gone)[l] = n
               PROVE  k = l
    BY <1>7 DEF Once
  <2>1. At_(k) = At_(l)
    BY <1>6, <1>8, <1>11 DEF Once
  <2> QED BY <1>5, <2>1
<1> QED BY <1>9, <1>10, <1>11

-----------------------------------------------------------------------------
(***************************************************************************)
(* Where a node is.                                                        *)
(***************************************************************************)
WalkLabels == {"walk_swap", "walk_trigger", "walk_enqueue", "walk_clean"}
NodeLabels == {"taltwt_cas", "taltwt_clear"} \cup WalkLabels \cup DistLabels

Walks(s, n) == tn[s] = n /\ pc[s] \in WalkLabels
Disables(s, n) == tn[s] = n /\ pc[s] \in DistLabels
OfTin(n) == Live(n) /\ ~node[n].wptr.alt

(* A process is run by one scheduler. *)
OneRunner == \A s, t \in Scheds : cur[s] = cur[t] /\ cur[s] \in Procs => s = t

(* The words of the scheduler. *)
SchedWords ==
  /\ DOMAIN pc = Scheds /\ DOMAIN cur = Scheds /\ DOMAIN iptr = Procs /\ DOMAIN tq = Scheds
  /\ queued \in [Procs -> Nat]

(* A scheduler has a node in its hands at some labels. *)
HandAt(s) == tn[s] # NoNode <=> pc[s] \in WalkLabels \cup DistLabels

Typed == TimerTypeOK /\ SchedWords /\ \A s \in Scheds : HandAt(s)

(* A node in a queue is there once, it is a node of that scheduler, and it *)
(* is dirty or of a TIN.                                                   *)
QueueAt(n) ==
  /\ \A s \in Scheds : Once(tq[s], n)
  /\ \A s \in Scheds : Has(tq[s], n) =>
       node[n].sched = s /\ (node[n].dirty \/ (OfTin(n) /\ ~node[n].released))

(* A node the walk has taken out is dirty until the walk is done with it. *)
WalkAt(n) ==
  \A s \in Scheds : Walks(s, n) => node[n].dirty /\ node[n].sched = s /\ ~Has(tq[s], n)

(* A node an ALT has is not released and is in one place of the ALT. *)
HeldAt(n) ==
  /\ \A p \in Procs : tlink[p] = n =>
       /\ ~node[n].released /\ ~OfTin(n)
       /\ \A q \in Procs : tlink[q] = n => q = p
       /\ \A s \in Scheds : ~Disables(s, n)
  /\ \A s \in Scheds : Disables(s, n) =>
       /\ ~node[n].released /\ ~OfTin(n)
       /\ \A t \in Scheds : Disables(t, n) => t = s

(* TALTWT has put its node into the queue of its own scheduler. *)
CasAt(s) ==
  pc[s] = "taltwt_cas" =>
    /\ cur[s] \in Procs /\ iptr[cur[s]] = "altwt"
    /\ tlink[cur[s]] \in Nodes /\ node[tlink[cur[s]]].sched = s

NodeAt(n) == QueueAt(n) /\ WalkAt(n) /\ HeldAt(n)
NodeInv ==
  /\ Typed
  /\ \A n \in Nodes : NodeAt(n)
  /\ \A s \in Scheds : CasAt(s)

-----------------------------------------------------------------------------
(***************************************************************************)
(* The steps of CcspAlt.                                                   *)
(***************************************************************************)
Local(s) ==
  /\ \A t \in Scheds : t # s => pc'[t] = pc[t] /\ cur'[t] = cur[t]
  /\ pc[s] \notin NodeLabels /\ pc'[s] \notin NodeLabels
  /\ \A q \in Procs : q # cur[s] => iptr'[q] = iptr[q]
  /\ DOMAIN pc' = Scheds /\ DOMAIN cur' = Scheds /\ DOMAIN iptr' = Procs
  /\ queued' \in [Procs -> Nat]

(* One more queue entry. *)
LEMMA Enqueued ==
  ASSUME SchedWords, NEW p
  PROVE  [queued EXCEPT ![p] = @ + 1] \in [Procs -> Nat]
<1>1. queued \in [Procs -> Nat]
  BY DEF SchedWords
<1>2. \A q \in Procs : queued[q] \in Nat /\ queued[q] + 1 \in Nat
  BY <1>1
<1> QED BY <1>1, <1>2

(* A step of CcspAlt is about one scheduler and the process it runs, and   *)
(* knows nothing of the labels at which a scheduler has a node.            *)
LEMMA StepLocal ==
  ASSUME NEW s \in Scheds, SchedWords, Step(s)
  PROVE  Local(s)
<1> USE DEF SchedWords, Local, NodeLabels, WalkLabels, DistLabels, At, InKernel, Goto, KernelScheduler,
            SetIptr, Forget, schedVars, procVars, altVars, localVars, histVars
<1>1. CASE TriggerAltGuard(s)
  BY <1>1 DEF TriggerAltGuard
<1>2. CASE TriggerEnqueue(s)
  <2>1. queued' \in [Procs -> Nat]
    BY <1>2, Enqueued DEF TriggerEnqueue, EnqueueProcess
  <2> QED BY <1>2, <2>1 DEF TriggerEnqueue
<1>3. CASE \E p \in Procs, c \in Chans : Output(s, p, c)
  BY <1>3 DEF Output, ChanIo, WithPartner, ForgetAlt, SetState
<1>4. CASE \E p \in Procs, c \in Chans : Input(s, p, c)
  <2>1. PICK p \in Procs, c \in Chans : Input(s, p, c)
    BY <1>4
  <2>2. cur[s] = p /\ pc[s] = "user" /\ ChanIo(s, p, c, "in", "main")
    BY <2>1 DEF Input
  <2> QED BY <2>2 DEF ChanIo, WithPartner, ForgetAlt, SetState
<1>5. CASE \E p \in Procs, c \in Chans : Xable(s, p, c)
  <2>1. PICK p \in Procs, c \in Chans : Xable(s, p, c)
    BY <1>5
  <2>2. /\ cur[s] = p /\ pc[s] = "user" /\ iptr' = [iptr EXCEPT ![p] = "xin"]
        /\ UNCHANGED queued /\ (Goto(s, "xable_swap") \/ UNCHANGED <<pc, cur>>)
    BY <2>1 DEF Xable
  <2> QED BY <2>2
<1>6. CASE \E p \in Procs : \E a \in Alts[p] : Alt(s, p, a)
  BY <1>6 DEF Alt, StartAlt
<1>7. CASE \E p \in Procs : IoSwap(s, p)
  BY <1>7 DEF IoSwap, SleepInChannel, WithPartner
<1>8. CASE \E p \in Procs : IoClear(s, p)
  BY <1>8 DEF IoClear
<1>9. CASE \E p \in Procs : IoCopy(s, p)
  <2>1. PICK p \in Procs : IoCopy(s, p)
    BY <1>9
  <2>2. CASE EnqueueProcess(word[s].p)
    BY <2>1, <2>2, Enqueued DEF IoCopy, EnqueueProcess
  <2>3. CASE queued' = [queued EXCEPT ![word[s].p] = @ + 1, ![p] = @ + 1]
    <3>1. queued' \in [Procs -> Nat]
      <4>1. queued \in [Procs -> Nat]
        OBVIOUS
      <4>2. \A q \in Procs : queued[q] \in Nat /\ queued[q] + 1 \in Nat /\ queued[q] + 1 + 1 \in Nat
        BY <4>1
      <4> QED BY <2>3, <4>1, <4>2
    <3> QED BY <2>1, <3>1 DEF IoCopy, EnqueueProcess
  <2> QED BY <2>1, <2>2, <2>3 DEF IoCopy
<1>10. CASE \E p \in Procs : XableSwap(s, p)
  BY <1>10 DEF XableSwap, SleepInChannel
<1>11. CASE \E p \in Procs : XableRestore(s, p)
  BY <1>11 DEF XableRestore
<1>12. CASE \E p \in Procs : Xin(s, p)
  BY <1>12 DEF Xin, ChanIo, WithPartner, ForgetAlt, SetState
<1>13. CASE \E p \in Procs : XinCopy(s, p)
  BY <1>13 DEF XinCopy
<1>14. CASE \E p \in Procs : Xend(s, p)
  BY <1>14 DEF Xend
<1>15. CASE \E p \in Procs : XendEnqueue(s, p)
  BY <1>15, Enqueued DEF XendEnqueue, EnqueueProcess
<1>16. CASE \E p \in Procs : Enbc(s, p)
  BY <1>16 DEF Enbc, NextGuard
<1>17. CASE \E p \in Procs : EnbcSwap(s, p)
  BY <1>17 DEF EnbcSwap
<1>18. CASE \E p \in Procs : EnbcRestore(s, p)
  BY <1>18 DEF EnbcRestore
<1>19. CASE \E p \in Procs : EnbcInc(s, p)
  BY <1>19 DEF EnbcInc, NextGuard
<1>20. CASE \E p \in Procs : Enbs(s, p)
  BY <1>20 DEF Enbs
<1>21. CASE \E p \in Procs : EnbReady(s, p)
  BY <1>21 DEF EnbReady, GuardReady, NextGuard, StartDisabling
<1>22. CASE \E p \in Procs : EnbAnd(s, p)
  BY <1>22 DEF EnbAnd, GuardReady, NextGuard, StartDisabling
<1>23. CASE \E p \in Procs : AltWt(s, p)
  BY <1>23 DEF AltWt
<1>24. CASE \E p \in Procs : AltWtCas(s, p)
  BY <1>24 DEF AltWtCas, StartDisabling
<1>25. CASE \E p \in Procs : AltWtClear(s, p)
  BY <1>25 DEF AltWtClear, StartDisabling
<1>26. CASE \E p \in Procs : Disc(s, p)
  BY <1>26 DEF Disc, NextGuard
<1>27. CASE \E p \in Procs : DiscCas(s, p)
  BY <1>27 DEF DiscCas, NextGuard
<1>28. CASE \E p \in Procs : DiscDec(s, p)
  BY <1>28 DEF DiscDec, NextGuard
<1>29. CASE \E p \in Procs : Diss(s, p)
  BY <1>29 DEF Diss, NextGuard
<1>30. CASE \E p \in Procs : AltEnd(s, p)
  BY <1>30 DEF AltEnd
<1>31. CASE \E p \in Procs : AltEndDec(s, p)
  BY <1>31 DEF AltEndDec
<1>32. CASE \E p \in Procs : SkipBody(s, p)
  BY <1>32 DEF SkipBody, ForgetAlt
<1> QED BY <1>1, <1>2, <1>3, <1>4, <1>5, <1>6, <1>7, <1>8, <1>9, <1>10, <1>11, <1>12, <1>13, <1>14,
       <1>15, <1>16, <1>17, <1>18, <1>19, <1>20, <1>21, <1>22, <1>23, <1>24, <1>25, <1>26, <1>27, <1>28,
       <1>29, <1>30, <1>31, <1>32 DEF Step

-----------------------------------------------------------------------------
(***************************************************************************)
(* Types.                                                                  *)
(***************************************************************************)
(* Remainders. *)
LEMMA Remainder == ASSUME NEW k \in Int, NEW w \in Int, w > 0 PROVE k % w \in 0..(w - 1)
OBVIOUS

(* Times stay in the range of the clock. *)
LEMMA TimeFacts ==
  /\ 0 \in Time /\ NoTime \notin Time
  /\ \A t, d \in Int : Plus(t, d) \in Time
  /\ \A t \in Time : t \in Int
  /\ \A t \in Timers : Delay[t] \in Int
  /\ \A d \in TinDelays : d \in Int
  /\ NotSet \notin Nodes /\ Set \notin Nodes /\ NoNode \notin Nodes
<1>1. Wrap \in Int /\ Wrap > 0
  BY TimerAssumption
<1>2. 0 \in Time /\ NoTime \notin Time /\ \A t \in Time : t \in Int
  BY <1>1 DEF Time, NoTime
<1>3. ASSUME NEW t \in Int, NEW d \in Int PROVE Plus(t, d) \in Time
  <2>1. PICK k \in Int : k = t + d
    OBVIOUS
  <2>2. PICK w \in Int : w = Wrap
    BY <1>1
  <2>3. k % w \in 0..(w - 1)
    BY <1>1, <2>2, Remainder
  <2>4. Plus(t, d) = k % w
    BY <2>1, <2>2 DEF Plus
  <2> QED BY <2>2, <2>3, <2>4 DEF Time
<1>4. \A t \in Timers : Delay[t] \in Int
  BY TimerAssumption
<1>5. \A d \in TinDelays : d \in Int
  BY TimerAssumption
<1>6. NotSet \notin Nodes /\ Set \notin Nodes /\ NoNode \notin Nodes
  BY TimerAssumption DEF NotSet, Set, NoNode
<1> QED BY <1>2, <1>3, <1>4, <1>5, <1>6

(* The contents of nodes. *)
LEMMA FreeFacts == FreeNode \in TqNode /\ FreeNode.released /\ ~FreeNode.dirty
BY TimeFacts DEF FreeNode, TqNode, Empty, ChanWord

(* setup_tqnode: alive, not released, and dirty if it is for an ALT. *)
LEMMA SetupFacts ==
  ASSUME NEW s \in Scheds, NEW p \in Procs, NEW t \in Time, NEW alt \in BOOLEAN
  PROVE  /\ SetupTqnode(s, p, t, alt) \in TqNode
         /\ SetupTqnode(s, p, t, alt).sched = s
         /\ SetupTqnode(s, p, t, alt).dirty = alt
         /\ ~SetupTqnode(s, p, t, alt).released
         /\ SetupTqnode(s, p, t, alt).wptr # Empty
         /\ SetupTqnode(s, p, t, alt).wptr.alt = alt
BY NotProcessAssumption DEF SetupTqnode, TqNode, ChanWord, Empty

(* A released node is wiped only if the queue is done with it. *)
LEMMA ReleaseFacts ==
  ASSUME NEW nd \in TqNode
  PROVE  /\ Release(nd) \in TqNode /\ Release(nd).released /\ Release(nd).dirty = nd.dirty
         /\ nd.dirty => Release(nd).wptr = nd.wptr /\ Release(nd).sched = nd.sched
<1>1. PICK r \in TqNode : r = [nd EXCEPT !.released = TRUE]
  BY DEF TqNode
<1>2. r.released /\ r.dirty = nd.dirty /\ r.wptr = nd.wptr /\ r.sched = nd.sched
  BY <1>1 DEF TqNode
<1>3. Release(nd) = IF r.released /\ ~r.dirty THEN FreeNode ELSE r
  BY <1>1 DEF Release, Tidy
<1>4. r.dirty \in BOOLEAN /\ FreeNode.dirty = FALSE
  BY DEF TqNode, FreeNode
<1> QED BY <1>2, <1>3, <1>4, FreeFacts

(* A cleaned node is wiped only if the ALT is done with it. *)
LEMMA CleanFacts ==
  ASSUME NEW nd \in TqNode
  PROVE  /\ Clean(nd) \in TqNode /\ ~Clean(nd).dirty /\ Clean(nd).released = nd.released
         /\ ~nd.released => Clean(nd).wptr = nd.wptr /\ Clean(nd).sched = nd.sched
<1>1. PICK r \in TqNode : r = [nd EXCEPT !.dirty = FALSE]
  BY DEF TqNode
<1>2. ~r.dirty /\ r.released = nd.released /\ r.wptr = nd.wptr /\ r.sched = nd.sched
  BY <1>1 DEF TqNode
<1>3. Clean(nd) = IF r.released /\ ~r.dirty THEN FreeNode ELSE r
  BY <1>1 DEF Clean, Tidy
<1>4. nd.released \in BOOLEAN
  BY DEF TqNode
<1> QED BY <1>2, <1>3, <1>4, FreeFacts

(* The swap of NotProcess_p into a node changes nothing else. *)
LEMMA DeadFacts ==
  ASSUME NEW nd \in TqNode
  PROVE  /\ [nd EXCEPT !.wptr = Empty] \in TqNode
         /\ [nd EXCEPT !.wptr = Empty].wptr = Empty
         /\ [nd EXCEPT !.wptr = Empty].dirty = nd.dirty
         /\ [nd EXCEPT !.wptr = Empty].released = nd.released
         /\ [nd EXCEPT !.wptr = Empty].sched = nd.sched
<1>1. Empty \in ChanWord
  BY DEF Empty, ChanWord
<1> QED BY <1>1 DEF TqNode

(* Nor does the stamp of the walk. *)
LEMMA StampFacts ==
  ASSUME NEW nd \in TqNode, NEW t \in Time
  PROVE  /\ [nd EXCEPT !.time = t] \in TqNode
         /\ [nd EXCEPT !.time = t].wptr = nd.wptr
         /\ [nd EXCEPT !.time = t].dirty = nd.dirty
         /\ [nd EXCEPT !.time = t].released = nd.released
         /\ [nd EXCEPT !.time = t].sched = nd.sched
BY DEF TqNode

-----------------------------------------------------------------------------
(***************************************************************************)
(* Queues.                                                                 *)
(***************************************************************************)
(* add_to_timer_queue finds a place, whatever the order of the queue is. *)
LEMMA PlaceFacts ==
  ASSUME NEW q \in Seq(Nodes), NEW t
  PROVE  Place(q, t) \in 0..Len(q)
<1> DEFINE later(i) == After(node[q[i]].time, t)
<1> DEFINE found(k) == later(k + 1) \/ ~later(Len(q) - k)
<1> DEFINE T == {k \in 0..(Len(q) - 1) : found(k)}
<1> DEFINE k0 == CHOOSE k \in 0..(Len(q) - 1) : found(k) /\ \A j \in 0..(k - 1) : ~found(j)
<1>1. Place(q, t) = IF q = << >> THEN 0 ELSE IF later(k0 + 1) THEN k0 ELSE Len(q) - k0
  BY DEF Place
<1>2. Len(q) \in Nat
  OBVIOUS
<1> HIDE DEF later
<1>3. CASE q # << >>
  <2>1. Len(q) >= 1
    BY <1>3
  <2>2. 0 \in 0..(Len(q) - 1) /\ Len(q) - 1 \in 0..(Len(q) - 1)
    BY <1>2, <2>1
  <2>3. found(0) \/ found(Len(q) - 1)
    <3>1. Len(q) - 1 + 1 = Len(q) /\ Len(q) - 0 = Len(q) /\ 0 + 1 = 1
      BY <1>2
    <3> QED BY <3>1
  <2>4. T # {} /\ T \subseteq Nat
    <3> HIDE DEF found
    <3> QED BY <2>2, <2>3
  <2>5. PICK m \in T : \A i \in T : m <= i
    <3> HIDE DEF T
    <3> QED BY <2>4, LeastNumber
  <2>6. m \in 0..(Len(q) - 1) /\ found(m) /\ \A j \in 0..(m - 1) : ~found(j)
    <3> HIDE DEF found
    <3>1. \A j \in 0..(m - 1) : j \in 0..(Len(q) - 1) /\ ~(m <= j)
      BY <1>2
    <3> QED BY <2>5, <3>1
  <2>7. k0 \in 0..(Len(q) - 1)
    <3> HIDE DEF found
    <3> QED BY <2>6
  <2> HIDE DEF k0
  <2> QED BY <1>1, <1>2, <1>3, <2>7
<1> QED BY <1>1, <1>2, <1>3

(* A queue with one more node. *)
Inserted(q, n, i) == SubSeq(q, 1, i) \o <<n>> \o SubSeq(q, i + 1, Len(q))

(* insert_tqnode keeps every node that was there, and the new one is there *)
(* once.                                                                   *)
LEMMA InsertFacts ==
  ASSUME NEW q \in Seq(Nodes), NEW n \in Nodes, NEW i \in 0..Len(q)
  PROVE  /\ Inserted(q, n, i) \in Seq(Nodes)
         /\ \A m : Has(Inserted(q, n, i), m) => Has(q, m) \/ m = n
         /\ \A m : m # n /\ Once(q, m) => Once(Inserted(q, n, i), m)
         /\ ~Has(q, n) => Once(Inserted(q, n, i), n)
<1>1. PICK r : r = Inserted(q, n, i)
  OBVIOUS
<1>2. r = SubSeq(q, 1, i) \o <<n>> \o SubSeq(q, i + 1, Len(q))
  BY <1>1 DEF Inserted
<1>3. Len(q) \in Nat /\ i \in Nat
  OBVIOUS
<1>4. /\ SubSeq(q, 1, i) \in Seq(Nodes) /\ Len(SubSeq(q, 1, i)) = i
      /\ \A k \in 1..i : SubSeq(q, 1, i)[k] = q[k]
  BY <1>3
<1>5. /\ SubSeq(q, i + 1, Len(q)) \in Seq(Nodes) /\ Len(SubSeq(q, i + 1, Len(q))) = Len(q) - i
      /\ \A k \in 1..(Len(q) - i) : SubSeq(q, i + 1, Len(q))[k] = q[i + k]
  BY <1>3
<1>6. \E a, b \in Seq(Nodes) : a = SubSeq(q, 1, i) /\ b = SubSeq(q, i + 1, Len(q))
  <2> DEFINE x == SubSeq(q, 1, i)
  <2> DEFINE y == SubSeq(q, i + 1, Len(q))
  <2>1. x \in Seq(Nodes) /\ y \in Seq(Nodes)
    BY <1>4, <1>5
  <2> HIDE DEF x, y
  <2>2. \E a, b \in Seq(Nodes) : a = x /\ b = y
    BY <2>1
  <2> QED BY <2>2 DEF x, y
<1>7. PICK a \in Seq(Nodes), b \in Seq(Nodes) :
        a = SubSeq(q, 1, i) /\ b = SubSeq(q, i + 1, Len(q))
  BY <1>6
<1>8. Len(a) = i /\ Len(b) = Len(q) - i /\ r = (a \o <<n>>) \o b
  <2>1. Len(a) = i /\ Len(b) = Len(q) - i
    BY <1>4, <1>5, <1>7
  <2>2. r = (a \o <<n>>) \o b
    BY <1>7, <1>2, Zenon
  <2> QED BY <2>1, <2>2
<1>9. PICK e \in Seq(Nodes) : e = <<n>> /\ Len(e) = 1 /\ e[1] = n
  <2>1. <<n>> \in Seq(Nodes) /\ Len(<<n>>) = 1 /\ <<n>>[1] = n
    OBVIOUS
  <2> QED BY <2>1, Zenon
<1>10. /\ a \o e \in Seq(Nodes) /\ Len(a \o e) = Len(a) + Len(e)
       /\ \A k \in 1..(Len(a) + Len(e)) :
            (a \o e)[k] = IF k <= Len(a) THEN a[k] ELSE e[k - Len(a)]
  BY ConcatProperties, Zenon
<1>11. PICK d \in Seq(Nodes) : d = a \o e
  BY <1>10, Zenon
<1>12. r = d \o b
  BY <1>8, <1>11, <1>9, Zenon
<1>13. Len(d) = i + 1 /\ \A k \in 1..(i + 1) : d[k] = IF k <= i THEN a[k] ELSE e[k - i]
  BY <1>3, <1>8, <1>11, <1>9, <1>10
<1>14. Len(d) = i + 1 /\ d[i + 1] = n /\ \A k \in 1..i : d[k] = a[k]
  <2>1. i + 1 \in 1..(i + 1) /\ ~(i + 1 <= i) /\ i + 1 - i = 1
    BY <1>3
  <2>2. \A k \in 1..i : k \in 1..(i + 1) /\ k <= i
    BY <1>3
  <2> QED BY <1>9, <1>13, <2>1, <2>2
<1>15. /\ r \in Seq(Nodes) /\ Len(r) = Len(q) + 1 /\ Len(d) + Len(b) = Len(q) + 1
      /\ \A k \in 1..(Len(q) + 1) : r[k] = IF k <= i + 1 THEN d[k] ELSE b[k - (i + 1)]
  <2>1. /\ d \o b \in Seq(Nodes) /\ Len(d \o b) = Len(d) + Len(b)
        /\ \A k \in 1..(Len(d) + Len(b)) :
             (d \o b)[k] = IF k <= Len(d) THEN d[k] ELSE b[k - Len(d)]
    BY ConcatProperties, Zenon
  <2>2. Len(d) + Len(b) = Len(q) + 1
    BY <1>3, <1>8, <1>14
  <2>3. /\ r \in Seq(Nodes) /\ Len(r) = Len(d) + Len(b)
        /\ \A k \in 1..(Len(d) + Len(b)) : r[k] = IF k <= Len(d) THEN d[k] ELSE b[k - Len(d)]
    BY <1>12, <2>1, Zenon
  <2> QED BY <1>14, <2>2, <2>3
<1>16. DOMAIN r = 1..(Len(q) + 1) /\ DOMAIN q = 1..Len(q) /\ i + 1 \in DOMAIN r /\ r[i + 1] = n
  BY <1>3, <1>14, <1>15
<1> DEFINE Old(k) == IF k <= i THEN k ELSE k - 1
<1>17. ASSUME NEW k \in DOMAIN r, k # i + 1 PROVE Old(k) \in DOMAIN q /\ r[k] = q[Old(k)]
  <2>1. k \in 1..(Len(q) + 1)
    BY <1>16
  <2>2. CASE k <= i
    <3>1. k \in 1..i
      BY <2>1, <2>2
    <3>2. r[k] = d[k] /\ d[k] = a[k] /\ a[k] = q[k] /\ k \in 1..Len(q)
      BY <1>3, <1>4, <1>14, <1>15, <1>7, <2>1, <3>1
    <3> QED BY <1>16, <2>2, <3>2
  <2>3. CASE ~(k <= i)
    <3>1. k - (i + 1) \in 1..(Len(q) - i) /\ k - 1 \in 1..Len(q) /\ ~(k <= i + 1)
      BY <1>3, <1>17, <2>1, <2>3
    <3>2. i + (k - (i + 1)) = k - 1
      BY <1>3, <2>1
    <3>3. r[k] = b[k - (i + 1)] /\ b[k - (i + 1)] = q[i + (k - (i + 1))]
      BY <1>5, <1>15, <1>7, <2>1, <3>1
    <3> QED BY <1>16, <2>3, <3>1, <3>2, <3>3
  <2> QED BY <2>2, <2>3
<1>18. ASSUME NEW k \in DOMAIN r, NEW l \in DOMAIN r, k # i + 1, l # i + 1, Old(k) = Old(l)
       PROVE  k = l
  <2>1. k \in Int /\ l \in Int
    BY <1>3, <1>16
  <2> QED BY <1>3, <1>18, <2>1
<1> HIDE DEF Old
<1>19. ASSUME NEW m, Has(r, m) PROVE Has(q, m) \/ m = n
  BY <1>16, <1>17, <1>19 DEF Has
<1>20. ASSUME NEW m, m # n, Once(q, m) PROVE Once(r, m)
  <2> SUFFICES ASSUME NEW k \in DOMAIN r, NEW l \in DOMAIN r, r[k] = m, r[l] = m PROVE k = l
    BY DEF Once
  <2>1. k # i + 1 /\ l # i + 1
    BY <1>16, <1>20
  <2>2. Old(k) = Old(l)
    BY <1>17, <1>20, <2>1 DEF Once
  <2> QED BY <1>18, <2>1, <2>2
<1>21. ASSUME ~Has(q, n) PROVE Once(r, n)
  <2>1. \A k \in DOMAIN r : r[k] = n => k = i + 1
    BY <1>17, <1>21 DEF Has
  <2> QED BY <2>1 DEF Once
<1> QED BY <1>15, <1>19, <1>20, <1>21, <1>1

(* A queue without its first node. *)
LEMMA QueueTail ==
  ASSUME NEW q \in Seq(Nodes), q # << >>
  PROVE  /\ Tail(q) \in Seq(Nodes) /\ Head(q) \in Nodes /\ Has(q, Head(q))
         /\ \A m : Has(Tail(q), m) => Has(q, m)
         /\ \A m : Once(q, m) => Once(Tail(q), m)
         /\ Once(q, Head(q)) => ~Has(Tail(q), Head(q))
<1>1. Len(q) \in Nat /\ Len(q) >= 1 /\ Head(q) = q[1] /\ DOMAIN q = 1..Len(q)
  OBVIOUS
<1>2. /\ Tail(q) \in Seq(Nodes) /\ DOMAIN Tail(q) = 1..(Len(q) - 1)
      /\ \A k \in 1..(Len(q) - 1) : Tail(q)[k] = q[k + 1]
  OBVIOUS
<1>3. \A k \in DOMAIN Tail(q) : k + 1 \in DOMAIN q /\ k + 1 # 1 /\ Tail(q)[k] = q[k + 1]
  BY <1>1, <1>2
<1>4. 1 \in DOMAIN q /\ Head(q) \in Nodes
  BY <1>1
<1>5. \A k, l \in DOMAIN Tail(q) : k + 1 = l + 1 => k = l
  BY <1>1, <1>2
<1>6. \A m : Has(Tail(q), m) => Has(q, m)
  BY <1>3 DEF Has
<1>7. \A m : Once(q, m) => Once(Tail(q), m)
  BY <1>3, <1>5 DEF Once
<1>8. Once(q, Head(q)) => ~Has(Tail(q), Head(q))
  BY <1>1, <1>3, <1>4 DEF Once, Has
<1>9. Has(q, Head(q))
  BY <1>1, <1>4 DEF Has
<1> QED BY <1>2, <1>4, <1>6, <1>7, <1>8, <1>9

-----------------------------------------------------------------------------
(***************************************************************************)
(* Every variable keeps its type.                                          *)
(***************************************************************************)
(* A node is written. *)
LEMMA NodeSet ==
  ASSUME TimerTypeOK, NEW n, NEW nd, n \in Nodes => nd \in TqNode, SetNode(n, nd)
  PROVE  /\ node' \in [Nodes -> TqNode]
         /\ \A m \in Nodes : m # n => node'[m] = node[m]
         /\ n \in Nodes => node'[n] = nd
<1>1. node \in [Nodes -> TqNode] /\ node' = [node EXCEPT ![n] = nd]
  BY DEF TimerTypeOK, SetNode
<1>2. CASE n \in Nodes
  BY <1>1, <1>2
<1>3. CASE n \notin Nodes
  BY <1>1, <1>3
<1> QED BY <1>2, <1>3

(* A queue is written. *)
LEMMA QueueSet ==
  ASSUME TimerTypeOK, SchedWords, NEW s \in Scheds, NEW q \in Seq(Nodes), SetQueue(s, q)
  PROVE  /\ DOMAIN tq' = Scheds /\ \A t \in Scheds : tq'[t] \in Seq(Nodes)
         /\ tq'[s] = q /\ \A t \in Scheds : t # s => tq'[t] = tq[t]
<1>1. DOMAIN tq = Scheds /\ tq' = [tq EXCEPT ![s] = q] /\ \A t \in Scheds : tq[t] \in Seq(Nodes)
  BY DEF TimerTypeOK, SchedWords, SetQueue
<1> QED BY <1>1

(* The types of the words that are neither queues nor nodes. *)
WordTypes ==
  /\ clock \in Time
  /\ base \in [Procs -> Time] /\ timeF \in [Procs -> Time]
  /\ tlink \in [Procs -> Nodes \cup {NotSet, Set}]
  /\ sync \in [Scheds -> BOOLEAN]
  /\ now \in [Scheds -> Time]
  /\ tn \in [Scheds -> Nodes \cup {NoNode}]
  /\ wait \in [Procs -> Time \cup {NoTime}]
StoreTypes == DOMAIN tq = Scheds /\ (\A s \in Scheds : tq[s] \in Seq(Nodes)) /\ node \in [Nodes -> TqNode]
ControlTypes ==
  /\ DOMAIN pc = Scheds /\ DOMAIN cur = Scheds /\ DOMAIN iptr = Procs /\ queued \in [Procs -> Nat]
  /\ \A s \in Scheds : HandAt(s)

(* The types, in three parts. *)
LEMMA TypedIs == Typed <=> WordTypes /\ StoreTypes /\ ControlTypes
BY DEF Typed, TimerTypeOK, SchedWords, WordTypes, StoreTypes, ControlTypes

(* The same after the step. *)
LEMMA TypedNext == Typed' <=> WordTypes' /\ StoreTypes' /\ ControlTypes'
BY DEF Typed, TimerTypeOK, SchedWords, WordTypes, StoreTypes, ControlTypes

(* Queues and nodes that stay as they are. *)
LEMMA SameStore == ASSUME StoreTypes, UNCHANGED <<tq, node>> PROVE StoreTypes'
BY DEF StoreTypes

(* One node, and the queue of one scheduler, are written. *)
LEMMA WrittenStore ==
  ASSUME Typed, NEW s \in Scheds, NEW n, NEW nd, n \in Nodes => nd \in TqNode, SetNode(n, nd),
         UNCHANGED tq \/ \E q \in Seq(Nodes) : SetQueue(s, q)
  PROVE  StoreTypes'
<1>1. TimerTypeOK /\ SchedWords
  BY DEF Typed
<1>2. node' \in [Nodes -> TqNode]
  BY <1>1, NodeSet
<1>3. CASE UNCHANGED tq
  BY <1>1, <1>2, <1>3 DEF StoreTypes, TimerTypeOK, SchedWords
<1>4. CASE \E q \in Seq(Nodes) : SetQueue(s, q)
  <2>1. PICK q \in Seq(Nodes) : SetQueue(s, q)
    BY <1>4
  <2>2. DOMAIN tq' = Scheds /\ \A t \in Scheds : tq'[t] \in Seq(Nodes)
    BY <1>1, <2>1, QueueSet
  <2> QED BY <1>2, <2>2 DEF StoreTypes
<1> QED BY <1>3, <1>4

(* Control of one scheduler moves. *)
LEMMA MovedControl ==
  ASSUME ControlTypes, NEW s \in Scheds,
         DOMAIN pc' = Scheds, DOMAIN cur' = Scheds, DOMAIN iptr' = Procs, queued' \in [Procs -> Nat],
         \A t \in Scheds : t # s => pc'[t] = pc[t] /\ tn'[t] = tn[t],
         HandAt(s)'
  PROVE  ControlTypes'
<1>1. ASSUME NEW t \in Scheds, t # s PROVE HandAt(t)'
  BY <1>1 DEF ControlTypes, HandAt
<1> QED BY <1>1 DEF ControlTypes

(* The types of the steps of CcspAlt, with what they do to the words of    *)
(* the timers.                                                             *)
LEMMA AltStepTypes == ASSUME NEW s \in Scheds, Typed, AltStep(s) PROVE Typed'
<1>1. WordTypes /\ StoreTypes /\ ControlTypes
  BY TypedIs
<1>2. Local(s)
  BY StepLocal DEF Typed, AltStep
<1>3. StoreTypes'
  BY <1>1, SameStore DEF AltStep
<1>4. ControlTypes'
  <2>1. HandAt(s)'
    BY <1>1, <1>2 DEF ControlTypes, HandAt, Local, NodeLabels, AltStep
  <2>2. \A t \in Scheds : t # s => pc'[t] = pc[t] /\ tn'[t] = tn[t]
    BY <1>2 DEF Local, AltStep
  <2>3. DOMAIN pc' = Scheds /\ DOMAIN cur' = Scheds /\ DOMAIN iptr' = Procs /\ queued' \in [Procs -> Nat]
    BY <1>2 DEF Local
  <2> QED BY <1>1, <2>1, <2>2, <2>3, MovedControl
<1>5. WordTypes'
  <2>1. 0 \in Time
    BY TimeFacts
  <2>2. base' \in [Procs -> Time]
    BY <1>1, <2>1 DEF AltStep, Kept, WordTypes
  <2>3. timeF' \in [Procs -> Time]
    BY <1>1, <2>1 DEF AltStep, Kept, WordTypes
  <2>4. tlink' \in [Procs -> Nodes \cup {NotSet, Set}]
    BY <1>1 DEF AltStep, WordTypes
  <2> QED BY <1>1, <2>2, <2>3, <2>4 DEF AltStep, WordTypes
<1> QED BY <1>3, <1>4, <1>5, TypedNext

(* The types of every other step.  First those that touch neither queue    *)
(* nor node.                                                               *)
LEMMA LdtimerTypes == ASSUME NEW s \in Scheds, NEW p \in Procs, Typed, Ldtimer(s, p) PROVE Typed'
<1>1. WordTypes /\ StoreTypes /\ ControlTypes
  BY TypedIs
<1> USE DEF At, InKernel, Goto, KernelScheduler, SetIptr, EnqueueProcess, Forget, schedVars, procVars,
            altVars, localVars, histVars, timerVars, altAll, vars
<1>2. StoreTypes'
  BY <1>1, SameStore DEF Ldtimer
<1>3. ControlTypes'
  <2>1. HandAt(s)'
    BY <1>1 DEF Ldtimer, ControlTypes, HandAt, WalkLabels, DistLabels
  <2>2. queued' \in [Procs -> Nat]
    BY <1>1 DEF Ldtimer, ControlTypes
  <2>3. DOMAIN pc' = Scheds /\ DOMAIN cur' = Scheds /\ DOMAIN iptr' = Procs
    BY <1>1 DEF Ldtimer, ControlTypes
  <2>4. \A t \in Scheds : t # s => pc'[t] = pc[t] /\ tn'[t] = tn[t]
    BY <1>1 DEF Ldtimer, ControlTypes
  <2> QED BY <1>1, <2>1, <2>2, <2>3, <2>4, MovedControl
<1>4. WordTypes'
  BY <1>1, TimeFacts DEF Ldtimer, WordTypes, Due
<1> QED BY <1>2, <1>3, <1>4, TypedNext

(* TinPast keeps the types. *)
LEMMA TinPastTypes ==
  ASSUME NEW s \in Scheds, NEW p \in Procs, NEW d \in TinDelays, Typed, TinPast(s, p, d)
  PROVE  Typed'
<1>1. WordTypes /\ StoreTypes /\ ControlTypes
  BY TypedIs
<1> USE DEF At, InKernel, Goto, KernelScheduler, SetIptr, EnqueueProcess, Forget, schedVars, procVars,
            altVars, localVars, histVars, timerVars, altAll, vars
<1>2. StoreTypes'
  BY <1>1, SameStore DEF TinPast
<1>3. ControlTypes'
  <2>1. HandAt(s)'
    BY <1>1 DEF TinPast, ControlTypes, HandAt, WalkLabels, DistLabels
  <2>2. queued' \in [Procs -> Nat]
    BY <1>1 DEF TinPast, ControlTypes
  <2>3. DOMAIN pc' = Scheds /\ DOMAIN cur' = Scheds /\ DOMAIN iptr' = Procs
    BY <1>1 DEF TinPast, ControlTypes
  <2>4. \A t \in Scheds : t # s => pc'[t] = pc[t] /\ tn'[t] = tn[t]
    BY <1>1 DEF TinPast, ControlTypes
  <2> QED BY <1>1, <2>1, <2>2, <2>3, <2>4, MovedControl
<1>4. WordTypes'
  BY <1>1, TimeFacts DEF TinPast, WordTypes, Due
<1> QED BY <1>2, <1>3, <1>4, TypedNext

(* Talt keeps the types. *)
LEMMA TaltTypes ==
  ASSUME NEW s \in Scheds, NEW p \in Procs, NEW a \in Alts[p], Typed, Talt(s, p, a)
  PROVE  Typed'
<1>1. WordTypes /\ StoreTypes /\ ControlTypes
  BY TypedIs
<1> USE DEF At, InKernel, Goto, KernelScheduler, SetIptr, EnqueueProcess, Forget, schedVars, procVars,
            altVars, localVars, histVars, timerVars, altAll, vars
<1>2. StoreTypes'
  BY <1>1, SameStore DEF Talt, StartAlt
<1>3. ControlTypes'
  <2>1. HandAt(s)'
    BY <1>1 DEF Talt, StartAlt, ControlTypes, HandAt, WalkLabels, DistLabels
  <2>2. queued' \in [Procs -> Nat]
    BY <1>1 DEF Talt, StartAlt, ControlTypes
  <2>3. DOMAIN pc' = Scheds /\ DOMAIN cur' = Scheds /\ DOMAIN iptr' = Procs
    BY <1>1 DEF Talt, StartAlt, ControlTypes
  <2>4. \A t \in Scheds : t # s => pc'[t] = pc[t] /\ tn'[t] = tn[t]
    BY <1>1 DEF Talt, StartAlt, ControlTypes
  <2> QED BY <1>1, <2>1, <2>2, <2>3, <2>4, MovedControl
<1>4. WordTypes'
  BY <1>1, TimeFacts DEF Talt, StartAlt, WordTypes, Due
<1> QED BY <1>2, <1>3, <1>4, TypedNext

(* EnbtReady keeps the types. *)
LEMMA EnbtReadyTypes ==
  ASSUME NEW s \in Scheds, NEW p \in Procs, Typed, EnbtReady(s, p)
  PROVE  Typed'
<1>1. WordTypes /\ StoreTypes /\ ControlTypes
  BY TypedIs
<1> USE DEF At, InKernel, Goto, KernelScheduler, SetIptr, EnqueueProcess, Forget, schedVars, procVars,
            altVars, localVars, histVars, timerVars, altAll, vars
<1>2. StoreTypes'
  BY <1>1, SameStore DEF EnbtReady
<1>3. ControlTypes'
  <2>1. HandAt(s)'
    BY <1>1 DEF EnbtReady, ControlTypes, HandAt, WalkLabels, DistLabels
  <2>2. queued' \in [Procs -> Nat]
    BY <1>1 DEF EnbtReady, ControlTypes
  <2>3. DOMAIN pc' = Scheds /\ DOMAIN cur' = Scheds /\ DOMAIN iptr' = Procs
    BY <1>1 DEF EnbtReady, ControlTypes
  <2>4. \A t \in Scheds : t # s => pc'[t] = pc[t] /\ tn'[t] = tn[t]
    BY <1>1 DEF EnbtReady, ControlTypes
  <2> QED BY <1>1, <2>1, <2>2, <2>3, <2>4, MovedControl
<1>4. WordTypes'
  BY <1>1, TimeFacts DEF EnbtReady, WordTypes, Due
<1> QED BY <1>2, <1>3, <1>4, TypedNext

(* Enbt keeps the types. *)
LEMMA EnbtTypes == ASSUME NEW s \in Scheds, NEW p \in Procs, Typed, Enbt(s, p) PROVE Typed'
<1>1. WordTypes /\ StoreTypes /\ ControlTypes
  BY TypedIs
<1> USE DEF At, InKernel, Goto, KernelScheduler, SetIptr, EnqueueProcess, Forget, schedVars, procVars,
            altVars, localVars, histVars, timerVars, altAll, vars
<1>2. StoreTypes'
  BY <1>1, SameStore DEF Enbt, NextGuard
<1>3. ControlTypes'
  <2>1. HandAt(s)'
    BY <1>1 DEF Enbt, NextGuard, ControlTypes, HandAt, WalkLabels, DistLabels
  <2>2. queued' \in [Procs -> Nat]
    BY <1>1 DEF Enbt, NextGuard, ControlTypes
  <2>3. DOMAIN pc' = Scheds /\ DOMAIN cur' = Scheds /\ DOMAIN iptr' = Procs
    BY <1>1 DEF Enbt, NextGuard, ControlTypes
  <2>4. \A t \in Scheds : t # s => pc'[t] = pc[t] /\ tn'[t] = tn[t]
    BY <1>1 DEF Enbt, NextGuard, ControlTypes
  <2> QED BY <1>1, <2>1, <2>2, <2>3, <2>4, MovedControl
<1>4. WordTypes'
  BY <1>1, TimeFacts DEF Enbt, NextGuard, WordTypes, Due
<1> QED BY <1>2, <1>3, <1>4, TypedNext

(* TaltWtReady keeps the types. *)
LEMMA TaltWtReadyTypes ==
  ASSUME NEW s \in Scheds, NEW p \in Procs, Typed, TaltWtReady(s, p)
  PROVE  Typed'
<1>1. WordTypes /\ StoreTypes /\ ControlTypes
  BY TypedIs
<1> USE DEF At, InKernel, Goto, KernelScheduler, SetIptr, EnqueueProcess, Forget, schedVars, procVars,
            altVars, localVars, histVars, timerVars, altAll, vars
<1>2. StoreTypes'
  BY <1>1, SameStore DEF TaltWtReady
<1>3. ControlTypes'
  <2>1. HandAt(s)'
    BY <1>1 DEF TaltWtReady, ControlTypes, HandAt, WalkLabels, DistLabels
  <2>2. queued' \in [Procs -> Nat]
    BY <1>1 DEF TaltWtReady, ControlTypes
  <2>3. DOMAIN pc' = Scheds /\ DOMAIN cur' = Scheds /\ DOMAIN iptr' = Procs
    BY <1>1 DEF TaltWtReady, ControlTypes
  <2>4. \A t \in Scheds : t # s => pc'[t] = pc[t] /\ tn'[t] = tn[t]
    BY <1>1 DEF TaltWtReady, ControlTypes
  <2> QED BY <1>1, <2>1, <2>2, <2>3, <2>4, MovedControl
<1>4. WordTypes'
  BY <1>1, TimeFacts DEF TaltWtReady, WordTypes, Due
<1> QED BY <1>2, <1>3, <1>4, TypedNext

(* TaltWtClear keeps the types. *)
LEMMA TaltWtClearTypes ==
  ASSUME NEW s \in Scheds, NEW p \in Procs, Typed, TaltWtClear(s, p)
  PROVE  Typed'
<1>1. WordTypes /\ StoreTypes /\ ControlTypes
  BY TypedIs
<1> USE DEF At, InKernel, Goto, KernelScheduler, SetIptr, EnqueueProcess, Forget, schedVars, procVars,
            altVars, localVars, histVars, timerVars, altAll, vars
<1>2. StoreTypes'
  BY <1>1, SameStore DEF TaltWtClear, StartDisabling
<1>3. ControlTypes'
  <2>1. HandAt(s)'
    BY <1>1 DEF TaltWtClear, StartDisabling, ControlTypes, HandAt, WalkLabels, DistLabels
  <2>2. queued' \in [Procs -> Nat]
    BY <1>1 DEF TaltWtClear, StartDisabling, ControlTypes
  <2>3. DOMAIN pc' = Scheds /\ DOMAIN cur' = Scheds /\ DOMAIN iptr' = Procs
    BY <1>1 DEF TaltWtClear, StartDisabling, ControlTypes
  <2>4. \A t \in Scheds : t # s => pc'[t] = pc[t] /\ tn'[t] = tn[t]
    BY <1>1 DEF TaltWtClear, StartDisabling, ControlTypes
  <2> QED BY <1>1, <2>1, <2>2, <2>3, <2>4, MovedControl
<1>4. WordTypes'
  BY <1>1, TimeFacts DEF TaltWtClear, StartDisabling, WordTypes, Due
<1> QED BY <1>2, <1>3, <1>4, TypedNext

(* DistNoNode keeps the types. *)
LEMMA DistNoNodeTypes ==
  ASSUME NEW s \in Scheds, NEW p \in Procs, Typed, DistNoNode(s, p)
  PROVE  Typed'
<1>1. WordTypes /\ StoreTypes /\ ControlTypes
  BY TypedIs
<1> USE DEF At, InKernel, Goto, KernelScheduler, SetIptr, EnqueueProcess, Forget, schedVars, procVars,
            altVars, localVars, histVars, timerVars, altAll, vars
<1>2. StoreTypes'
  BY <1>1, SameStore DEF DistNoNode, NextGuard
<1>3. ControlTypes'
  <2>1. HandAt(s)'
    BY <1>1 DEF DistNoNode, NextGuard, ControlTypes, HandAt, WalkLabels, DistLabels
  <2>2. queued' \in [Procs -> Nat]
    BY <1>1 DEF DistNoNode, NextGuard, ControlTypes
  <2>3. DOMAIN pc' = Scheds /\ DOMAIN cur' = Scheds /\ DOMAIN iptr' = Procs
    BY <1>1 DEF DistNoNode, NextGuard, ControlTypes
  <2>4. \A t \in Scheds : t # s => pc'[t] = pc[t] /\ tn'[t] = tn[t]
    BY <1>1 DEF DistNoNode, NextGuard, ControlTypes
  <2> QED BY <1>1, <2>1, <2>2, <2>3, <2>4, MovedControl
<1>4. WordTypes'
  BY <1>1, TimeFacts DEF DistNoNode, NextGuard, WordTypes, Due
<1> QED BY <1>2, <1>3, <1>4, TypedNext

(* DistSync keeps the types. *)
LEMMA DistSyncTypes == ASSUME NEW s \in Scheds, NEW p \in Procs, Typed, DistSync(s, p) PROVE Typed'
<1>1. WordTypes /\ StoreTypes /\ ControlTypes
  BY TypedIs
<1> USE DEF At, InKernel, Goto, KernelScheduler, SetIptr, EnqueueProcess, Forget, schedVars, procVars,
            altVars, localVars, histVars, timerVars, altAll, vars
<1>2. StoreTypes'
  BY <1>1, SameStore DEF DistSync
<1>3. ControlTypes'
  <2>1. HandAt(s)'
    BY <1>1 DEF DistSync, ControlTypes, HandAt, WalkLabels, DistLabels
  <2>2. queued' \in [Procs -> Nat]
    BY <1>1 DEF DistSync, ControlTypes
  <2>3. DOMAIN pc' = Scheds /\ DOMAIN cur' = Scheds /\ DOMAIN iptr' = Procs
    BY <1>1 DEF DistSync, ControlTypes
  <2>4. \A t \in Scheds : t # s => pc'[t] = pc[t] /\ tn'[t] = tn[t]
    BY <1>1 DEF DistSync, ControlTypes
  <2> QED BY <1>1, <2>1, <2>2, <2>3, <2>4, MovedControl
<1>4. WordTypes'
  BY <1>1, TimeFacts DEF DistSync, WordTypes, Due
<1> QED BY <1>2, <1>3, <1>4, TypedNext

(* CheckTimerQueue keeps the types. *)
LEMMA CheckTimerQueueTypes == ASSUME NEW s \in Scheds, Typed, CheckTimerQueue(s) PROVE Typed'
<1>1. WordTypes /\ StoreTypes /\ ControlTypes
  BY TypedIs
<1> USE DEF At, InKernel, Goto, KernelScheduler, SetIptr, EnqueueProcess, Forget, schedVars, procVars,
            altVars, localVars, histVars, timerVars, altAll, vars
<1>2. StoreTypes'
  BY <1>1, SameStore DEF CheckTimerQueue
<1>3. ControlTypes'
  <2>1. HandAt(s)'
    BY <1>1 DEF CheckTimerQueue, ControlTypes, HandAt, WalkLabels, DistLabels
  <2>2. queued' \in [Procs -> Nat]
    BY <1>1 DEF CheckTimerQueue, ControlTypes
  <2>3. DOMAIN pc' = Scheds /\ DOMAIN cur' = Scheds /\ DOMAIN iptr' = Procs
    BY <1>1 DEF CheckTimerQueue, ControlTypes
  <2>4. \A t \in Scheds : t # s => pc'[t] = pc[t] /\ tn'[t] = tn[t]
    BY <1>1 DEF CheckTimerQueue, ControlTypes
  <2> QED BY <1>1, <2>1, <2>2, <2>3, <2>4, MovedControl
<1>4. WordTypes'
  BY <1>1, TimeFacts DEF CheckTimerQueue, WordTypes, Due
<1> QED BY <1>2, <1>3, <1>4, TypedNext

(* WalkDone keeps the types. *)
LEMMA WalkDoneTypes == ASSUME NEW s \in Scheds, Typed, WalkDone(s) PROVE Typed'
<1>1. WordTypes /\ StoreTypes /\ ControlTypes
  BY TypedIs
<1> USE DEF At, InKernel, Goto, KernelScheduler, SetIptr, EnqueueProcess, Forget, schedVars, procVars,
            altVars, localVars, histVars, timerVars, altAll, vars
<1>2. StoreTypes'
  BY <1>1, SameStore DEF WalkDone
<1>3. ControlTypes'
  <2>1. HandAt(s)'
    BY <1>1 DEF WalkDone, ControlTypes, HandAt, WalkLabels, DistLabels
  <2>2. queued' \in [Procs -> Nat]
    BY <1>1 DEF WalkDone, ControlTypes
  <2>3. DOMAIN pc' = Scheds /\ DOMAIN cur' = Scheds /\ DOMAIN iptr' = Procs
    BY <1>1 DEF WalkDone, ControlTypes
  <2>4. \A t \in Scheds : t # s => pc'[t] = pc[t] /\ tn'[t] = tn[t]
    BY <1>1 DEF WalkDone, ControlTypes
  <2> QED BY <1>1, <2>1, <2>2, <2>3, <2>4, MovedControl
<1>4. WordTypes'
  BY <1>1, TimeFacts DEF WalkDone, WordTypes, Due
<1> QED BY <1>2, <1>3, <1>4, TypedNext

(* WalkTrigger keeps the types. *)
LEMMA WalkTriggerTypes == ASSUME NEW s \in Scheds, Typed, WalkTrigger(s) PROVE Typed'
<1>1. WordTypes /\ StoreTypes /\ ControlTypes
  BY TypedIs
<1> USE DEF At, InKernel, Goto, KernelScheduler, SetIptr, EnqueueProcess, Forget, schedVars, procVars,
            altVars, localVars, histVars, timerVars, altAll, vars
<1>2. StoreTypes'
  BY <1>1, SameStore DEF WalkTrigger
<1>3. ControlTypes'
  <2>1. HandAt(s)'
    BY <1>1 DEF WalkTrigger, ControlTypes, HandAt, WalkLabels, DistLabels
  <2>2. queued' \in [Procs -> Nat]
    BY <1>1 DEF WalkTrigger, ControlTypes
  <2>3. DOMAIN pc' = Scheds /\ DOMAIN cur' = Scheds /\ DOMAIN iptr' = Procs
    BY <1>1 DEF WalkTrigger, ControlTypes
  <2>4. \A t \in Scheds : t # s => pc'[t] = pc[t] /\ tn'[t] = tn[t]
    BY <1>1 DEF WalkTrigger, ControlTypes
  <2> QED BY <1>1, <2>1, <2>2, <2>3, <2>4, MovedControl
<1>4. WordTypes'
  BY <1>1, TimeFacts DEF WalkTrigger, WordTypes, Due
<1> QED BY <1>2, <1>3, <1>4, TypedNext

(* WalkEnqueue keeps the types. *)
LEMMA WalkEnqueueTypes == ASSUME NEW s \in Scheds, Typed, WalkEnqueue(s) PROVE Typed'
<1>1. WordTypes /\ StoreTypes /\ ControlTypes
  BY TypedIs
<1> USE DEF At, InKernel, Goto, KernelScheduler, SetIptr, EnqueueProcess, Forget, schedVars, procVars,
            altVars, localVars, histVars, timerVars, altAll, vars
<1>2. StoreTypes'
  BY <1>1, SameStore DEF WalkEnqueue
<1>3. ControlTypes'
  <2>1. HandAt(s)'
    BY <1>1 DEF WalkEnqueue, ControlTypes, HandAt, WalkLabels, DistLabels
  <2>2. queued' \in [Procs -> Nat]
    BY Enqueued DEF WalkEnqueue, Typed
  <2>3. DOMAIN pc' = Scheds /\ DOMAIN cur' = Scheds /\ DOMAIN iptr' = Procs
    BY <1>1 DEF WalkEnqueue, ControlTypes
  <2>4. \A t \in Scheds : t # s => pc'[t] = pc[t] /\ tn'[t] = tn[t]
    BY <1>1 DEF WalkEnqueue, ControlTypes
  <2> QED BY <1>1, <2>1, <2>2, <2>3, <2>4, MovedControl
<1>4. WordTypes'
  BY <1>1, TimeFacts DEF WalkEnqueue, WordTypes, Due
<1> QED BY <1>2, <1>3, <1>4, TypedNext

(* TimerResume keeps the types. *)
LEMMA TimerResumeTypes ==
  ASSUME NEW s \in Scheds, NEW p \in Procs, Typed, TimerResume(s, p)
  PROVE  Typed'
<1>1. WordTypes /\ StoreTypes /\ ControlTypes
  BY TypedIs
<1> USE DEF At, InKernel, Goto, KernelScheduler, SetIptr, EnqueueProcess, Forget, schedVars, procVars,
            altVars, localVars, histVars, timerVars, altAll, vars
<1>2. StoreTypes'
  BY <1>1, SameStore DEF TimerResume, Resume, Dispatch
<1>3. ControlTypes'
  <2>1. HandAt(s)'
    BY <1>1 DEF TimerResume, Resume, Dispatch, ControlTypes, HandAt, WalkLabels, DistLabels
  <2>2. queued' \in [Procs -> Nat]
    BY <1>1 DEF TimerResume, Resume, Dispatch, ControlTypes
  <2>3. DOMAIN pc' = Scheds /\ DOMAIN cur' = Scheds /\ DOMAIN iptr' = Procs
    BY <1>1 DEF TimerResume, Resume, Dispatch, ControlTypes
  <2>4. \A t \in Scheds : t # s => pc'[t] = pc[t] /\ tn'[t] = tn[t]
    BY <1>1 DEF TimerResume, Resume, Dispatch, ControlTypes
  <2> QED BY <1>1, <2>1, <2>2, <2>3, <2>4, MovedControl
<1>4. WordTypes'
  BY <1>1, TimeFacts DEF TimerResume, Resume, Dispatch, WordTypes, Due
<1> QED BY <1>2, <1>3, <1>4, TypedNext

(* add_to_timer_queue. *)
LEMMA AddFacts ==
  ASSUME Typed, NEW s \in Scheds, NEW n \in Nodes, NEW p \in Procs, NEW t \in Time, NEW alt \in BOOLEAN,
         AddToTimerQueue(s, n, p, t, alt)
  PROVE  /\ StoreTypes' /\ Allocatable(n)
         /\ node'[n] = SetupTqnode(s, p, t, alt) /\ \A m \in Nodes : m # n => node'[m] = node[m]
         /\ \A r \in Scheds : r # s => tq'[r] = tq[r]
         /\ \A m : Has(tq'[s], m) => Has(tq[s], m) \/ m = n
         /\ \A m : m # n /\ Once(tq[s], m) => Once(tq'[s], m)
         /\ ~Has(tq[s], n) => Once(tq'[s], n)
<1>1. TimerTypeOK /\ SchedWords /\ tq[s] \in Seq(Nodes)
  BY DEF Typed, TimerTypeOK
<1>2. PICK q \in Seq(Nodes) : q = tq[s]
  BY <1>1
<1>3. PICK i \in 0..Len(q) : i = Place(tq[s], t)
  BY <1>2, PlaceFacts
<1>4. PICK r : r = Inserted(q, n, i)
  OBVIOUS
<1>5. FirstFree(n) /\ SetNode(n, SetupTqnode(s, p, t, alt)) /\ SetQueue(s, r)
  BY <1>2, <1>3, <1>4, Zenon DEF AddToTimerQueue, Inserted
<1>6. /\ r \in Seq(Nodes)
      /\ \A m : Has(r, m) => Has(tq[s], m) \/ m = n
      /\ \A m : m # n /\ Once(tq[s], m) => Once(r, m)
      /\ ~Has(tq[s], n) => Once(r, n)
  <2>1. /\ r \in Seq(Nodes)
        /\ \A m : Has(r, m) => Has(q, m) \/ m = n
        /\ \A m : m # n /\ Once(q, m) => Once(r, m)
        /\ ~Has(q, n) => Once(r, n)
    BY <1>4, InsertFacts
  <2> QED BY <1>2, <2>1
<1>7. tq'[s] = r /\ \A u \in Scheds : u # s => tq'[u] = tq[u]
  BY <1>1, <1>5, <1>6, QueueSet
<1>8. SetupTqnode(s, p, t, alt) \in TqNode
  BY SetupFacts
<1>9. node'[n] = SetupTqnode(s, p, t, alt) /\ \A m \in Nodes : m # n => node'[m] = node[m]
  BY <1>1, <1>5, <1>8, NodeSet
<1>10. StoreTypes'
  BY <1>5, <1>6, <1>8, WrittenStore
<1> QED BY <1>5, <1>6, <1>7, <1>9, <1>10 DEF FirstFree

(* Steps that put a node into a queue. *)
LEMMA TinTypes ==
  ASSUME NEW s \in Scheds, NEW p \in Procs, NEW d \in TinDelays, NEW n \in Nodes, Typed, Tin(s, p, d, n)
  PROVE  Typed'
<1>1. WordTypes /\ StoreTypes /\ ControlTypes
  BY TypedIs
<1> USE DEF At, InKernel, Goto, KernelScheduler, SetIptr, EnqueueProcess, Forget, schedVars, procVars,
            altVars, localVars, histVars, timerVars, altAll, vars
<1>2. StoreTypes'
  <2>1. Plus(base[p], d) \in Time
    BY <1>1, TimeFacts DEF WordTypes
  <2>2. Plus(Plus(base[p], d), 1) \in Time
    BY <2>1, TimeFacts
  <2> QED BY <2>2, AddFacts DEF Tin
<1>3. ControlTypes'
  <2>1. HandAt(s)'
    BY <1>1, TimeFacts DEF Tin, ControlTypes, HandAt, WalkLabels, DistLabels, WordTypes, StoreTypes
  <2>2. queued' \in [Procs -> Nat]
    BY <1>1 DEF Tin, ControlTypes
  <2>3. DOMAIN pc' = Scheds /\ DOMAIN cur' = Scheds /\ DOMAIN iptr' = Procs
    BY <1>1 DEF Tin, ControlTypes
  <2>4. \A t \in Scheds : t # s => pc'[t] = pc[t] /\ tn'[t] = tn[t]
    BY <1>1 DEF Tin, ControlTypes
  <2> QED BY <1>1, <2>1, <2>2, <2>3, <2>4, MovedControl
<1>4. WordTypes'
  <2>1. Plus(base[p], d) \in Time
    BY <1>1, TimeFacts DEF WordTypes
  <2> QED BY <1>1, <2>1, TimeFacts DEF Tin, WordTypes
<1> QED BY <1>2, <1>3, <1>4, TypedNext

(* TaltWt keeps the types. *)
LEMMA TaltWtTypes ==
  ASSUME NEW s \in Scheds, NEW p \in Procs, NEW n \in Nodes, Typed, TaltWt(s, p, n)
  PROVE  Typed'
<1>1. WordTypes /\ StoreTypes /\ ControlTypes
  BY TypedIs
<1> USE DEF At, InKernel, Goto, KernelScheduler, SetIptr, EnqueueProcess, Forget, schedVars, procVars,
            altVars, localVars, histVars, timerVars, altAll, vars
<1>2. StoreTypes'
  <2>1. timeF[p] \in Time
    BY <1>1 DEF WordTypes
  <2> QED BY <2>1, AddFacts DEF TaltWt
<1>3. ControlTypes'
  <2>1. HandAt(s)'
    BY <1>1, TimeFacts DEF TaltWt, ControlTypes, HandAt, WalkLabels, DistLabels, WordTypes, StoreTypes
  <2>2. queued' \in [Procs -> Nat]
    BY <1>1 DEF TaltWt, ControlTypes
  <2>3. DOMAIN pc' = Scheds /\ DOMAIN cur' = Scheds /\ DOMAIN iptr' = Procs
    BY <1>1 DEF TaltWt, ControlTypes
  <2>4. \A t \in Scheds : t # s => pc'[t] = pc[t] /\ tn'[t] = tn[t]
    BY <1>1 DEF TaltWt, ControlTypes
  <2> QED BY <1>1, <2>1, <2>2, <2>3, <2>4, MovedControl
<1>4. WordTypes'
  BY <1>1, TimeFacts DEF TaltWt, WordTypes, StoreTypes, TqNode
<1> QED BY <1>2, <1>3, <1>4, TypedNext

(* Steps that take one out or write one. *)
LEMMA TaltWtCasTypes ==
  ASSUME NEW s \in Scheds, NEW p \in Procs, Typed, TaltWtCas(s, p)
  PROVE  Typed'
<1>1. WordTypes /\ StoreTypes /\ ControlTypes
  BY TypedIs
<1> USE DEF At, InKernel, Goto, KernelScheduler, SetIptr, EnqueueProcess, Forget, schedVars, procVars,
            altVars, localVars, histVars, timerVars, altAll, vars
<1>2. StoreTypes'
  <2>1. CASE UNCHANGED <<tq, node>>
    BY <1>1, <2>1, SameStore
  <2>2. CASE SetQueue(s, Without(tq[s], {tlink[p]})) /\ SetNode(tlink[p], Release(Clean(node[tlink[p]])))
    <3>1. Without(tq[s], {tlink[p]}) \in Seq(Nodes)
      BY <1>1, WithoutFacts DEF StoreTypes
    <3>2. tlink[p] \in Nodes => Release(Clean(node[tlink[p]])) \in TqNode
      BY <1>1, ReleaseFacts, CleanFacts DEF StoreTypes
    <3> QED BY <2>2, <3>1, <3>2, WrittenStore
  <2> QED BY <2>1, <2>2 DEF TaltWtCas
<1>3. ControlTypes'
  <2>1. HandAt(s)'
    BY <1>1, TimeFacts DEF TaltWtCas, StartDisabling, ControlTypes, HandAt, WalkLabels, DistLabels,
       WordTypes, StoreTypes
  <2>2. queued' \in [Procs -> Nat]
    BY <1>1 DEF TaltWtCas, StartDisabling, ControlTypes
  <2>3. DOMAIN pc' = Scheds /\ DOMAIN cur' = Scheds /\ DOMAIN iptr' = Procs
    BY <1>1 DEF TaltWtCas, StartDisabling, ControlTypes
  <2>4. \A t \in Scheds : t # s => pc'[t] = pc[t] /\ tn'[t] = tn[t]
    BY <1>1 DEF TaltWtCas, StartDisabling, ControlTypes
  <2> QED BY <1>1, <2>1, <2>2, <2>3, <2>4, MovedControl
<1>4. WordTypes'
  BY <1>1, TimeFacts DEF TaltWtCas, StartDisabling, WordTypes, StoreTypes, TqNode
<1> QED BY <1>2, <1>3, <1>4, TypedNext

(* DistDec keeps the types. *)
LEMMA DistDecTypes == ASSUME NEW s \in Scheds, NEW p \in Procs, Typed, DistDec(s, p) PROVE Typed'
<1>1. WordTypes /\ StoreTypes /\ ControlTypes
  BY TypedIs
<1> USE DEF At, InKernel, Goto, KernelScheduler, SetIptr, EnqueueProcess, Forget, schedVars, procVars,
            altVars, localVars, histVars, timerVars, altAll, vars
<1>2. StoreTypes'
  <2>1. tn[s] \in Nodes => Release(node[tn[s]]) \in TqNode
    BY <1>1, ReleaseFacts DEF StoreTypes
  <2> QED BY <2>1, WrittenStore DEF DistDec
<1>3. ControlTypes'
  <2>1. HandAt(s)'
    BY <1>1, TimeFacts DEF DistDec, NextGuard, ControlTypes, HandAt, WalkLabels, DistLabels, WordTypes,
       StoreTypes
  <2>2. queued' \in [Procs -> Nat]
    BY <1>1 DEF DistDec, NextGuard, ControlTypes
  <2>3. DOMAIN pc' = Scheds /\ DOMAIN cur' = Scheds /\ DOMAIN iptr' = Procs
    BY <1>1 DEF DistDec, NextGuard, ControlTypes
  <2>4. \A t \in Scheds : t # s => pc'[t] = pc[t] /\ tn'[t] = tn[t]
    BY <1>1 DEF DistDec, NextGuard, ControlTypes
  <2> QED BY <1>1, <2>1, <2>2, <2>3, <2>4, MovedControl
<1>4. WordTypes'
  BY <1>1, TimeFacts DEF DistDec, NextGuard, WordTypes, StoreTypes, TqNode
<1> QED BY <1>2, <1>3, <1>4, TypedNext

(* WalkTin keeps the types. *)
LEMMA WalkTinTypes == ASSUME NEW s \in Scheds, Typed, WalkTin(s) PROVE Typed'
<1>1. WordTypes /\ StoreTypes /\ ControlTypes
  BY TypedIs
<1> USE DEF At, InKernel, Goto, KernelScheduler, SetIptr, EnqueueProcess, Forget, schedVars, procVars,
            altVars, localVars, histVars, timerVars, altAll, vars
<1>2. StoreTypes'
  <2>1. tq[s] # << >> /\ tq[s] \in Seq(Nodes) /\ SetQueue(s, Tail(tq[s]))
    BY <1>1 DEF StoreTypes, WalkTin, AtNode
  <2>2. Tail(tq[s]) \in Seq(Nodes) /\ Head(tq[s]) \in Nodes
    BY <2>1, QueueTail
  <2>3. Release(node[Head(tq[s])]) \in TqNode
    BY <1>1, <2>2, ReleaseFacts DEF StoreTypes
  <2> QED BY <2>1, <2>2, <2>3, WrittenStore DEF WalkTin
<1>3. ControlTypes'
  <2>1. HandAt(s)'
    BY <1>1, TimeFacts DEF WalkTin, AtNode, ControlTypes, HandAt, WalkLabels, DistLabels, WordTypes, StoreTypes
  <2>2. queued' \in [Procs -> Nat]
    BY Enqueued DEF WalkTin, Typed
  <2>3. DOMAIN pc' = Scheds /\ DOMAIN cur' = Scheds /\ DOMAIN iptr' = Procs
    BY <1>1 DEF WalkTin, AtNode, ControlTypes
  <2>4. \A t \in Scheds : t # s => pc'[t] = pc[t] /\ tn'[t] = tn[t]
    BY <1>1 DEF WalkTin, AtNode, ControlTypes
  <2> QED BY <1>1, <2>1, <2>2, <2>3, <2>4, MovedControl
<1>4. WordTypes'
  BY <1>1 DEF WalkTin, WordTypes
<1> QED BY <1>2, <1>3, <1>4, TypedNext

(* WalkAlt keeps the types. *)
LEMMA WalkAltTypes == ASSUME NEW s \in Scheds, Typed, WalkAlt(s) PROVE Typed'
<1>1. WordTypes /\ StoreTypes /\ ControlTypes
  BY TypedIs
<1> USE DEF At, InKernel, Goto, KernelScheduler, SetIptr, EnqueueProcess, Forget, schedVars, procVars,
            altVars, localVars, histVars, timerVars, altAll, vars
<1>2. StoreTypes'
  <2>1. tq[s] # << >> /\ tq[s] \in Seq(Nodes) /\ SetQueue(s, Tail(tq[s]))
    BY <1>1 DEF StoreTypes, WalkAlt, AtNode
  <2>2. Tail(tq[s]) \in Seq(Nodes) /\ Head(tq[s]) \in Nodes
    BY <2>1, QueueTail
  <2>3. [node[Head(tq[s])] EXCEPT !.time = now[s]] \in TqNode
    BY <1>1, <2>2, StampFacts DEF StoreTypes, WordTypes
  <2> QED BY <2>1, <2>2, <2>3, WrittenStore DEF WalkAlt
<1>3. ControlTypes'
  <2>1. HandAt(s)'
    <3>1. tq[s] # << >> /\ tq[s] \in Seq(Nodes)
      BY <1>1 DEF StoreTypes, WalkAlt, AtNode
    <3>2. Head(tq[s]) \in Nodes
      BY <3>1, QueueTail
    <3>3. tn'[s] = Head(tq[s]) /\ pc'[s] = "walk_swap"
      BY <1>1 DEF WalkAlt, WordTypes, ControlTypes
    <3> QED BY <3>2, <3>3, TimeFacts DEF HandAt, WalkLabels
  <2>2. queued' \in [Procs -> Nat]
    BY <1>1 DEF WalkAlt, AtNode, ControlTypes
  <2>3. DOMAIN pc' = Scheds /\ DOMAIN cur' = Scheds /\ DOMAIN iptr' = Procs
    BY <1>1 DEF WalkAlt, AtNode, ControlTypes
  <2>4. \A t \in Scheds : t # s => pc'[t] = pc[t] /\ tn'[t] = tn[t]
    BY <1>1 DEF WalkAlt, AtNode, ControlTypes
  <2> QED BY <1>1, <2>1, <2>2, <2>3, <2>4, MovedControl
<1>4. WordTypes'
  <2>1. tq[s] # << >> /\ tq[s] \in Seq(Nodes)
    BY <1>1 DEF StoreTypes, WalkAlt, AtNode
  <2>2. Head(tq[s]) \in Nodes
    BY <2>1, QueueTail
  <2> QED BY <1>1, <2>2 DEF WalkAlt, WordTypes
<1> QED BY <1>2, <1>3, <1>4, TypedNext

(* WalkDead keeps the types. *)
LEMMA WalkDeadTypes == ASSUME NEW s \in Scheds, Typed, WalkDead(s) PROVE Typed'
<1>1. WordTypes /\ StoreTypes /\ ControlTypes
  BY TypedIs
<1> USE DEF At, InKernel, Goto, KernelScheduler, SetIptr, EnqueueProcess, Forget, schedVars, procVars,
            altVars, localVars, histVars, timerVars, altAll, vars
<1>2. StoreTypes'
  <2>1. tq[s] # << >> /\ tq[s] \in Seq(Nodes) /\ SetQueue(s, Tail(tq[s]))
    BY <1>1 DEF StoreTypes, WalkDead, AtNode
  <2>2. Tail(tq[s]) \in Seq(Nodes) /\ Head(tq[s]) \in Nodes
    BY <2>1, QueueTail
  <2>3. Clean(node[Head(tq[s])]) \in TqNode
    BY <1>1, <2>2, CleanFacts DEF StoreTypes
  <2> QED BY <2>1, <2>2, <2>3, WrittenStore DEF WalkDead
<1>3. ControlTypes'
  <2>1. HandAt(s)'
    BY <1>1, TimeFacts DEF WalkDead, AtNode, ControlTypes, HandAt, WalkLabels, DistLabels, WordTypes, StoreTypes
  <2>2. queued' \in [Procs -> Nat]
    BY <1>1 DEF WalkDead, AtNode, ControlTypes
  <2>3. DOMAIN pc' = Scheds /\ DOMAIN cur' = Scheds /\ DOMAIN iptr' = Procs
    BY <1>1 DEF WalkDead, AtNode, ControlTypes
  <2>4. \A t \in Scheds : t # s => pc'[t] = pc[t] /\ tn'[t] = tn[t]
    BY <1>1 DEF WalkDead, AtNode, ControlTypes
  <2> QED BY <1>1, <2>1, <2>2, <2>3, <2>4, MovedControl
<1>4. WordTypes'
  BY <1>1 DEF WalkDead, WordTypes
<1> QED BY <1>2, <1>3, <1>4, TypedNext

(* WalkSwap keeps the types. *)
LEMMA WalkSwapTypes == ASSUME NEW s \in Scheds, Typed, WalkSwap(s) PROVE Typed'
<1>1. WordTypes /\ StoreTypes /\ ControlTypes
  BY TypedIs
<1> USE DEF At, InKernel, Goto, KernelScheduler, SetIptr, EnqueueProcess, Forget, schedVars, procVars,
            altVars, localVars, histVars, timerVars, altAll, vars
<1>2. StoreTypes'
  <2>1. tn[s] \in Nodes => [node[tn[s]] EXCEPT !.wptr = Empty] \in TqNode
    BY <1>1, DeadFacts DEF StoreTypes
  <2> QED BY <2>1, WrittenStore DEF WalkSwap
<1>3. ControlTypes'
  <2>1. HandAt(s)'
    BY <1>1, TimeFacts DEF WalkSwap, ControlTypes, HandAt, WalkLabels, DistLabels, WordTypes, StoreTypes
  <2>2. queued' \in [Procs -> Nat]
    BY <1>1 DEF WalkSwap, ControlTypes
  <2>3. DOMAIN pc' = Scheds /\ DOMAIN cur' = Scheds /\ DOMAIN iptr' = Procs
    BY <1>1 DEF WalkSwap, ControlTypes
  <2>4. \A t \in Scheds : t # s => pc'[t] = pc[t] /\ tn'[t] = tn[t]
    BY <1>1 DEF WalkSwap, ControlTypes
  <2> QED BY <1>1, <2>1, <2>2, <2>3, <2>4, MovedControl
<1>4. WordTypes'
  BY <1>1 DEF WalkSwap, WordTypes
<1> QED BY <1>2, <1>3, <1>4, TypedNext

(* WalkClean keeps the types. *)
LEMMA WalkCleanTypes == ASSUME NEW s \in Scheds, Typed, WalkClean(s) PROVE Typed'
<1>1. WordTypes /\ StoreTypes /\ ControlTypes
  BY TypedIs
<1> USE DEF At, InKernel, Goto, KernelScheduler, SetIptr, EnqueueProcess, Forget, schedVars, procVars,
            altVars, localVars, histVars, timerVars, altAll, vars
<1>2. StoreTypes'
  <2>1. tn[s] \in Nodes => Clean(node[tn[s]]) \in TqNode
    BY <1>1, CleanFacts DEF StoreTypes
  <2> QED BY <2>1, WrittenStore DEF WalkClean
<1>3. ControlTypes'
  <2>1. HandAt(s)'
    BY <1>1, TimeFacts DEF WalkClean, ControlTypes, HandAt, WalkLabels, DistLabels, WordTypes, StoreTypes
  <2>2. queued' \in [Procs -> Nat]
    BY <1>1 DEF WalkClean, ControlTypes
  <2>3. DOMAIN pc' = Scheds /\ DOMAIN cur' = Scheds /\ DOMAIN iptr' = Procs
    BY <1>1 DEF WalkClean, ControlTypes
  <2>4. \A t \in Scheds : t # s => pc'[t] = pc[t] /\ tn'[t] = tn[t]
    BY <1>1 DEF WalkClean, ControlTypes
  <2> QED BY <1>1, <2>1, <2>2, <2>3, <2>4, MovedControl
<1>4. WordTypes'
  BY <1>1, TimeFacts DEF WalkClean, WordTypes
<1> QED BY <1>2, <1>3, <1>4, TypedNext

(* clean_timer_queue writes several nodes. *)
LEMMA CleanTypes ==
  ASSUME NEW s \in Scheds, Typed, CleanTimerQueue(s), sync' \in [Scheds -> BOOLEAN]
  PROVE  Typed'
<1>1. WordTypes /\ StoreTypes /\ ControlTypes
  BY TypedIs
<1> USE DEF At, InKernel, Goto, KernelScheduler, SetIptr, EnqueueProcess, Forget, schedVars, procVars,
            altVars, localVars, histVars, timerVars, altAll, vars
<1>2. StoreTypes'
  <2> DEFINE dead == {n \in Nodes : \E i \in DOMAIN tq[s] : tq[s][i] = n /\ ~Live(n)}
  <2>1. tq[s] \in Seq(Nodes) /\ TimerTypeOK /\ SchedWords
    BY DEF Typed, TimerTypeOK
  <2>2. Without(tq[s], dead) \in Seq(Nodes)
    <3> HIDE DEF dead
    <3> QED BY <2>1, WithoutFacts
  <2>3. SetQueue(s, Without(tq[s], dead)) /\ node' = [n \in Nodes |-> IF n \in dead THEN Clean(node[n]) ELSE node[n]]
    BY DEF CleanTimerQueue
  <2> HIDE DEF dead
  <2>4. DOMAIN tq' = Scheds /\ \A t \in Scheds : tq'[t] \in Seq(Nodes)
    BY <2>1, <2>2, <2>3, QueueSet
  <2>5. \A n \in Nodes : Clean(node[n]) \in TqNode /\ node[n] \in TqNode
    BY <1>1, CleanFacts DEF StoreTypes
  <2>6. node' \in [Nodes -> TqNode]
    BY <2>3, <2>5
  <2> QED BY <2>4, <2>6 DEF StoreTypes
<1>3. ControlTypes'
  <2>1. HandAt(s)'
    BY <1>1, TimeFacts DEF CleanTimerQueue, ControlTypes, HandAt, WalkLabels, DistLabels, WordTypes, StoreTypes
  <2>2. queued' \in [Procs -> Nat]
    BY <1>1 DEF CleanTimerQueue, ControlTypes
  <2>3. DOMAIN pc' = Scheds /\ DOMAIN cur' = Scheds /\ DOMAIN iptr' = Procs
    BY <1>1 DEF CleanTimerQueue, ControlTypes
  <2>4. \A t \in Scheds : t # s => pc'[t] = pc[t] /\ tn'[t] = tn[t]
    BY <1>1 DEF CleanTimerQueue, ControlTypes
  <2> QED BY <1>1, <2>1, <2>2, <2>3, <2>4, MovedControl
<1>4. WordTypes'
  BY <1>1 DEF CleanTimerQueue, WordTypes
<1> QED BY <1>2, <1>3, <1>4, TypedNext

(* The disabling of a timer guard. *)
LEMMA DistFiredTypes ==
  ASSUME NEW s \in Scheds, NEW p \in Procs, NEW n \in Nodes, Typed,
         pc[s] \in {"user", "dist_swap"}, pc[s] = "user" => UNCHANGED now, DistFired(s, p, n),
         UNCHANGED <<queued, clock, base, sync, now, wait>>
  PROVE  Typed'
<1>1. WordTypes /\ StoreTypes /\ ControlTypes
  BY TypedIs
<1>2. node[n] \in TqNode
  BY <1>1 DEF StoreTypes
<1>3. StoreTypes'
  BY <1>2, ReleaseFacts, WrittenStore DEF DistFired
<1>4. ControlTypes'
  <2>1. HandAt(s)'
    BY <1>1 DEF DistFired, HandAt, WalkLabels, DistLabels, WordTypes, ControlTypes
  <2>2. DOMAIN pc' = Scheds /\ DOMAIN cur' = Scheds /\ DOMAIN iptr' = Procs /\ queued' \in [Procs -> Nat]
    BY <1>1 DEF DistFired, NextGuard, SetIptr, ControlTypes
  <2>3. \A t \in Scheds : t # s => pc'[t] = pc[t] /\ tn'[t] = tn[t]
    BY <1>1 DEF DistFired, ControlTypes
  <2> QED BY <1>1, <2>1, <2>2, <2>3, MovedControl
<1>5. WordTypes'
  <2>1. node[n].time \in Time
    BY <1>2 DEF TqNode
  <2> QED BY <1>1, <2>1 DEF DistFired, WordTypes
<1> QED BY <1>3, <1>4, <1>5, TypedNext

(* Dist keeps the types. *)
LEMMA DistTypes == ASSUME NEW s \in Scheds, NEW p \in Procs, Typed, Dist(s, p) PROVE Typed'
<1>1. WordTypes /\ StoreTypes /\ ControlTypes
  BY TypedIs
<1>2. PICK n \in Nodes : n = tlink[p]
  BY DEF Dist
<1>3. CASE ~Live(n)
  BY <1>2, <1>3, DistFiredTypes DEF Dist, At
<1>4. CASE Live(n)
  <2>1. /\ tlink' = [tlink EXCEPT ![p] = NotSet] /\ tn' = [tn EXCEPT ![s] = n]
        /\ UNCHANGED <<timeF, iptr, cur, queued, clock, base, sync, now, wait>>
        /\ pc' = [pc EXCEPT ![s] = "dist_dec"] \/ pc' = [pc EXCEPT ![s] = "dist_swap"]
    BY <1>2, <1>4 DEF Dist, Goto
  <2>2. StoreTypes'
    <3>1. CASE UNCHANGED <<tq, node>>
      BY <1>1, <3>1, SameStore
    <3>2. CASE SetQueue(s, Without(tq[s], {n})) /\ SetNode(n, Clean(node[n]))
      <4>1. Without(tq[s], {n}) \in Seq(Nodes) /\ Clean(node[n]) \in TqNode
        BY <1>1, WithoutFacts, CleanFacts DEF StoreTypes
      <4> QED BY <3>2, <4>1, WrittenStore
    <3> QED BY <1>2, <1>4, <3>1, <3>2 DEF Dist
  <2>3. HandAt(s)'
    BY <1>1, <2>1, TimeFacts DEF HandAt, WalkLabels, DistLabels, WordTypes, ControlTypes
  <2>4. DOMAIN pc' = Scheds /\ DOMAIN cur' = Scheds /\ DOMAIN iptr' = Procs /\ queued' \in [Procs -> Nat]
    BY <1>1, <2>1 DEF ControlTypes
  <2>5. \A t \in Scheds : t # s => pc'[t] = pc[t] /\ tn'[t] = tn[t]
    BY <1>1, <2>1 DEF ControlTypes
  <2>6. ControlTypes'
    BY <1>1, <2>3, <2>4, <2>5, MovedControl
  <2>7. WordTypes'
    BY <1>1, <2>1 DEF WordTypes
  <2> QED BY <2>2, <2>6, <2>7, TypedNext
<1> QED BY <1>3, <1>4

(* DistSwap keeps the types. *)
LEMMA DistSwapTypes == ASSUME NEW s \in Scheds, NEW p \in Procs, Typed, DistSwap(s, p) PROVE Typed'
<1>1. WordTypes /\ StoreTypes /\ ControlTypes
  BY TypedIs
<1>2. pc[s] = "dist_swap"
  BY DEF DistSwap, InKernel
<1>3. PICK n \in Nodes : n = tn[s]
  BY <1>1, <1>2 DEF WordTypes, ControlTypes, HandAt, DistLabels
<1>4. CASE ~Live(n)
  BY <1>2, <1>3, <1>4, DistFiredTypes DEF DistSwap
<1>5. CASE Live(n)
  <2>1. /\ SetNode(n, [node[n] EXCEPT !.wptr = Empty]) /\ pc' = [pc EXCEPT ![s] = "dist_sync"]
        /\ UNCHANGED <<tlink, tn, tq, timeF, iptr, cur, queued, clock, base, sync, now, wait>>
    BY <1>3, <1>5 DEF DistSwap, Goto
  <2>2. StoreTypes'
    BY <1>1, <2>1, DeadFacts, WrittenStore DEF StoreTypes
  <2>3. HandAt(s)'
    BY <1>1, <1>2, <2>1 DEF HandAt, WalkLabels, DistLabels, ControlTypes
  <2>4. ControlTypes'
    BY <1>1, <2>1, <2>3, MovedControl DEF ControlTypes
  <2>5. WordTypes'
    BY <1>1, <2>1 DEF WordTypes
  <2> QED BY <2>2, <2>4, <2>5, TypedNext
<1> QED BY <1>4, <1>5

(* Time passes. *)
LEMMA StutterTypes == ASSUME Typed, Tick \/ UNCHANGED tvars PROVE Typed'
<1>1. WordTypes /\ StoreTypes /\ ControlTypes
  BY TypedIs
<1>2. UNCHANGED <<pc, cur, queued, iptr, base, timeF, tlink, tq, node, sync, now, tn, wait>>
  BY DEF Tick, tvars, vars, schedVars, procVars, timerVars
<1>3. clock' \in Time
  <2>1. clock \in Int /\ 1 \in Int
    BY <1>1, TimeFacts DEF WordTypes
  <2>2. Plus(clock, 1) \in Time
    BY <2>1, TimeFacts
  <2> QED BY <1>1, <2>2 DEF Tick, tvars, timerVars, WordTypes
<1>4. WordTypes' /\ StoreTypes' /\ ControlTypes'
  BY <1>1, <1>2, <1>3 DEF WordTypes, StoreTypes, ControlTypes, HandAt
<1> QED BY <1>4, TypedNext

(* Every step keeps the types. *)
LEMMA TypedStep == ASSUME Typed, [TimerNext]_tvars PROVE Typed'
<1>1. CASE Tick \/ UNCHANGED tvars
  BY <1>1, StutterTypes
<1>2. ASSUME NEW s \in Scheds, TimerStep(s) PROVE Typed'
  <2>1. CASE AltStep(s)
    BY <2>1, AltStepTypes
  <2>2. CASE WalkDone(s) \/ WalkTin(s) \/ WalkAlt(s) \/ WalkDead(s)
    BY <2>2, WalkDoneTypes, WalkTinTypes, WalkAltTypes, WalkDeadTypes
  <2>3. CASE WalkSwap(s) \/ WalkTrigger(s) \/ WalkEnqueue(s) \/ WalkClean(s)
    BY <2>3, WalkSwapTypes, WalkTriggerTypes, WalkEnqueueTypes, WalkCleanTypes
  <2>4. ASSUME NEW p \in Procs,
               \/ Ldtimer(s, p)
               \/ \E d \in TinDelays : TinPast(s, p, d) \/ \E n \in Nodes : Tin(s, p, d, n)
               \/ \E a \in Alts[p] : Talt(s, p, a)
               \/ EnbtReady(s, p) \/ Enbt(s, p)
               \/ TaltWtReady(s, p) \/ (\E n \in Nodes : TaltWt(s, p, n))
        PROVE  Typed'
    BY <2>4, LdtimerTypes, TinPastTypes, TinTypes, TaltTypes, EnbtReadyTypes, EnbtTypes, TaltWtReadyTypes,
       TaltWtTypes
  <2>5. ASSUME NEW p \in Procs,
               \/ TaltWtCas(s, p) \/ TaltWtClear(s, p)
               \/ DistNoNode(s, p) \/ Dist(s, p) \/ DistSwap(s, p) \/ DistSync(s, p) \/ DistDec(s, p)
        PROVE  Typed'
    BY <2>5, TaltWtCasTypes, TaltWtClearTypes, DistNoNodeTypes, DistTypes, DistSwapTypes, DistSyncTypes,
       DistDecTypes
  <2> QED BY <1>2, <2>1, <2>2, <2>3, <2>4, <2>5 DEF TimerStep
<1>3. ASSUME NEW s \in Scheds, CheckTimerQueue(s) \/ SyncTq(s) \/ IdleClean(s) PROVE Typed'
  <2>1. CASE CheckTimerQueue(s)
    BY <2>1, CheckTimerQueueTypes
  <2>2. CASE SyncTq(s) \/ IdleClean(s)
    <3>1. sync \in [Scheds -> BOOLEAN]
      BY DEF Typed, TimerTypeOK
    <3>2. sync' \in [Scheds -> BOOLEAN] /\ CleanTimerQueue(s)
      BY <2>2, <3>1 DEF SyncTq, IdleClean
    <3> QED BY <3>2, CleanTypes
  <2> QED BY <1>3, <2>1, <2>2
<1>4. ASSUME NEW s \in Scheds, NEW p \in Procs, TimerResume(s, p) PROVE Typed'
  BY <1>4, TimerResumeTypes
<1> QED BY <1>1, <1>2, <1>3, <1>4 DEF TimerNext

(* The types hold at first. *)
LEMMA InitTyped == ASSUME TimerInit PROVE Typed
<1>1. StoreTypes
  <2>1. << >> \in Seq(Nodes)
    OBVIOUS
  <2> QED BY <2>1, FreeFacts DEF TimerInit, StoreTypes
<1>2. ControlTypes
  BY DEF TimerInit, Init, SchedInit, ControlTypes, HandAt, WalkLabels, DistLabels
<1>3. WordTypes
  BY TimeFacts DEF TimerInit, WordTypes
<1> QED BY <1>1, <1>2, <1>3, TypedIs

(* Every variable has its type. *)
THEOREM TimerTypes == TimerSpec => []TimerTypeOK
<1>1. TimerInit => Typed
  BY InitTyped
<1>2. Typed /\ [TimerNext]_tvars => Typed'
  BY TypedStep
<1>3. Typed => TimerTypeOK
  BY DEF Typed
<1> QED BY <1>1, <1>2, <1>3, PTL DEF TimerSpec

-----------------------------------------------------------------------------
(***************************************************************************)
(* What a step leaves alone.                                               *)
(***************************************************************************)
(* A node nobody comes to have who had not had it. *)
LEMMA SameNode ==
  ASSUME NEW m \in Nodes, NodeAt(m), node'[m] = node[m],
         \A t \in Scheds : /\ Has(tq'[t], m) => Has(tq[t], m)
                           /\ Once(tq[t], m) => Once(tq'[t], m)
                           /\ Walks(t, m)' => Walks(t, m)
                           /\ Disables(t, m)' => Disables(t, m),
         \A q \in Procs : tlink'[q] = m => tlink[q] = m
  PROVE  NodeAt(m)'
<1>1. OfTin(m)' <=> OfTin(m)
  BY DEF OfTin, Live
<1>2. QueueAt(m)'
  BY <1>1 DEF NodeAt, QueueAt
<1>3. WalkAt(m)'
  BY DEF NodeAt, WalkAt
<1>4. HeldAt(m)'
  BY <1>1 DEF NodeAt, HeldAt
<1> QED BY <1>2, <1>3, <1>4 DEF NodeAt

(* The scheduler in the middle of TALTWT still has its node. *)
LEMMA SameCas ==
  ASSUME NEW t \in Scheds, CasAt(t),
         pc'[t] = "taltwt_cas" =>
           /\ pc[t] = "taltwt_cas" /\ cur'[t] = cur[t]
           /\ iptr'[cur[t]] = iptr[cur[t]] /\ tlink'[cur[t]] = tlink[cur[t]]
           /\ node'[tlink[cur[t]]].sched = node[tlink[cur[t]]].sched
  PROVE  CasAt(t)'
BY DEF CasAt

(* The process of another scheduler in TALTWT is not the one that s runs. *)
LEMMA OtherCas ==
  ASSUME NodeInv, OneRunner, NEW s \in Scheds, NEW t \in Scheds, t # s, pc[t] = "taltwt_cas"
  PROVE  /\ cur[t] \in Procs /\ cur[t] # cur[s] /\ iptr[cur[t]] = "altwt"
         /\ tlink[cur[t]] \in Nodes /\ node[tlink[cur[t]]].sched = t
BY NotProcessAssumption DEF NodeInv, CasAt, OneRunner

(* Steps that move no node. *)
Quiet(s) ==
  /\ UNCHANGED <<tq, node, tn>>
  /\ \A t \in Scheds : t # s => pc'[t] = pc[t] /\ cur'[t] = cur[t]
  /\ pc'[s] \in WalkLabels => pc[s] \in WalkLabels
  /\ pc'[s] \in DistLabels => pc[s] \in DistLabels
  /\ pc'[s] # "taltwt_cas"
  /\ \A q \in Procs : tlink'[q] \in Nodes => tlink'[q] = tlink[q]
  /\ \A q \in Procs : q # cur[s] /\ iptr[q] = "altwt" => iptr'[q] = iptr[q] /\ tlink'[q] = tlink[q]

(* A step that moves no node keeps the invariant. *)
LEMMA QuietNode ==
  ASSUME NodeInv, OneRunner, NEW s \in Scheds, Quiet(s), Typed'
  PROVE  NodeInv'
<1>1. ASSUME NEW m \in Nodes PROVE NodeAt(m)'
  <2>1. \A t \in Scheds : (Walks(t, m)' => Walks(t, m)) /\ (Disables(t, m)' => Disables(t, m))
    BY DEF Quiet, Walks, Disables
  <2>2. node'[m] = node[m] /\ \A t \in Scheds : tq'[t] = tq[t]
    BY DEF Quiet
  <2>3. \A q \in Procs : tlink'[q] = m => tlink[q] = m
    BY DEF Quiet
  <2>4. NodeAt(m)
    BY DEF NodeInv
  <2> QED BY <2>1, <2>2, <2>3, <2>4, SameNode
<1>2. ASSUME NEW t \in Scheds PROVE CasAt(t)'
  <2>1. CASE t = s
    BY <2>1 DEF Quiet, CasAt
  <2>2. CASE t # s /\ pc[t] = "taltwt_cas"
    <3>1. /\ cur[t] \in Procs /\ cur[t] # cur[s] /\ iptr[cur[t]] = "altwt"
      BY <2>2, OtherCas
    <3>2. iptr'[cur[t]] = iptr[cur[t]] /\ tlink'[cur[t]] = tlink[cur[t]] /\ cur'[t] = cur[t] /\ node' = node
      BY <2>2, <3>1 DEF Quiet
    <3> QED BY <2>2, <3>2, SameCas DEF NodeInv
  <2>3. CASE t # s /\ pc[t] # "taltwt_cas"
    BY <2>3 DEF Quiet, CasAt
  <2> QED BY <2>1, <2>2, <2>3
<1> QED BY <1>1, <1>2 DEF NodeInv

(* Steps of s, for the process it runs, that move node n and no other. *)
Moves(s, n) ==
  /\ \A m \in Nodes : m # n => node'[m] = node[m]
  /\ \A t \in Scheds : t # s => pc'[t] = pc[t] /\ cur'[t] = cur[t] /\ tn'[t] = tn[t] /\ tq'[t] = tq[t]
  /\ \A m \in Nodes : m # n => (Has(tq'[s], m) => Has(tq[s], m)) /\ (Once(tq[s], m) => Once(tq'[s], m))
  /\ tn'[s] \in {NoNode, n}
  /\ \A q \in Procs : tlink'[q] \in Nodes \ {n} => tlink'[q] = tlink[q]
  /\ \A q \in Procs : q # cur[s] => iptr'[q] = iptr[q] /\ tlink'[q] = tlink[q]

(* A step that moves one node keeps the invariant if it does so for that   *)
(* node.                                                                   *)
LEMMA MoveStep ==
  ASSUME NodeInv, OneRunner, NEW s \in Scheds, NEW n \in Nodes, Moves(s, n), Typed',
         NodeAt(n)', CasAt(s)',
         \A q \in Procs : tlink[q] = n /\ q # cur[s] => node'[n].sched = node[n].sched
  PROVE  NodeInv'
<1>1. ASSUME NEW m \in Nodes, m # n PROVE NodeAt(m)'
  <2>1. \A t \in Scheds : (Walks(t, m)' => Walks(t, m)) /\ (Disables(t, m)' => Disables(t, m))
    BY <1>1, TimeFacts DEF Moves, Walks, Disables
  <2>2. node'[m] = node[m]
    BY <1>1 DEF Moves
  <2>3. \A t \in Scheds : (Has(tq'[t], m) => Has(tq[t], m)) /\ (Once(tq[t], m) => Once(tq'[t], m))
    BY <1>1 DEF Moves
  <2>4. \A q \in Procs : tlink'[q] = m => tlink[q] = m
    BY <1>1 DEF Moves
  <2>5. NodeAt(m)
    BY DEF NodeInv
  <2> QED BY <2>1, <2>2, <2>3, <2>4, <2>5, SameNode
<1>2. ASSUME NEW t \in Scheds, t # s PROVE CasAt(t)'
  <2>1. CASE pc[t] = "taltwt_cas"
    <3>1. cur[t] \in Procs /\ cur[t] # cur[s] /\ tlink[cur[t]] \in Nodes
      BY <1>2, <2>1, OtherCas
    <3>2. iptr'[cur[t]] = iptr[cur[t]] /\ tlink'[cur[t]] = tlink[cur[t]] /\ cur'[t] = cur[t]
      BY <1>2, <3>1 DEF Moves
    <3>3. node'[tlink[cur[t]]].sched = node[tlink[cur[t]]].sched
      BY <3>1 DEF Moves
    <3> QED BY <2>1, <3>2, <3>3, SameCas DEF NodeInv
  <2>2. CASE pc[t] # "taltwt_cas"
    BY <1>2, <2>2 DEF Moves, CasAt
  <2> QED BY <2>1, <2>2
<1> QED BY <1>1, <1>2 DEF NodeInv

(* Nobody has a node that can be allocated. *)
LEMMA AllocatableFacts ==
  ASSUME NodeInv, NEW n \in Nodes, Allocatable(n)
  PROVE  /\ \A t \in Scheds : ~Has(tq[t], n) /\ tn[t] # n
         /\ \A p \in Procs : tlink[p] # n
<1>1. node[n].released /\ ~node[n].dirty /\ NodeAt(n)
  BY DEF Allocatable, NodeInv
<1>2. \A t \in Scheds : ~Has(tq[t], n)
  BY <1>1 DEF NodeAt, QueueAt
<1>3. \A p \in Procs : tlink[p] # n
  BY <1>1 DEF NodeAt, HeldAt
<1>4. ASSUME NEW t \in Scheds, tn[t] = n PROVE FALSE
  <2>1. Walks(t, n) \/ Disables(t, n)
    BY <1>4, TimeFacts DEF NodeInv, Typed, HandAt, Walks, Disables
  <2> QED BY <1>1, <2>1 DEF NodeAt, WalkAt, HeldAt
<1> QED BY <1>2, <1>3, <1>4

(* The queue is done with a node: it is clean, the ALT may still have it. *)
LEMMA CleanedNode ==
  ASSUME NEW n \in Nodes, NodeAt(n), node[n] \in TqNode, node'[n] = Clean(node[n]),
         \A t \in Scheds : /\ ~Has(tq'[t], n) /\ Once(tq'[t], n)
                           /\ ~Walks(t, n)' /\ (Disables(t, n)' => Disables(t, n)),
         \A q \in Procs : tlink'[q] = n => tlink[q] = n
  PROVE  /\ NodeAt(n)'
         /\ \A q \in Procs : tlink[q] = n => node'[n].sched = node[n].sched
<1>1. /\ node'[n].released = node[n].released
      /\ ~node[n].released => node'[n].wptr = node[n].wptr /\ node'[n].sched = node[n].sched
  BY CleanFacts
<1>2. ~node[n].released /\ ~OfTin(n) => ~OfTin(n)'
  BY <1>1 DEF OfTin, Live
<1>3. QueueAt(n)' /\ WalkAt(n)'
  BY DEF QueueAt, WalkAt
<1>4. HeldAt(n)'
  BY <1>1, <1>2 DEF NodeAt, HeldAt
<1>5. \A q \in Procs : tlink[q] = n => node'[n].sched = node[n].sched
  BY <1>1 DEF NodeAt, HeldAt
<1> QED BY <1>3, <1>4, <1>5 DEF NodeAt

(* The ALT is done with a node: it is released, the queue may still have it. *)
LEMMA ReleasedNode ==
  ASSUME NEW n \in Nodes, NodeAt(n), node[n] \in TqNode, node'[n] = Release(node[n]), ~OfTin(n),
         \A t \in Scheds : /\ tq'[t] = tq[t] /\ (Walks(t, n)' => Walks(t, n)) /\ ~Disables(t, n)',
         \A q \in Procs : tlink'[q] # n
  PROVE  NodeAt(n)'
<1>1. /\ node'[n].dirty = node[n].dirty
      /\ node[n].dirty => node'[n].wptr = node[n].wptr /\ node'[n].sched = node[n].sched
  BY ReleaseFacts
<1>2. QueueAt(n)'
  BY <1>1 DEF NodeAt, QueueAt
<1>3. WalkAt(n)'
  BY <1>1 DEF NodeAt, WalkAt
<1>4. HeldAt(n)'
  BY DEF HeldAt
<1> QED BY <1>2, <1>3, <1>4 DEF NodeAt

-----------------------------------------------------------------------------
(***************************************************************************)
(* The steps that move no node.                                            *)
(***************************************************************************)
(* The steps of CcspAlt: what an ALT leaves behind in TLink is no node, or *)
(* is one that is gone from there.                                         *)
LEMMA AltQuiet == ASSUME NodeInv, NEW s \in Scheds, AltStep(s) PROVE Quiet(s)
<1>1. Local(s)
  BY StepLocal DEF NodeInv, Typed, AltStep
<1>2. \A q \in Procs : tlink'[q] = IF InAlt(q)' THEN tlink[q] ELSE NotSet
  BY DEF AltStep
<1>3. \A q \in Procs : q # cur[s] /\ iptr[q] = "altwt" => iptr'[q] = iptr[q] /\ tlink'[q] = tlink[q]
  BY <1>1, <1>2 DEF Local, InAlt
<1>4. \A q \in Procs : tlink'[q] \in Nodes => tlink'[q] = tlink[q]
  BY <1>2, TimeFacts
<1> QED BY <1>1, <1>3, <1>4 DEF Quiet, Local, NodeLabels, AltStep

(* The steps of the timer instructions and of the walk that move no node. *)
LEMMA LdtimerQuiet ==
  ASSUME NodeInv, NEW s \in Scheds, NEW p \in Procs, Ldtimer(s, p)
  PROVE  Quiet(s)
<1>1. /\ DOMAIN pc = Scheds /\ DOMAIN cur = Scheds /\ DOMAIN iptr = Procs
      /\ tlink \in [Procs -> Nodes \cup {NotSet, Set}]
  BY DEF NodeInv, Typed, SchedWords, TimerTypeOK
<1> QED BY <1>1, TimeFacts DEF Ldtimer, Quiet, WalkLabels, DistLabels, At, InKernel, Goto,
       KernelScheduler, SetIptr,
           Forget, schedVars, procVars, altVars, localVars, histVars, timerVars, altAll

(* TinPast moves no node. *)
LEMMA TinPastQuiet ==
  ASSUME NodeInv, NEW s \in Scheds, NEW p \in Procs, NEW d \in TinDelays, TinPast(s, p, d)
  PROVE  Quiet(s)
<1>1. /\ DOMAIN pc = Scheds /\ DOMAIN cur = Scheds /\ DOMAIN iptr = Procs
      /\ tlink \in [Procs -> Nodes \cup {NotSet, Set}]
  BY DEF NodeInv, Typed, SchedWords, TimerTypeOK
<1> QED BY <1>1, TimeFacts DEF TinPast, Quiet, WalkLabels, DistLabels, At, InKernel, Goto,
       KernelScheduler, SetIptr,
           Forget, schedVars, procVars, altVars, localVars, histVars, timerVars, altAll

(* Talt moves no node. *)
LEMMA TaltQuiet ==
  ASSUME NodeInv, NEW s \in Scheds, NEW p \in Procs, NEW a \in Alts[p], Talt(s, p, a)
  PROVE  Quiet(s)
<1>1. /\ DOMAIN pc = Scheds /\ DOMAIN cur = Scheds /\ DOMAIN iptr = Procs
      /\ tlink \in [Procs -> Nodes \cup {NotSet, Set}]
  BY DEF NodeInv, Typed, SchedWords, TimerTypeOK
<1> QED BY <1>1, TimeFacts DEF Talt, StartAlt, Quiet, WalkLabels, DistLabels, At, InKernel, Goto,
       KernelScheduler, SetIptr,
           Forget, schedVars, procVars, altVars, localVars, histVars, timerVars, altAll

(* EnbtReady moves no node. *)
LEMMA EnbtReadyQuiet ==
  ASSUME NodeInv, NEW s \in Scheds, NEW p \in Procs, EnbtReady(s, p)
  PROVE  Quiet(s)
<1>1. /\ DOMAIN pc = Scheds /\ DOMAIN cur = Scheds /\ DOMAIN iptr = Procs
      /\ tlink \in [Procs -> Nodes \cup {NotSet, Set}]
  BY DEF NodeInv, Typed, SchedWords, TimerTypeOK
<1> QED BY <1>1, TimeFacts DEF EnbtReady, Quiet, WalkLabels, DistLabels, At, InKernel, Goto,
       KernelScheduler, SetIptr,
           Forget, schedVars, procVars, altVars, localVars, histVars, timerVars, altAll

(* Enbt moves no node. *)
LEMMA EnbtQuiet == ASSUME NodeInv, NEW s \in Scheds, NEW p \in Procs, Enbt(s, p) PROVE Quiet(s)
<1>1. /\ DOMAIN pc = Scheds /\ DOMAIN cur = Scheds /\ DOMAIN iptr = Procs
      /\ tlink \in [Procs -> Nodes \cup {NotSet, Set}]
  BY DEF NodeInv, Typed, SchedWords, TimerTypeOK
<1> QED BY <1>1, TimeFacts DEF Enbt, NextGuard, Quiet, WalkLabels, DistLabels, At, InKernel, Goto,
       KernelScheduler, SetIptr,
           Forget, schedVars, procVars, altVars, localVars, histVars, timerVars, altAll

(* TaltWtReady moves no node. *)
LEMMA TaltWtReadyQuiet ==
  ASSUME NodeInv, NEW s \in Scheds, NEW p \in Procs, TaltWtReady(s, p)
  PROVE  Quiet(s)
<1>1. /\ DOMAIN pc = Scheds /\ DOMAIN cur = Scheds /\ DOMAIN iptr = Procs
      /\ tlink \in [Procs -> Nodes \cup {NotSet, Set}]
  BY DEF NodeInv, Typed, SchedWords, TimerTypeOK
<1> QED BY <1>1, TimeFacts DEF TaltWtReady, Quiet, WalkLabels, DistLabels, At, InKernel, Goto,
       KernelScheduler, SetIptr,
           Forget, schedVars, procVars, altVars, localVars, histVars, timerVars, altAll

(* TaltWtClear moves no node. *)
LEMMA TaltWtClearQuiet ==
  ASSUME NodeInv, NEW s \in Scheds, NEW p \in Procs, TaltWtClear(s, p)
  PROVE  Quiet(s)
<1>1. /\ DOMAIN pc = Scheds /\ DOMAIN cur = Scheds /\ DOMAIN iptr = Procs
      /\ tlink \in [Procs -> Nodes \cup {NotSet, Set}]
  BY DEF NodeInv, Typed, SchedWords, TimerTypeOK
<1> QED BY <1>1, TimeFacts DEF TaltWtClear, StartDisabling, Quiet, WalkLabels, DistLabels, At,
       InKernel, Goto, KernelScheduler, SetIptr,
           Forget, schedVars, procVars, altVars, localVars, histVars, timerVars, altAll

(* DistNoNode moves no node. *)
LEMMA DistNoNodeQuiet ==
  ASSUME NodeInv, NEW s \in Scheds, NEW p \in Procs, DistNoNode(s, p)
  PROVE  Quiet(s)
<1>1. /\ DOMAIN pc = Scheds /\ DOMAIN cur = Scheds /\ DOMAIN iptr = Procs
      /\ tlink \in [Procs -> Nodes \cup {NotSet, Set}]
  BY DEF NodeInv, Typed, SchedWords, TimerTypeOK
<1> QED BY <1>1, TimeFacts DEF DistNoNode, NextGuard, Quiet, WalkLabels, DistLabels, At, InKernel,
       Goto, KernelScheduler, SetIptr,
           Forget, schedVars, procVars, altVars, localVars, histVars, timerVars, altAll

(* DistSync moves no node. *)
LEMMA DistSyncQuiet ==
  ASSUME NodeInv, NEW s \in Scheds, NEW p \in Procs, DistSync(s, p)
  PROVE  Quiet(s)
<1>1. /\ DOMAIN pc = Scheds /\ DOMAIN cur = Scheds /\ DOMAIN iptr = Procs
      /\ tlink \in [Procs -> Nodes \cup {NotSet, Set}]
  BY DEF NodeInv, Typed, SchedWords, TimerTypeOK
<1> QED BY <1>1, TimeFacts DEF DistSync, Quiet, WalkLabels, DistLabels, At, InKernel, Goto,
       KernelScheduler, SetIptr,
           Forget, schedVars, procVars, altVars, localVars, histVars, timerVars, altAll

(* CheckTimerQueue moves no node. *)
LEMMA CheckTimerQueueQuiet == ASSUME NodeInv, NEW s \in Scheds, CheckTimerQueue(s) PROVE Quiet(s)
<1>1. /\ DOMAIN pc = Scheds /\ DOMAIN cur = Scheds /\ DOMAIN iptr = Procs
      /\ tlink \in [Procs -> Nodes \cup {NotSet, Set}]
  BY DEF NodeInv, Typed, SchedWords, TimerTypeOK
<1> QED BY <1>1, TimeFacts DEF CheckTimerQueue, Quiet, WalkLabels, DistLabels, At, InKernel, Goto,
       KernelScheduler, SetIptr,
           Forget, schedVars, procVars, altVars, localVars, histVars, timerVars, altAll

(* WalkDone moves no node. *)
LEMMA WalkDoneQuiet == ASSUME NodeInv, NEW s \in Scheds, WalkDone(s) PROVE Quiet(s)
<1>1. /\ DOMAIN pc = Scheds /\ DOMAIN cur = Scheds /\ DOMAIN iptr = Procs
      /\ tlink \in [Procs -> Nodes \cup {NotSet, Set}]
  BY DEF NodeInv, Typed, SchedWords, TimerTypeOK
<1> QED BY <1>1, TimeFacts DEF WalkDone, Quiet, WalkLabels, DistLabels, At, InKernel, Goto,
       KernelScheduler, SetIptr,
           Forget, schedVars, procVars, altVars, localVars, histVars, timerVars, altAll

(* WalkTrigger moves no node. *)
LEMMA WalkTriggerQuiet == ASSUME NodeInv, NEW s \in Scheds, WalkTrigger(s) PROVE Quiet(s)
<1>1. /\ DOMAIN pc = Scheds /\ DOMAIN cur = Scheds /\ DOMAIN iptr = Procs
      /\ tlink \in [Procs -> Nodes \cup {NotSet, Set}]
  BY DEF NodeInv, Typed, SchedWords, TimerTypeOK
<1> QED BY <1>1, TimeFacts DEF WalkTrigger, Quiet, WalkLabels, DistLabels, At, InKernel, Goto,
       KernelScheduler, SetIptr,
           Forget, schedVars, procVars, altVars, localVars, histVars, timerVars, altAll

(* WalkEnqueue moves no node. *)
LEMMA WalkEnqueueQuiet == ASSUME NodeInv, NEW s \in Scheds, WalkEnqueue(s) PROVE Quiet(s)
<1>1. /\ DOMAIN pc = Scheds /\ DOMAIN cur = Scheds /\ DOMAIN iptr = Procs
      /\ tlink \in [Procs -> Nodes \cup {NotSet, Set}]
  BY DEF NodeInv, Typed, SchedWords, TimerTypeOK
<1> QED BY <1>1, TimeFacts DEF WalkEnqueue, Quiet, WalkLabels, DistLabels, At, InKernel, Goto,
       KernelScheduler, SetIptr,
           Forget, schedVars, procVars, altVars, localVars, histVars, timerVars, altAll

(* TimerResume moves no node. *)
LEMMA TimerResumeQuiet ==
  ASSUME NodeInv, NEW s \in Scheds, NEW p \in Procs, TimerResume(s, p)
  PROVE  Quiet(s)
<1>1. /\ DOMAIN pc = Scheds /\ DOMAIN cur = Scheds /\ DOMAIN iptr = Procs
      /\ tlink \in [Procs -> Nodes \cup {NotSet, Set}]
  BY DEF NodeInv, Typed, SchedWords, TimerTypeOK
<1> QED BY <1>1, TimeFacts DEF TimerResume, Resume, Dispatch, Quiet, WalkLabels, DistLabels, At,
       InKernel, Goto, KernelScheduler, SetIptr,
           Forget, schedVars, procVars, altVars, localVars, histVars, timerVars, altAll

-----------------------------------------------------------------------------
(***************************************************************************)
(* A node is put into a queue.                                             *)
(***************************************************************************)
(* A process waits in TIN: its node is in the queue and in nobody's hands. *)
LEMMA TinStep ==
  ASSUME NodeInv, OneRunner, NEW s \in Scheds, NEW p \in Procs, NEW d \in TinDelays, NEW n \in Nodes,
         Tin(s, p, d, n), Typed'
  PROVE  NodeInv'
<1>0. PICK alt \in BOOLEAN : alt = FALSE
  OBVIOUS
<1>1. WordTypes /\ StoreTypes /\ ControlTypes /\ Typed
  BY TypedIs DEF NodeInv
<1>2. PICK t \in Time : t = Plus(Plus(base[p], d), 1)
  <2>1. Plus(base[p], d) \in Time
    BY <1>1, TimeFacts DEF WordTypes
  <2>2. Plus(Plus(base[p], d), 1) \in Time
    BY <2>1, TimeFacts
  <2> QED BY <2>2
<1>3. /\ AddToTimerQueue(s, n, p, t, alt) /\ cur[s] = p /\ pc[s] = "user"
      /\ KernelScheduler(s) /\ iptr' = [iptr EXCEPT ![p] = "main"] /\ UNCHANGED <<tlink, tn>>
  BY <1>0, <1>2 DEF Tin, At, SetIptr
<1>4. /\ Allocatable(n)
      /\ node'[n] = SetupTqnode(s, p, t, alt) /\ \A m \in Nodes : m # n => node'[m] = node[m]
      /\ \A r \in Scheds : r # s => tq'[r] = tq[r]
      /\ \A m : Has(tq'[s], m) => Has(tq[s], m) \/ m = n
      /\ \A m : m # n /\ Once(tq[s], m) => Once(tq'[s], m)
      /\ ~Has(tq[s], n) => Once(tq'[s], n)
  BY <1>1, <1>3, AddFacts
<1>5. (\A r \in Scheds : ~Has(tq[r], n) /\ tn[r] # n) /\ \A q \in Procs : tlink[q] # n
  BY <1>4, AllocatableFacts
<1>6. node'[n].sched = s /\ ~node'[n].released /\ OfTin(n)'
  BY <1>0, <1>4, SetupFacts DEF OfTin, Live
<1>7. Moves(s, n)
  <2>1. \A r \in Scheds : r # s => pc'[r] = pc[r] /\ cur'[r] = cur[r] /\ tn'[r] = tn[r]
    BY <1>1, <1>3 DEF KernelScheduler, ControlTypes
  <2>2. tn'[s] = NoNode
    BY <1>1, <1>3 DEF ControlTypes, HandAt, WalkLabels, DistLabels
  <2>3. \A q \in Procs : q # cur[s] => iptr'[q] = iptr[q] /\ tlink'[q] = tlink[q]
    BY <1>1, <1>3 DEF ControlTypes
  <2> QED BY <1>3, <1>4, <2>1, <2>2, <2>3 DEF Moves
<1>8. QueueAt(n)'
  <2>1. \A r \in Scheds : Once(tq'[r], n)
    BY <1>4, <1>5 DEF Once, Has
  <2> QED BY <1>4, <1>5, <1>6, <2>1 DEF QueueAt
<1>9. WalkAt(n)' /\ HeldAt(n)'
  BY <1>3, <1>5 DEF WalkAt, HeldAt, Walks, Disables
<1>10. CasAt(s)'
  BY <1>1, <1>3 DEF CasAt, KernelScheduler, ControlTypes
<1> QED BY <1>5, <1>7, <1>8, <1>9, <1>10, MoveStep DEF NodeAt

(* TALTWT puts the node of an ALT into the queue and its address into      *)
(* TLink.                                                                  *)
LEMMA TaltWtStep ==
  ASSUME NodeInv, OneRunner, NEW s \in Scheds, NEW p \in Procs, NEW n \in Nodes, TaltWt(s, p, n), Typed'
  PROVE  NodeInv'
<1>0. PICK alt \in BOOLEAN : alt = TRUE
  OBVIOUS
<1>1. WordTypes /\ StoreTypes /\ ControlTypes /\ Typed
  BY TypedIs DEF NodeInv
<1>2. PICK t \in Time : t = timeF[p]
  BY <1>1 DEF WordTypes
<1>3. /\ AddToTimerQueue(s, n, p, t, alt) /\ cur[s] = p /\ pc[s] = "user" /\ iptr[p] = "altwt"
      /\ pc' = [pc EXCEPT ![s] = "taltwt_cas"] /\ tlink' = [tlink EXCEPT ![p] = n]
      /\ UNCHANGED <<cur, iptr, tn>>
  BY <1>0, <1>2 DEF TaltWt, At, Goto
<1>4. /\ Allocatable(n)
      /\ node'[n] = SetupTqnode(s, p, t, alt) /\ \A m \in Nodes : m # n => node'[m] = node[m]
      /\ \A r \in Scheds : r # s => tq'[r] = tq[r]
      /\ \A m : Has(tq'[s], m) => Has(tq[s], m) \/ m = n
      /\ \A m : m # n /\ Once(tq[s], m) => Once(tq'[s], m)
      /\ ~Has(tq[s], n) => Once(tq'[s], n)
  BY <1>1, <1>3, AddFacts
<1>5. (\A r \in Scheds : ~Has(tq[r], n) /\ tn[r] # n) /\ \A q \in Procs : tlink[q] # n
  BY <1>4, AllocatableFacts
<1>6. node'[n].sched = s /\ ~node'[n].released /\ node'[n].dirty /\ ~OfTin(n)'
  <2>1. PICK nd : nd = SetupTqnode(s, p, t, alt)
    OBVIOUS
  <2>2. nd.sched = s /\ nd.dirty = alt /\ ~nd.released /\ nd.wptr.alt = alt
    BY <2>1, SetupFacts
  <2>3. nd.dirty /\ nd.wptr.alt
    BY <1>0, <2>2
  <2>4. node'[n] = nd
    BY <1>4, <2>1
  <2> QED BY <2>2, <2>3, <2>4 DEF OfTin
<1>7. Moves(s, n)
  <2>1. \A r \in Scheds : r # s => pc'[r] = pc[r] /\ cur'[r] = cur[r] /\ tn'[r] = tn[r]
    BY <1>1, <1>3 DEF ControlTypes
  <2>2. tn'[s] = NoNode
    BY <1>1, <1>3 DEF ControlTypes, HandAt, WalkLabels, DistLabels
  <2>3. \A q \in Procs : q # cur[s] => iptr'[q] = iptr[q] /\ tlink'[q] = tlink[q]
    BY <1>1, <1>3 DEF WordTypes
  <2>4. \A q \in Procs : tlink'[q] \in Nodes \ {n} => tlink'[q] = tlink[q]
    BY <1>1, <1>3 DEF WordTypes
  <2> QED BY <1>4, <2>1, <2>2, <2>3, <2>4 DEF Moves
<1>8. QueueAt(n)'
  <2>1. \A r \in Scheds : Once(tq'[r], n)
    BY <1>4, <1>5 DEF Once, Has
  <2> QED BY <1>4, <1>5, <1>6, <2>1 DEF QueueAt
<1>9. \A q \in Procs : tlink'[q] = n <=> q = p
  BY <1>1, <1>3, <1>5 DEF WordTypes
<1>10. WalkAt(n)' /\ HeldAt(n)'
  BY <1>3, <1>5, <1>6, <1>9 DEF WalkAt, HeldAt, Walks, Disables
<1>11. CasAt(s)'
  BY <1>1, <1>3, <1>6, <1>9 DEF CasAt, ControlTypes
<1> QED BY <1>5, <1>7, <1>8, <1>10, <1>11, MoveStep DEF NodeAt

-----------------------------------------------------------------------------
(***************************************************************************)
(* The ALT gives its node up.                                              *)
(***************************************************************************)
(* Where a node of an ALT may be. *)
LEMMA LinkFacts ==
  ASSUME NodeInv, NEW p \in Procs, NEW n \in Nodes, tlink[p] = n
  PROVE  /\ NodeAt(n) /\ node[n] \in TqNode /\ ~node[n].released /\ ~OfTin(n)
         /\ \A q \in Procs : tlink[q] = n => q = p
         /\ \A t \in Scheds : ~Disables(t, n)
BY DEF NodeInv, NodeAt, HeldAt, Typed, TimerTypeOK

(* The compare-and-swap of TALTWT: the process sleeps, or takes its node   *)
(* back out of the queue.                                                  *)
LEMMA TaltWtCasStep ==
  ASSUME NodeInv, OneRunner, NEW s \in Scheds, NEW p \in Procs, TaltWtCas(s, p), Typed'
  PROVE  NodeInv'
<1>1. WordTypes /\ StoreTypes /\ ControlTypes /\ Typed
  BY TypedIs DEF NodeInv
<1>2. cur[s] = p /\ pc[s] = "taltwt_cas" /\ UNCHANGED tn
  BY DEF TaltWtCas, InKernel
<1>3. CASE state[p].notReady
  <2>1. Quiet(s)
    BY <1>1, <1>2, <1>3 DEF TaltWtCas, StartDisabling, SetIptr, KernelScheduler, Quiet, ControlTypes,
                            WalkLabels, DistLabels
  <2> QED BY <2>1, QuietNode
<1>4. CASE ~state[p].notReady
  <2>1. tlink[p] \in Nodes /\ node[tlink[p]].sched = s
    BY <1>2 DEF NodeInv, CasAt
  <2>2. PICK n \in Nodes : n = tlink[p]
    BY <2>1
  <2>3. /\ tlink' = [tlink EXCEPT ![p] = Set] /\ SetQueue(s, Without(tq[s], {n}))
        /\ SetNode(n, Release(Clean(node[n]))) /\ pc' = [pc EXCEPT ![s] = "taltwt_clear"]
        /\ UNCHANGED <<cur, iptr>>
    BY <1>4, <2>2 DEF TaltWtCas, Goto
  <2>4. /\ NodeAt(n) /\ node[n] \in TqNode /\ \A q \in Procs : tlink[q] = n => q = p
        /\ \A t \in Scheds : ~Disables(t, n)
    BY <2>2, LinkFacts
  <2>5. PICK w \in Seq(Nodes) : w = Without(tq[s], {n})
    BY <1>1, WithoutFacts DEF StoreTypes
  <2>6. (\A m : Has(w, m) => Has(tq[s], m) /\ m # n) /\ \A m : Once(tq[s], m) => Once(w, m)
    BY <1>1, <2>5, WithoutFacts DEF StoreTypes
  <2>7. tq'[s] = w /\ \A t \in Scheds : t # s => tq'[t] = tq[t]
    BY <1>1, <2>3, <2>5, QueueSet DEF Typed
  <2>8. \A m \in Nodes : m # n => node'[m] = node[m]
    BY <1>1, <2>3, <2>4, ReleaseFacts, CleanFacts, NodeSet DEF Typed
  <2>9. \A q \in Procs : tlink'[q] # n /\ (q # p => tlink'[q] = tlink[q])
    BY <1>1, <2>3, <2>4, TimeFacts DEF WordTypes
  <2>10. Moves(s, n)
    <3>1. \A t \in Scheds : t # s => pc'[t] = pc[t] /\ cur'[t] = cur[t] /\ tn'[t] = tn[t]
      BY <1>1, <1>2, <2>3 DEF ControlTypes
    <3>2. tn'[s] = NoNode
      BY <1>1, <1>2 DEF ControlTypes, HandAt, WalkLabels, DistLabels
    <3>3. \A q \in Procs : tlink'[q] \in Nodes \ {n} => tlink'[q] = tlink[q]
      BY <1>1, <2>3, TimeFacts DEF WordTypes
    <3> QED BY <1>2, <2>3, <2>6, <2>7, <2>8, <2>9, <3>1, <3>2, <3>3 DEF Moves
  <2>11. \A t \in Scheds : ~Has(tq'[t], n) /\ Once(tq'[t], n)
    BY <2>1, <2>2, <2>4, <2>6, <2>7 DEF NodeAt, QueueAt
  <2>12. \A t \in Scheds : ~Walks(t, n)' /\ ~Disables(t, n)'
    <3>1. \A t \in Scheds : Walks(t, n) => t = s
      BY <2>1, <2>2, <2>4 DEF NodeAt, WalkAt
    <3> QED BY <1>1, <1>2, <2>3, <2>4, <3>1 DEF Walks, Disables, WalkLabels, DistLabels, ControlTypes
  <2>13. NodeAt(n)'
    BY <2>9, <2>11, <2>12 DEF NodeAt, QueueAt, WalkAt, HeldAt
  <2>14. CasAt(s)'
    BY <1>1, <2>3 DEF CasAt, ControlTypes
  <2> QED BY <1>2, <2>4, <2>10, <2>13, <2>14, MoveStep
<1> QED BY <1>3, <1>4

(* A disabled guard is found to have fired. *)
LEMMA FiredStep ==
  ASSUME NodeInv, OneRunner, NEW s \in Scheds, NEW p \in Procs, NEW n \in Nodes, Typed',
         cur[s] = p, pc[s] \in {"user", "dist_swap"}, ~Live(n), DistFired(s, p, n),
         \/ tlink[p] = n /\ tn[s] = NoNode
         \/ Disables(s, n)
  PROVE  NodeInv'
<1>1. WordTypes /\ StoreTypes /\ ControlTypes /\ Typed
  BY TypedIs DEF NodeInv
<1>2. NodeAt(n) /\ node[n] \in TqNode /\ ~OfTin(n)
  BY <1>1 DEF NodeInv, StoreTypes, OfTin
<1>3. /\ \A q \in Procs : q # p => tlink[q] # n
      /\ \A t \in Scheds : t # s => ~Disables(t, n)
  BY <1>2 DEF NodeAt, HeldAt
<1>4. /\ tlink' \in [Procs -> Nodes \cup {NotSet, Set}] /\ tlink'[p] \in {NotSet, Set}
      /\ \A q \in Procs : q # p => tlink'[q] = tlink[q] /\ iptr'[q] = iptr[q]
  BY <1>1 DEF DistFired, NextGuard, SetIptr, WordTypes, ControlTypes
<1>5. /\ tn'[s] = NoNode /\ pc'[s] = "user"
      /\ \A t \in Scheds : t # s => pc'[t] = pc[t] /\ tn'[t] = tn[t]
      /\ UNCHANGED <<cur, tq>>
  BY <1>1 DEF DistFired, WordTypes, ControlTypes
<1>6. Release(node[n]) \in TqNode
  BY <1>2, ReleaseFacts
<1>7. node'[n] = Release(node[n]) /\ \A m \in Nodes : m # n => node'[m] = node[m]
  BY <1>1, <1>6, NodeSet DEF DistFired, Typed
<1>8. \A q \in Procs : tlink'[q] # n
  BY <1>3, <1>4, TimeFacts
<1>9. \A t \in Scheds : /\ tq'[t] = tq[t] /\ (Walks(t, n)' => Walks(t, n)) /\ ~Disables(t, n)'
  BY <1>3, <1>5, TimeFacts DEF Walks, Disables
<1>10. NodeAt(n)'
  BY <1>2, <1>7, <1>8, <1>9, ReleasedNode
<1>11. Moves(s, n)
  BY <1>4, <1>5, <1>7, TimeFacts DEF Moves
<1>12. CasAt(s)'
  BY <1>5 DEF CasAt
<1> QED BY <1>3, <1>10, <1>11, <1>12, MoveStep

(* A guard is disabled whose node is alive: the process gives its word for *)
(* the node up, and takes it out of its own queue.                         *)
LEMMA DistStep ==
  ASSUME NodeInv, OneRunner, NEW s \in Scheds, NEW p \in Procs, Dist(s, p), Typed'
  PROVE  NodeInv'
<1>1. WordTypes /\ StoreTypes /\ ControlTypes /\ Typed
  BY TypedIs DEF NodeInv
<1>2. PICK n \in Nodes : n = tlink[p]
  BY DEF Dist
<1>3. cur[s] = p /\ pc[s] = "user" /\ tn[s] = NoNode
  BY <1>1 DEF Dist, At, ControlTypes, HandAt, WalkLabels, DistLabels
<1>4. CASE ~Live(n)
  BY <1>2, <1>3, <1>4, FiredStep DEF Dist
<1>5. CASE Live(n)
  <2>1. /\ tlink' = [tlink EXCEPT ![p] = NotSet] /\ tn' = [tn EXCEPT ![s] = n]
        /\ UNCHANGED <<iptr, cur>>
        /\ \/ /\ node[n].sched = s /\ SetQueue(s, Without(tq[s], {n})) /\ SetNode(n, Clean(node[n]))
              /\ pc' = [pc EXCEPT ![s] = "dist_dec"]
           \/ node[n].sched # s /\ UNCHANGED <<tq, node>> /\ pc' = [pc EXCEPT ![s] = "dist_swap"]
    BY <1>2, <1>5 DEF Dist, Goto
  <2>2. /\ NodeAt(n) /\ node[n] \in TqNode /\ ~node[n].released /\ ~OfTin(n)
        /\ \A q \in Procs : tlink[q] = n => q = p
        /\ \A t \in Scheds : ~Disables(t, n)
    BY <1>2, LinkFacts
  <2>3. /\ tn'[s] = n /\ pc'[s] \in DistLabels /\ pc'[s] \notin WalkLabels \cup {"taltwt_cas"}
        /\ \A t \in Scheds : t # s => pc'[t] = pc[t] /\ tn'[t] = tn[t] /\ cur'[t] = cur[t]
    BY <1>1, <2>1 DEF WordTypes, ControlTypes, WalkLabels, DistLabels
  <2>4. \A q \in Procs : tlink'[q] # n /\ (q # p => tlink'[q] = tlink[q] /\ iptr'[q] = iptr[q])
    BY <1>1, <2>1, <2>2, TimeFacts DEF WordTypes
  <2>5. \A q \in Procs : tlink'[q] \in Nodes \ {n} => tlink'[q] = tlink[q]
    BY <1>1, <2>1, TimeFacts DEF WordTypes
  <2>6. \A t \in Scheds : /\ Disables(t, n)' <=> t = s
                          /\ Walks(t, n)' => Walks(t, n) /\ t # s
    BY <2>2, <2>3 DEF Disables, Walks
  <2>7. /\ \A m \in Nodes : m # n => node'[m] = node[m]
        /\ \A t \in Scheds : t # s => tq'[t] = tq[t]
        /\ \A m : m # n => (Has(tq'[s], m) => Has(tq[s], m)) /\ (Once(tq[s], m) => Once(tq'[s], m))
        /\ ~node'[n].released /\ ~OfTin(n)' /\ QueueAt(n)' /\ WalkAt(n)'
    <3>1. CASE node[n].sched = s
      <4>1. SetQueue(s, Without(tq[s], {n})) /\ SetNode(n, Clean(node[n]))
        BY <2>1, <3>1
      <4>2. PICK w \in Seq(Nodes) : w = Without(tq[s], {n})
        BY <1>1, WithoutFacts DEF StoreTypes
      <4>3. (\A m : Has(w, m) => Has(tq[s], m) /\ m # n) /\ \A m : Once(tq[s], m) => Once(w, m)
        BY <1>1, <4>2, WithoutFacts DEF StoreTypes
      <4>4. tq'[s] = w /\ \A t \in Scheds : t # s => tq'[t] = tq[t]
        BY <1>1, <4>1, <4>2, QueueSet DEF Typed
      <4>5. Clean(node[n]) \in TqNode
        BY <2>2, CleanFacts
      <4>6. node'[n] = Clean(node[n]) /\ \A m \in Nodes : m # n => node'[m] = node[m]
        BY <1>1, <4>1, <4>5, NodeSet DEF Typed
      <4>7. ~node'[n].released /\ node'[n].wptr = node[n].wptr /\ node'[n].sched = node[n].sched
        BY <2>2, <4>6, CleanFacts
      <4>8. ~OfTin(n)'
        BY <2>2, <4>7 DEF OfTin, Live
      <4>9. \A t \in Scheds : Once(tq'[t], n) /\ ~Has(tq'[t], n)
        BY <2>2, <3>1, <4>3, <4>4 DEF NodeAt, QueueAt
      <4>10. \A t \in Scheds : ~Walks(t, n)'
        BY <2>2, <2>6, <3>1 DEF NodeAt, WalkAt
      <4> QED BY <4>3, <4>4, <4>6, <4>7, <4>8, <4>9, <4>10 DEF QueueAt, WalkAt
    <3>2. CASE node[n].sched # s
      <4>1. UNCHANGED <<tq, node>>
        BY <2>1, <3>2
      <4>2. ~OfTin(n)'
        BY <2>2, <4>1 DEF OfTin, Live
      <4>3. QueueAt(n)'
        BY <2>2, <4>1, <4>2 DEF NodeAt, QueueAt
      <4>4. WalkAt(n)'
        BY <2>2, <2>6, <4>1 DEF NodeAt, WalkAt
      <4> QED BY <2>2, <4>1, <4>2, <4>3, <4>4
    <3> QED BY <3>1, <3>2
  <2>8. HeldAt(n)'
    BY <2>4, <2>6, <2>7 DEF HeldAt
  <2>9. Moves(s, n)
    BY <1>3, <2>3, <2>4, <2>5, <2>7 DEF Moves
  <2>10. CasAt(s)'
    BY <2>3 DEF CasAt
  <2> QED BY <1>3, <2>2, <2>7, <2>8, <2>9, <2>10, MoveStep DEF NodeAt
<1> QED BY <1>4, <1>5

(* The scheduler that disables a guard has the node in its hands. *)
LEMMA HandFacts ==
  ASSUME NodeInv, NEW s \in Scheds, pc[s] \in DistLabels
  PROVE  \E n \in Nodes :
           /\ n = tn[s] /\ NodeAt(n) /\ node[n] \in TqNode /\ Disables(s, n)
           /\ ~node[n].released /\ ~OfTin(n)
           /\ \A q \in Procs : tlink[q] # n
           /\ \A t \in Scheds : Disables(t, n) => t = s
<1>1. HandAt(s) /\ tn \in [Scheds -> Nodes \cup {NoNode}] /\ node \in [Nodes -> TqNode]
  BY DEF NodeInv, Typed, TimerTypeOK
<1>2. tn[s] \in Nodes
  BY <1>1 DEF HandAt
<1>3. NodeAt(tn[s]) /\ Disables(s, tn[s])
  BY <1>2 DEF NodeInv, Disables
<1> QED BY <1>1, <1>2, <1>3 DEF NodeAt, HeldAt

(* The swap of the workspace out of the node. *)
LEMMA DistSwapStep ==
  ASSUME NodeInv, OneRunner, NEW s \in Scheds, NEW p \in Procs, DistSwap(s, p), Typed'
  PROVE  NodeInv'
<1>1. WordTypes /\ StoreTypes /\ ControlTypes /\ Typed
  BY TypedIs DEF NodeInv
<1>2. cur[s] = p /\ pc[s] = "dist_swap" /\ pc[s] \in DistLabels
  BY DEF DistSwap, InKernel, DistLabels
<1>3. PICK n \in Nodes :
         /\ n = tn[s] /\ NodeAt(n) /\ node[n] \in TqNode /\ Disables(s, n)
         /\ ~node[n].released /\ ~OfTin(n)
         /\ \A q \in Procs : tlink[q] # n
         /\ \A t \in Scheds : Disables(t, n) => t = s
  BY <1>2, HandFacts
<1>4. CASE ~Live(n)
  BY <1>2, <1>3, <1>4, FiredStep DEF DistSwap
<1>5. CASE Live(n)
  <2>1. /\ SetNode(n, [node[n] EXCEPT !.wptr = Empty]) /\ pc' = [pc EXCEPT ![s] = "dist_sync"]
        /\ UNCHANGED <<tlink, tn, tq, iptr, cur>>
    BY <1>3, <1>5 DEF DistSwap, Goto
  <2>2. PICK d \in TqNode : d = [node[n] EXCEPT !.wptr = Empty]
    BY <1>3, DeadFacts
  <2>3. d.wptr = Empty /\ d.dirty = node[n].dirty /\ d.released = node[n].released /\ d.sched = node[n].sched
    BY <1>3, <2>2, DeadFacts
  <2>4. node'[n] = d /\ \A m \in Nodes : m # n => node'[m] = node[m]
    BY <1>1, <2>1, <2>2, NodeSet DEF Typed
  <2>5. pc'[s] = "dist_sync" /\ \A t \in Scheds : t # s => pc'[t] = pc[t]
    BY <1>1, <2>1 DEF ControlTypes
  <2>6. \A t \in Scheds : (Walks(t, n)' => Walks(t, n)) /\ (Disables(t, n)' => Disables(t, n))
    BY <1>2, <2>1, <2>5 DEF Walks, Disables, WalkLabels
  <2>7. ~OfTin(n)'
    BY <2>3, <2>4 DEF OfTin, Live
  <2>8. QueueAt(n)'
    BY <1>3, <2>1, <2>3, <2>4 DEF NodeAt, QueueAt
  <2>9. WalkAt(n)'
    BY <1>3, <2>1, <2>3, <2>4, <2>6 DEF NodeAt, WalkAt
  <2>10. HeldAt(n)'
    BY <1>3, <2>1, <2>3, <2>4, <2>6, <2>7 DEF HeldAt
  <2>11. Moves(s, n)
    BY <1>3, <2>1, <2>4, <2>5 DEF Moves
  <2>12. CasAt(s)'
    BY <2>5 DEF CasAt
  <2> QED BY <1>3, <2>8, <2>9, <2>10, <2>11, <2>12, MoveStep DEF NodeAt
<1> QED BY <1>4, <1>5

(* The node is released when its reference has been dropped. *)
LEMMA DistDecStep ==
  ASSUME NodeInv, OneRunner, NEW s \in Scheds, NEW p \in Procs, DistDec(s, p), Typed'
  PROVE  NodeInv'
<1>1. WordTypes /\ StoreTypes /\ ControlTypes /\ Typed
  BY TypedIs DEF NodeInv
<1>2. cur[s] = p /\ pc[s] \in DistLabels
  BY DEF DistDec, InKernel, DistLabels
<1>3. PICK n \in Nodes :
         /\ n = tn[s] /\ NodeAt(n) /\ node[n] \in TqNode /\ Disables(s, n)
         /\ ~node[n].released /\ ~OfTin(n)
         /\ \A q \in Procs : tlink[q] # n
         /\ \A t \in Scheds : Disables(t, n) => t = s
  BY <1>2, HandFacts
<1>4. /\ SetNode(n, Release(node[n])) /\ tn' = [tn EXCEPT ![s] = NoNode]
      /\ iptr' = [iptr EXCEPT ![p] = Advance(p)] /\ pc' = [pc EXCEPT ![s] = "user"]
      /\ UNCHANGED <<tlink, tq, cur>>
  BY <1>3 DEF DistDec, NextGuard, SetIptr, Goto
<1>5. /\ tn'[s] = NoNode /\ pc'[s] = "user"
      /\ \A t \in Scheds : t # s => pc'[t] = pc[t] /\ tn'[t] = tn[t]
      /\ \A q \in Procs : q # p => iptr'[q] = iptr[q]
  BY <1>1, <1>4 DEF WordTypes, ControlTypes
<1>6. Release(node[n]) \in TqNode
  BY <1>3, ReleaseFacts
<1>7. node'[n] = Release(node[n]) /\ \A m \in Nodes : m # n => node'[m] = node[m]
  BY <1>1, <1>4, <1>6, NodeSet DEF Typed
<1>8. \A t \in Scheds : /\ tq'[t] = tq[t] /\ (Walks(t, n)' => Walks(t, n)) /\ ~Disables(t, n)'
  BY <1>3, <1>4, <1>5, TimeFacts DEF Walks, Disables
<1>9. NodeAt(n)'
  BY <1>3, <1>4, <1>7, <1>8, ReleasedNode
<1>10. Moves(s, n)
  BY <1>2, <1>4, <1>5, <1>7 DEF Moves
<1>11. CasAt(s)'
  BY <1>5 DEF CasAt
<1> QED BY <1>3, <1>9, <1>10, <1>11, MoveStep

-----------------------------------------------------------------------------
(***************************************************************************)
(* The walk of the queue.                                                  *)
(***************************************************************************)
(* The first node is taken out. *)
LEMMA HeadFacts ==
  ASSUME NodeInv, NEW s \in Scheds, AtNode(s)
  PROVE  \E n \in Nodes :
           /\ n = Head(tq[s]) /\ NodeAt(n) /\ node[n] \in TqNode /\ pc[s] = "walk"
           /\ node[n].sched = s /\ (node[n].dirty \/ (OfTin(n) /\ ~node[n].released))
           /\ \A t \in Scheds : ~Has(tq'[t], n) /\ Once(tq'[t], n) /\ ~Walks(t, n)
           /\ \A t \in Scheds : t # s => tq'[t] = tq[t]
           /\ \A m : (Has(tq'[s], m) => Has(tq[s], m)) /\ (Once(tq[s], m) => Once(tq'[s], m))
<1>1. WordTypes /\ StoreTypes /\ ControlTypes /\ Typed /\ pc[s] = "walk"
  BY TypedIs DEF NodeInv, AtNode
<1>2. PICK q \in Seq(Nodes) : q = tq[s]
  BY <1>1 DEF StoreTypes
<1>3. q # << >> /\ SetQueue(s, Tail(q))
  BY <1>2 DEF AtNode
<1>4. PICK n \in Nodes : n = Head(q) /\ Has(q, n)
  BY <1>3, QueueTail
<1>5. NodeAt(n) /\ node[n] \in TqNode
  BY <1>1 DEF NodeInv, StoreTypes
<1>6. node[n].sched = s /\ (node[n].dirty \/ (OfTin(n) /\ ~node[n].released))
  BY <1>2, <1>4, <1>5 DEF NodeAt, QueueAt
<1>7. PICK w \in Seq(Nodes) : w = Tail(q)
  BY <1>3, QueueTail
<1>8. tq'[s] = w /\ \A t \in Scheds : t # s => tq'[t] = tq[t]
  BY <1>1, <1>3, <1>7, QueueSet DEF Typed
<1>9. (\A m : Has(w, m) => Has(q, m)) /\ (\A m : Once(q, m) => Once(w, m)) /\ (Once(q, n) => ~Has(w, n))
  BY <1>3, <1>4, <1>7, QueueTail
<1>10. \A t \in Scheds : ~Has(tq'[t], n) /\ Once(tq'[t], n)
  BY <1>2, <1>5, <1>6, <1>8, <1>9 DEF NodeAt, QueueAt
<1>11. \A t \in Scheds : ~Walks(t, n)
  <2>1. ASSUME NEW t \in Scheds, Walks(t, n) PROVE FALSE
    <3>1. t = s /\ ~Has(tq[s], n)
      BY <1>5, <1>6, <2>1 DEF NodeAt, WalkAt
    <3> QED BY <1>2, <1>4, <3>1
  <2> QED BY <2>1
<1> QED BY <1>1, <1>2, <1>4, <1>5, <1>6, <1>8, <1>9, <1>10, <1>11

(* A process in TIN wakes; nobody else has its node. *)
LEMMA WalkTinStep ==
  ASSUME NodeInv, OneRunner, NEW s \in Scheds, WalkTin(s), Typed'
  PROVE  NodeInv'
<1>1. WordTypes /\ StoreTypes /\ ControlTypes /\ Typed
  BY TypedIs DEF NodeInv
<1>2. AtNode(s)
  BY DEF WalkTin
<1>3. PICK n \in Nodes :
           /\ n = Head(tq[s]) /\ NodeAt(n) /\ node[n] \in TqNode /\ pc[s] = "walk"
           /\ node[n].sched = s /\ (node[n].dirty \/ (OfTin(n) /\ ~node[n].released))
           /\ \A t \in Scheds : ~Has(tq'[t], n) /\ Once(tq'[t], n) /\ ~Walks(t, n)
           /\ \A t \in Scheds : t # s => tq'[t] = tq[t]
           /\ \A m : (Has(tq'[s], m) => Has(tq[s], m)) /\ (Once(tq[s], m) => Once(tq'[s], m))
  BY <1>2, HeadFacts
<1>4. /\ OfTin(n) /\ SetNode(n, Release(node[n]))
      /\ UNCHANGED <<pc, cur, iptr, tlink, tn>>
  BY <1>3 DEF WalkTin, OfTin, altAll, procVars
<1>5. (\A q \in Procs : tlink[q] # n) /\ \A t \in Scheds : ~Disables(t, n)
  BY <1>3, <1>4 DEF NodeAt, HeldAt
<1>6. Release(node[n]) \in TqNode
  BY <1>3, ReleaseFacts
<1>7. \A m \in Nodes : m # n => node'[m] = node[m]
  BY <1>1, <1>4, <1>6, NodeSet DEF Typed
<1>8. \A t \in Scheds : ~Walks(t, n)' /\ ~Disables(t, n)'
  BY <1>3, <1>4, <1>5 DEF Walks, Disables
<1>9. NodeAt(n)'
  BY <1>3, <1>4, <1>5, <1>8 DEF NodeAt, QueueAt, WalkAt, HeldAt
<1>10. tn'[s] = NoNode
  BY <1>1, <1>3, <1>4 DEF ControlTypes, HandAt, WalkLabels, DistLabels
<1>11. Moves(s, n)
  BY <1>3, <1>4, <1>7, <1>10 DEF Moves
<1>12. CasAt(s)'
  BY <1>3, <1>4 DEF CasAt
<1> QED BY <1>5, <1>9, <1>11, <1>12, MoveStep

(* The node of an ALT is stamped and is in the hands of the walk. *)
LEMMA WalkAltStep ==
  ASSUME NodeInv, OneRunner, NEW s \in Scheds, WalkAlt(s), Typed'
  PROVE  NodeInv'
<1>1. WordTypes /\ StoreTypes /\ ControlTypes /\ Typed
  BY TypedIs DEF NodeInv
<1>2. AtNode(s)
  BY DEF WalkAlt
<1>3. PICK n \in Nodes :
           /\ n = Head(tq[s]) /\ NodeAt(n) /\ node[n] \in TqNode /\ pc[s] = "walk"
           /\ node[n].sched = s /\ (node[n].dirty \/ (OfTin(n) /\ ~node[n].released))
           /\ \A t \in Scheds : ~Has(tq'[t], n) /\ Once(tq'[t], n) /\ ~Walks(t, n)
           /\ \A t \in Scheds : t # s => tq'[t] = tq[t]
           /\ \A m : (Has(tq'[s], m) => Has(tq[s], m)) /\ (Once(tq[s], m) => Once(tq'[s], m))
  BY <1>2, HeadFacts
<1>4. PICK t \in Time : t = now[s]
  BY <1>1 DEF WordTypes
<1>5. /\ node[n].wptr.alt /\ SetNode(n, [node[n] EXCEPT !.time = t])
      /\ tn' = [tn EXCEPT ![s] = n] /\ pc' = [pc EXCEPT ![s] = "walk_swap"]
      /\ UNCHANGED <<cur, iptr, tlink>>
  BY <1>3, <1>4 DEF WalkAlt, Goto, altAll, procVars
<1>6. ~OfTin(n) /\ node[n].dirty
  BY <1>3, <1>5 DEF OfTin
<1>7. PICK d \in TqNode : d = [node[n] EXCEPT !.time = t]
  BY <1>3, StampFacts
<1>8. d.wptr = node[n].wptr /\ d.dirty = node[n].dirty /\ d.released = node[n].released /\ d.sched = node[n].sched
  BY <1>3, <1>7, StampFacts
<1>9. node'[n] = d /\ \A m \in Nodes : m # n => node'[m] = node[m]
  BY <1>1, <1>5, <1>7, NodeSet DEF Typed
<1>10. /\ tn'[s] = n /\ pc'[s] = "walk_swap"
       /\ \A u \in Scheds : u # s => pc'[u] = pc[u] /\ tn'[u] = tn[u]
  BY <1>1, <1>5 DEF WordTypes, ControlTypes
<1>11. \A u \in Scheds : (Walks(u, n)' => u = s) /\ (Disables(u, n)' => Disables(u, n))
  BY <1>3, <1>10 DEF Walks, Disables, DistLabels
<1>12. ~OfTin(n)'
  BY <1>6, <1>8, <1>9 DEF OfTin, Live
<1>13. QueueAt(n)'
  BY <1>3 DEF QueueAt
<1>14. WalkAt(n)'
  BY <1>3, <1>6, <1>8, <1>9, <1>11 DEF WalkAt
<1>15. HeldAt(n)'
  BY <1>3, <1>5, <1>8, <1>9, <1>11, <1>12 DEF NodeAt, HeldAt
<1>16. Moves(s, n)
  BY <1>3, <1>5, <1>9, <1>10 DEF Moves
<1>17. CasAt(s)'
  BY <1>10 DEF CasAt
<1> QED BY <1>8, <1>9, <1>13, <1>14, <1>15, <1>16, <1>17, MoveStep DEF NodeAt

(* A dead node is cleaned. *)
LEMMA WalkDeadStep ==
  ASSUME NodeInv, OneRunner, NEW s \in Scheds, WalkDead(s), Typed'
  PROVE  NodeInv'
<1>1. WordTypes /\ StoreTypes /\ ControlTypes /\ Typed
  BY TypedIs DEF NodeInv
<1>2. AtNode(s)
  BY DEF WalkDead
<1>3. PICK n \in Nodes :
           /\ n = Head(tq[s]) /\ NodeAt(n) /\ node[n] \in TqNode /\ pc[s] = "walk"
           /\ node[n].sched = s /\ (node[n].dirty \/ (OfTin(n) /\ ~node[n].released))
           /\ \A t \in Scheds : ~Has(tq'[t], n) /\ Once(tq'[t], n) /\ ~Walks(t, n)
           /\ \A t \in Scheds : t # s => tq'[t] = tq[t]
           /\ \A m : (Has(tq'[s], m) => Has(tq[s], m)) /\ (Once(tq[s], m) => Once(tq'[s], m))
  BY <1>2, HeadFacts
<1>4. /\ ~Live(n) /\ ~OfTin(n) /\ SetNode(n, Clean(node[n]))
      /\ UNCHANGED <<pc, cur, iptr, tlink, tn>>
  BY <1>3 DEF WalkDead, OfTin, altAll, procVars, schedVars
<1>5. Clean(node[n]) \in TqNode
  BY <1>3, CleanFacts
<1>6. node'[n] = Clean(node[n]) /\ \A m \in Nodes : m # n => node'[m] = node[m]
  BY <1>1, <1>4, <1>5, NodeSet DEF Typed
<1>7. \A t \in Scheds : ~Walks(t, n)' /\ (Disables(t, n)' => Disables(t, n))
  BY <1>3, <1>4 DEF Walks, Disables
<1>8. NodeAt(n)' /\ \A q \in Procs : tlink[q] = n => node'[n].sched = node[n].sched
  <2>1. \A q \in Procs : tlink'[q] = n => tlink[q] = n
    BY <1>4
  <2>2. \A t \in Scheds : /\ ~Has(tq'[t], n) /\ Once(tq'[t], n)
                          /\ ~Walks(t, n)' /\ (Disables(t, n)' => Disables(t, n))
    BY <1>3, <1>7
  <2> QED BY <1>3, <1>4, <1>6, <2>1, <2>2, CleanedNode
<1>9. tn'[s] = NoNode
  BY <1>1, <1>3, <1>4 DEF ControlTypes, HandAt, WalkLabels, DistLabels
<1>10. Moves(s, n)
  BY <1>3, <1>4, <1>6, <1>9 DEF Moves
<1>11. CasAt(s)'
  BY <1>3, <1>4 DEF CasAt
<1> QED BY <1>8, <1>10, <1>11, MoveStep

(* The node that the walk has taken out. *)
LEMMA WalkFacts ==
  ASSUME NodeInv, NEW s \in Scheds, pc[s] \in WalkLabels
  PROVE  \E n \in Nodes :
           /\ n = tn[s] /\ NodeAt(n) /\ node[n] \in TqNode /\ Walks(s, n)
           /\ node[n].dirty /\ node[n].sched = s
           /\ \A t \in Scheds : ~Has(tq[t], n) /\ (Walks(t, n) => t = s)
<1>1. HandAt(s) /\ tn \in [Scheds -> Nodes \cup {NoNode}] /\ node \in [Nodes -> TqNode]
  BY DEF NodeInv, Typed, TimerTypeOK
<1>2. tn[s] \in Nodes
  BY <1>1 DEF HandAt
<1>3. NodeAt(tn[s]) /\ Walks(s, tn[s])
  BY <1>2 DEF NodeInv, Walks
<1>4. node[tn[s]].dirty /\ node[tn[s]].sched = s /\ ~Has(tq[s], tn[s])
  BY <1>3 DEF NodeAt, WalkAt
<1>5. \A t \in Scheds : ~Has(tq[t], tn[s]) /\ (Walks(t, tn[s]) => t = s)
  BY <1>3, <1>4 DEF NodeAt, WalkAt, QueueAt
<1> QED BY <1>1, <1>2, <1>3, <1>4, <1>5

(* The challenge: the workspace is swapped out of the node. *)
LEMMA WalkSwapStep ==
  ASSUME NodeInv, OneRunner, NEW s \in Scheds, WalkSwap(s), Typed'
  PROVE  NodeInv'
<1>1. WordTypes /\ StoreTypes /\ ControlTypes /\ Typed
  BY TypedIs DEF NodeInv
<1>2. pc[s] \in WalkLabels
  BY DEF WalkSwap, WalkLabels
<1>3. PICK n \in Nodes :
           /\ n = tn[s] /\ NodeAt(n) /\ node[n] \in TqNode /\ Walks(s, n)
           /\ node[n].dirty /\ node[n].sched = s
           /\ \A t \in Scheds : ~Has(tq[t], n) /\ (Walks(t, n) => t = s)
  BY <1>2, WalkFacts
<1>4. /\ SetNode(n, [node[n] EXCEPT !.wptr = Empty]) /\ UNCHANGED <<tlink, tn, tq, iptr, cur>>
      /\ \/ pc' = [pc EXCEPT ![s] = "walk_trigger"]
         \/ pc' = [pc EXCEPT ![s] = "walk_clean"]
  BY <1>3 DEF WalkSwap, Goto, procVars
<1>5. PICK d \in TqNode : d = [node[n] EXCEPT !.wptr = Empty]
  BY <1>3, DeadFacts
<1>6. d.wptr = Empty /\ d.dirty = node[n].dirty /\ d.released = node[n].released /\ d.sched = node[n].sched
  BY <1>3, <1>5, DeadFacts
<1>7. node'[n] = d /\ \A m \in Nodes : m # n => node'[m] = node[m]
  BY <1>1, <1>4, <1>5, NodeSet DEF Typed
<1>8. pc'[s] \in {"walk_trigger", "walk_clean"} /\ \A t \in Scheds : t # s => pc'[t] = pc[t]
  BY <1>1, <1>4 DEF ControlTypes
<1>9. \A t \in Scheds : (Walks(t, n)' => t = s) /\ (Disables(t, n)' => Disables(t, n))
  BY <1>3, <1>4, <1>8 DEF Walks, Disables, DistLabels
<1>10. ~OfTin(n)'
  BY <1>6, <1>7 DEF OfTin, Live
<1>11. QueueAt(n)'
  BY <1>3, <1>4 DEF NodeAt, QueueAt
<1>12. WalkAt(n)'
  BY <1>3, <1>4, <1>6, <1>7, <1>9 DEF WalkAt
<1>13. HeldAt(n)'
  BY <1>3, <1>4, <1>6, <1>7, <1>9, <1>10 DEF NodeAt, HeldAt
<1>14. Moves(s, n)
  BY <1>3, <1>4, <1>7, <1>8 DEF Moves
<1>15. CasAt(s)'
  BY <1>8 DEF CasAt
<1> QED BY <1>6, <1>7, <1>11, <1>12, <1>13, <1>14, <1>15, MoveStep DEF NodeAt

(* The walk is done with the node it has challenged. *)
LEMMA WalkCleanStep ==
  ASSUME NodeInv, OneRunner, NEW s \in Scheds, WalkClean(s), Typed'
  PROVE  NodeInv'
<1>1. WordTypes /\ StoreTypes /\ ControlTypes /\ Typed
  BY TypedIs DEF NodeInv
<1>2. pc[s] \in WalkLabels
  BY DEF WalkClean, WalkLabels
<1>3. PICK n \in Nodes :
           /\ n = tn[s] /\ NodeAt(n) /\ node[n] \in TqNode /\ Walks(s, n)
           /\ node[n].dirty /\ node[n].sched = s
           /\ \A t \in Scheds : ~Has(tq[t], n) /\ (Walks(t, n) => t = s)
  BY <1>2, WalkFacts
<1>4. /\ SetNode(n, Clean(node[n])) /\ tn' = [tn EXCEPT ![s] = NoNode] /\ pc' = [pc EXCEPT ![s] = "walk"]
      /\ UNCHANGED <<tlink, tq, iptr, cur>>
  BY <1>3 DEF WalkClean, Goto, altAll, procVars
<1>5. Clean(node[n]) \in TqNode
  BY <1>3, CleanFacts
<1>6. node'[n] = Clean(node[n]) /\ \A m \in Nodes : m # n => node'[m] = node[m]
  BY <1>1, <1>4, <1>5, NodeSet DEF Typed
<1>7. /\ tn'[s] = NoNode /\ pc'[s] = "walk"
      /\ \A t \in Scheds : t # s => pc'[t] = pc[t] /\ tn'[t] = tn[t]
  BY <1>1, <1>4 DEF WordTypes, ControlTypes
<1>8. \A t \in Scheds : ~Walks(t, n)' /\ (Disables(t, n)' => Disables(t, n))
  BY <1>3, <1>7, TimeFacts DEF Walks, Disables
<1>9. \A t \in Scheds : ~Has(tq'[t], n) /\ Once(tq'[t], n)
  BY <1>3, <1>4 DEF NodeAt, QueueAt
<1>10. NodeAt(n)' /\ \A q \in Procs : tlink[q] = n => node'[n].sched = node[n].sched
  <2>1. \A q \in Procs : tlink'[q] = n => tlink[q] = n
    BY <1>4
  <2>2. \A t \in Scheds : /\ ~Has(tq'[t], n) /\ Once(tq'[t], n)
                          /\ ~Walks(t, n)' /\ (Disables(t, n)' => Disables(t, n))
    BY <1>8, <1>9
  <2> QED BY <1>3, <1>6, <2>1, <2>2, CleanedNode
<1>11. Moves(s, n)
  BY <1>4, <1>6, <1>7 DEF Moves
<1>12. CasAt(s)'
  BY <1>7 DEF CasAt
<1> QED BY <1>10, <1>11, <1>12, MoveStep

(* clean_timer_queue cleans several nodes, all of its own queue. *)
LEMMA CleanStep ==
  ASSUME NodeInv, OneRunner, NEW s \in Scheds, CleanTimerQueue(s), Typed'
  PROVE  NodeInv'
<1>1. WordTypes /\ StoreTypes /\ ControlTypes /\ Typed
  BY TypedIs DEF NodeInv
<1>2. PICK dead \in SUBSET Nodes :
        /\ \A n \in Nodes : n \in dead <=> Has(tq[s], n) /\ ~Live(n)
        /\ SetQueue(s, Without(tq[s], dead))
        /\ node' = [n \in Nodes |-> IF n \in dead THEN Clean(node[n]) ELSE node[n]]
  <2> DEFINE d == {n \in Nodes : \E i \in DOMAIN tq[s] : tq[s][i] = n /\ ~Live(n)}
  <2>1. SetQueue(s, Without(tq[s], d)) /\ node' = [n \in Nodes |-> IF n \in d THEN Clean(node[n]) ELSE node[n]]
    BY DEF CleanTimerQueue
  <2>2. d \in SUBSET Nodes /\ \A n \in Nodes : n \in d <=> Has(tq[s], n) /\ ~Live(n)
    BY DEF Has
  <2> HIDE DEF d
  <2> QED BY <2>1, <2>2
<1>3. pc[s] = "sched" /\ UNCHANGED <<pc, cur, iptr, tlink, tn>>
  BY DEF CleanTimerQueue, schedVars, altAll, procVars
<1>4. PICK w \in Seq(Nodes) : w = Without(tq[s], dead)
  BY <1>1, WithoutFacts DEF StoreTypes
<1>5. (\A m : Has(w, m) => Has(tq[s], m) /\ m \notin dead) /\ \A m : Once(tq[s], m) => Once(w, m)
  BY <1>1, <1>4, WithoutFacts DEF StoreTypes
<1>6. tq'[s] = w /\ \A t \in Scheds : t # s => tq'[t] = tq[t]
  BY <1>1, <1>2, <1>4, QueueSet DEF Typed
<1>7. \A t \in Scheds, m \in Nodes : /\ Has(tq'[t], m) => Has(tq[t], m)
                                     /\ Once(tq[t], m) => Once(tq'[t], m)
  BY <1>5, <1>6
<1>8. \A t \in Scheds, m \in Nodes : (Walks(t, m)' <=> Walks(t, m)) /\ (Disables(t, m)' <=> Disables(t, m))
  BY <1>3 DEF Walks, Disables
<1>9. ASSUME NEW n \in dead
      PROVE  node[n].sched = s /\ NodeAt(n)'
  <2>1. Has(tq[s], n) /\ ~Live(n) /\ NodeAt(n) /\ node[n] \in TqNode /\ node'[n] = Clean(node[n])
    BY <1>1, <1>2 DEF NodeInv, StoreTypes
  <2>2. node[n].sched = s /\ \A t \in Scheds : Has(tq[t], n) => t = s
    BY <2>1 DEF NodeAt, QueueAt
  <2>3. \A t \in Scheds : ~Has(tq'[t], n)
    BY <1>5, <1>6, <2>2
  <2>4. \A t \in Scheds : ~Walks(t, n)'
    BY <1>8, <2>1, <2>2 DEF NodeAt, WalkAt
  <2>5. \A t \in Scheds : /\ ~Has(tq'[t], n) /\ Once(tq'[t], n)
                          /\ ~Walks(t, n)' /\ (Disables(t, n)' => Disables(t, n))
    BY <1>7, <1>8, <2>1, <2>3, <2>4 DEF NodeAt, QueueAt
  <2>6. \A q \in Procs : tlink'[q] = n => tlink[q] = n
    BY <1>3
  <2>7. NodeAt(n)'
    BY <2>1, <2>5, <2>6, CleanedNode
  <2> QED BY <2>2, <2>7
<1>10. ASSUME NEW m \in Nodes \ dead PROVE node'[m] = node[m] /\ NodeAt(m)'
  <2>1. node'[m] = node[m] /\ NodeAt(m)
    BY <1>2 DEF NodeInv
  <2>2. \A t \in Scheds : /\ Has(tq'[t], m) => Has(tq[t], m)
                          /\ Once(tq[t], m) => Once(tq'[t], m)
                          /\ Walks(t, m)' => Walks(t, m)
                          /\ Disables(t, m)' => Disables(t, m)
    BY <1>7, <1>8
  <2>3. \A q \in Procs : tlink'[q] = m => tlink[q] = m
    BY <1>3
  <2> QED BY <2>1, <2>2, <2>3, SameNode
<1>11. ASSUME NEW t \in Scheds PROVE CasAt(t)'
  <2>1. CASE pc[t] # "taltwt_cas"
    BY <1>3, <2>1 DEF CasAt
  <2>2. CASE pc[t] = "taltwt_cas"
    <3>1. t # s
      BY <1>3, <2>2
    <3>2. tlink[cur[t]] \in Nodes /\ node[tlink[cur[t]]].sched = t
      BY <2>2, <3>1, OtherCas
    <3>3. tlink[cur[t]] \notin dead
      BY <1>9, <3>1, <3>2
    <3>4. node'[tlink[cur[t]]] = node[tlink[cur[t]]]
      BY <1>10, <3>2, <3>3
    <3> QED BY <1>3, <3>4, SameCas DEF NodeInv
  <2> QED BY <2>1, <2>2
<1> QED BY <1>9, <1>10, <1>11 DEF NodeInv

-----------------------------------------------------------------------------
(***************************************************************************)
(* Nodes are not reused.                                                   *)
(***************************************************************************)
(* The clock, and steps of nobody. *)
LEMMA StutterNode == ASSUME NodeInv, Tick \/ UNCHANGED tvars, Typed' PROVE NodeInv'
<1>1. UNCHANGED <<pc, cur, iptr, tlink, tq, node, tn>>
  BY DEF Tick, tvars, vars, schedVars, procVars, timerVars
<1>2. ASSUME NEW m \in Nodes PROVE NodeAt(m)'
  <2>1. NodeAt(m)
    BY DEF NodeInv
  <2>2. \A t \in Scheds : (Walks(t, m)' => Walks(t, m)) /\ (Disables(t, m)' => Disables(t, m))
    BY <1>1 DEF Walks, Disables
  <2> QED BY <1>1, <2>1, <2>2, SameNode
<1>3. ASSUME NEW t \in Scheds PROVE CasAt(t)'
  BY <1>1 DEF NodeInv, CasAt
<1> QED BY <1>2, <1>3 DEF NodeInv

(* Every step keeps the invariant, as long as a process is run by one *)
(* scheduler.                                                         *)
LEMMA NodeStep == ASSUME NodeInv, OneRunner, [TimerNext]_tvars PROVE NodeInv'
<1>0. Typed'
  BY TypedStep DEF NodeInv
<1>1. CASE Tick \/ UNCHANGED tvars
  BY <1>0, <1>1, StutterNode
<1>2. ASSUME NEW s \in Scheds, TimerStep(s) PROVE NodeInv'
  <2>1. CASE AltStep(s) \/ WalkDone(s) \/ WalkTrigger(s) \/ WalkEnqueue(s)
    <3>1. Quiet(s)
      BY <2>1, AltQuiet, WalkDoneQuiet, WalkTriggerQuiet, WalkEnqueueQuiet
    <3> QED BY <1>0, <3>1, QuietNode
  <2>2. CASE WalkTin(s) \/ WalkAlt(s) \/ WalkDead(s)
    BY <1>0, <2>2, WalkTinStep, WalkAltStep, WalkDeadStep
  <2>3. CASE WalkSwap(s) \/ WalkClean(s)
    BY <1>0, <2>3, WalkSwapStep, WalkCleanStep
  <2>4. ASSUME NEW p \in Procs,
               \/ Ldtimer(s, p)
               \/ \E d \in TinDelays : TinPast(s, p, d)
               \/ \E a \in Alts[p] : Talt(s, p, a)
               \/ EnbtReady(s, p) \/ Enbt(s, p) \/ TaltWtReady(s, p) \/ TaltWtClear(s, p)
               \/ DistNoNode(s, p) \/ DistSync(s, p)
        PROVE  NodeInv'
    <3>1. Quiet(s)
      BY <2>4, LdtimerQuiet, TinPastQuiet, TaltQuiet, EnbtReadyQuiet, EnbtQuiet, TaltWtReadyQuiet,
         TaltWtClearQuiet, DistNoNodeQuiet, DistSyncQuiet
    <3> QED BY <1>0, <3>1, QuietNode
  <2>5. ASSUME NEW p \in Procs,
               \/ \E d \in TinDelays : \E n \in Nodes : Tin(s, p, d, n)
               \/ \E n \in Nodes : TaltWt(s, p, n)
               \/ TaltWtCas(s, p) \/ Dist(s, p) \/ DistSwap(s, p) \/ DistDec(s, p)
        PROVE  NodeInv'
    BY <1>0, <2>5, TinStep, TaltWtStep, TaltWtCasStep, DistStep, DistSwapStep, DistDecStep
  <2> QED BY <1>2, <2>1, <2>2, <2>3, <2>4, <2>5 DEF TimerStep
<1>3. ASSUME NEW s \in Scheds, CheckTimerQueue(s) PROVE NodeInv'
  BY <1>0, <1>3, CheckTimerQueueQuiet, QuietNode
<1>4. ASSUME NEW s \in Scheds, SyncTq(s) \/ IdleClean(s) PROVE NodeInv'
  BY <1>0, <1>4, CleanStep DEF SyncTq, IdleClean
<1>5. ASSUME NEW s \in Scheds, NEW p \in Procs, TimerResume(s, p) PROVE NodeInv'
  BY <1>0, <1>5, TimerResumeQuiet, QuietNode
<1> QED BY <1>1, <1>2, <1>3, <1>4, <1>5 DEF TimerNext

(* At first no node is used. *)
LEMMA InitNode == ASSUME TimerInit PROVE NodeInv
<1>1. Typed
  BY InitTyped
<1>2. /\ tlink = [p \in Procs |-> NotSet] /\ tn = [s \in Scheds |-> NoNode]
      /\ tq = [s \in Scheds |-> << >>] /\ pc = [s \in Scheds |-> "sched"]
  BY DEF TimerInit, Init, SchedInit
<1>3. \A n : Once(<< >>, n) /\ ~Has(<< >>, n)
  BY DEF Once, Has
<1>4. ASSUME NEW n \in Nodes PROVE NodeAt(n)
  BY <1>2, <1>3, TimeFacts DEF NodeAt, QueueAt, WalkAt, HeldAt, Walks, Disables
<1>5. \A s \in Scheds : CasAt(s)
  BY <1>2 DEF CasAt
<1> QED BY <1>1, <1>4, <1>5 DEF NodeInv

(* Allocatable nodes are nobody's, dead nodes in queues are dirty. *)
LEMMA NodeUse == ASSUME NodeInv PROVE NodeNotReused
<1> SUFFICES ASSUME NEW n \in Nodes
             PROVE  /\ Allocatable(n) =>
                         /\ ~Queued(n)
                         /\ \A p \in Procs : tlink[p] # n
                         /\ \A s \in Scheds : tn[s] # n
                    /\ Queued(n) /\ ~Live(n) => node[n].dirty
  BY DEF NodeNotReused
<1>1. Queued(n) <=> \E s \in Scheds : Has(tq[s], n)
  BY DEF Queued, Has
<1>2. CASE Allocatable(n)
  <2>1. /\ \A t \in Scheds : ~Has(tq[t], n) /\ tn[t] # n
        /\ \A p \in Procs : tlink[p] # n
    BY <1>2, AllocatableFacts
  <2> QED BY <1>1, <2>1
<1>3. Queued(n) /\ ~Live(n) => node[n].dirty
  BY <1>1 DEF NodeInv, NodeAt, QueueAt, OfTin
<1> QED BY <1>1, <1>2, <1>3

-----------------------------------------------------------------------------
(***************************************************************************)
(* Timers and ALTs together.  The invariant of CcspAltProofs holds with    *)
(* what timers add to it: the reference that the node of an ALT holds      *)
(* until the walk or the disabling takes the workspace out of it, and the  *)
(* processes asleep in TIN.  What links the two is whose a node is.        *)
(***************************************************************************)
HasNode(p) == \E n \in Nodes : node[n].wptr = AltPtr(p)
NodeRef(p) ==
  IF (HasNode(p) /\ ~Runs(p, {"taltwt_cas"})) \/ Runs(p, {"dist_sync", "dist_dec"}) THEN 1 ELSE 0
TimersNow == [refs |-> [p \in Procs |-> NodeRef(p)], tin |-> {p \in Procs : wait[p] # NoTime}]
AltInv == \E tm : tm = TimersNow /\ IInv(tm)

(* A node with the workspace of an ALT is where somebody will take it out. *)
Somewhere(n) ==
  \E s \in Scheds : Has(tq[s], n) \/ (tn[s] = n /\ pc[s] \in {"walk_swap", "dist_dec"})

(* Whose a node is, by its workspace: of an ALT that has it in TLink or is *)
(* disabling its guard, or of a TIN, which has no other node.              *)
OwnerAt(n) ==
  /\ Live(n) => \E p \in Procs : node[n].wptr \in {Wptr(p), AltPtr(p)}
  /\ \A p \in Procs : node[n].wptr = AltPtr(p) =>
       /\ tlink[p] = n \/ \E s \in Scheds : cur[s] = p /\ Disables(s, n)
       /\ Somewhere(n)
  /\ \A p \in Procs : node[n].wptr = Wptr(p) =>
       /\ wait[p] # NoTime /\ ~node[n].dirty
       /\ \A m \in Nodes : node[m].wptr = Wptr(p) => m = n
  /\ \A s \in Scheds : Disables(s, n) /\ Live(n) =>
       pc[s] # "dist_sync" /\ (pc[s] = "dist_dec" => ~node[n].dirty)

(* A process has a node while it goes to sleep in TALTWT and until it      *)
(* disables its first timer guard.                                         *)
TimerTodo(p) == \E g \in Elems(todo[p]) : g \in Timers
LinkAt(p) ==
  tlink[p] \in Nodes =>
    \/ iptr[p] = "altwt" /\ Runs(p, {"taltwt_cas"})
    \/ iptr[p] = "disable" /\ TimerTodo(p)

(* What a scheduler has in its hands. *)
HandsAt(s) ==
  /\ pc[s] \in DistLabels => tlink[cur[s]] \notin Nodes
  /\ pc[s] \in {"taltwt_cas", "taltwt_clear"} => Timed(guards[cur[s]])
  /\ pc[s] = "taltwt_cas" => node[tlink[cur[s]]].wptr = AltPtr(cur[s])

Link ==
  /\ \A n \in Nodes : OwnerAt(n)
  /\ \A p \in Procs : LinkAt(p)
  /\ \A s \in Scheds : HandsAt(s)

TimerInv == AltInv /\ NodeInv /\ Link

(* A process is run by one scheduler. *)
LEMMA OneRuns == ASSUME AltInv PROVE OneRunner
<1>1. PICK tm : tm = TimersNow /\ IInv(tm)
  BY DEF AltInv
<1>2. \A p \in Procs : OnceAt(p)
  BY <1>1 DEF IInv
<1> QED BY <1>2 DEF OneRunner, OnceAt, On

(* A process has at most one node: the one in TLink or the one whose guard *)
(* it disables, and never both.                                            *)
LEMMA OwnNode ==
  ASSUME TimerInv, NEW p \in Procs, NEW n \in Nodes, node[n].wptr = AltPtr(p)
  PROVE  /\ \A m \in Nodes : node[m].wptr = AltPtr(p) => m = n
         /\ tlink[p] # n => \E s \in Scheds : cur[s] = p /\ Disables(s, n)
         /\ Live(n) /\ ~OfTin(n) /\ Somewhere(n)
         /\ \A s \in Scheds : cur[s] = p /\ pc[s] \in DistLabels => Disables(s, n)
         /\ iptr[p] \in {"altwt", "disable"}
         /\ \A q \in Procs : tlink[q] = n => q = p
         /\ \A s \in Scheds : Disables(s, n) => cur[s] = p
<1>1. AltInv /\ NodeInv /\ Link /\ OneRunner
  BY OneRuns DEF TimerInv
<1>2. \A m \in Nodes : OwnerAt(m) /\ HeldAt(m)
  BY <1>1 DEF Link, NodeInv, NodeAt
<1>3. \A s \in Scheds : HandsAt(s) /\ (pc[s] \in DistLabels => iptr[cur[s]] = "disable" /\ cur[s] \in Procs)
  <2>1. PICK tm : tm = TimersNow /\ IInv(tm)
    BY <1>1 DEF AltInv
  <2>2. ASSUME NEW s \in Scheds, pc[s] \in DistLabels PROVE iptr[cur[s]] = "disable" /\ cur[s] \in Procs
    <3>1. RunAt(s)
      BY <2>1 DEF IInv
    <3>2. cur[s] \in Procs
      BY <2>1, <2>2, CurIs DEF DistLabels, IdleLabels
    <3> QED BY <2>2, <3>1, <3>2 DEF RunAt
  <2> QED BY <1>1, <2>2 DEF Link
<1>4. \A m \in Nodes : node[m].wptr = AltPtr(p) =>
        tlink[p] = m \/ \E s \in Scheds : cur[s] = p /\ Disables(s, m)
  BY <1>2 DEF OwnerAt
<1>5. ASSUME NEW m \in Nodes, node[m].wptr = AltPtr(p), NEW s \in Scheds, cur[s] = p, pc[s] \in DistLabels
      PROVE  Disables(s, m)
  <2>1. tlink[p] # m
    BY <1>3, <1>5 DEF HandsAt
  <2>2. PICK t \in Scheds : cur[t] = p /\ Disables(t, m)
    BY <1>4, <1>5, <2>1
  <2>3. t = s
    BY <1>1, <1>5, <2>2 DEF OneRunner
  <2> QED BY <2>2, <2>3
<1>6. ASSUME NEW m \in Nodes, node[m].wptr = AltPtr(p) PROVE m = n
  <2>1. CASE tlink[p] = n
    <3>1. CASE tlink[p] = m
      BY <2>1, <3>1
    <3>2. CASE tlink[p] # m
      <4>1. PICK t \in Scheds : cur[t] = p /\ Disables(t, m)
        BY <1>4, <1>6, <3>2
      <4> QED BY <1>3, <2>1, <4>1 DEF HandsAt, Disables
    <3> QED BY <3>1, <3>2
  <2>2. CASE tlink[p] # n
    <3>1. PICK t \in Scheds : cur[t] = p /\ Disables(t, n)
      BY <1>4, <2>2
    <3>2. Disables(t, m)
      BY <1>5, <1>6, <3>1 DEF Disables
    <3> QED BY <3>1, <3>2 DEF Disables
  <2> QED BY <2>1, <2>2
<1>7. Live(n) /\ ~OfTin(n) /\ Somewhere(n)
  BY <1>2, WordFacts DEF Live, OfTin, OwnerAt
<1>8. iptr[p] \in {"altwt", "disable"}
  <2>1. CASE tlink[p] = n
    BY <1>1, <2>1 DEF Link, LinkAt
  <2>2. CASE tlink[p] # n
    <3>1. PICK t \in Scheds : cur[t] = p /\ Disables(t, n)
      BY <1>4, <2>2
    <3> QED BY <1>3, <3>1 DEF Disables
  <2> QED BY <2>1, <2>2
<1>9. /\ \A q \in Procs : tlink[q] = n => q = p
      /\ \A s \in Scheds : Disables(s, n) => cur[s] = p
  <2>1. CASE tlink[p] = n
    BY <1>2, <2>1 DEF HeldAt
  <2>2. CASE tlink[p] # n
    <3>1. PICK t \in Scheds : cur[t] = p /\ Disables(t, n)
      BY <1>4, <2>2
    <3> QED BY <1>2, <3>1 DEF HeldAt
  <2> QED BY <2>1, <2>2
<1> QED BY <1>4, <1>5, <1>6, <1>7, <1>8, <1>9

-----------------------------------------------------------------------------
(***************************************************************************)
(* What a step leaves of the links.                                        *)
(***************************************************************************)
(* A dead node has no owner. *)
LEMMA DeadOwner == ASSUME NEW n \in Nodes, node'[n].wptr = Empty PROVE OwnerAt(n)'
<1>1. ~Live(n)' /\ \A p \in Procs : node'[n].wptr # AltPtr(p) /\ node'[n].wptr # Wptr(p)
  BY WordFacts DEF Live
<1> QED BY <1>1 DEF OwnerAt

(* A node that nobody touches. *)
LEMMA SameOwner ==
  ASSUME NEW m \in Nodes, OwnerAt(m), node'[m] = node[m],
         \A p \in Procs : node[m].wptr = AltPtr(p) /\ tlink[p] = m => tlink'[p] = m,
         \A p \in Procs, t \in Scheds : node[m].wptr = AltPtr(p) /\ cur[t] = p /\ Disables(t, m) =>
           cur'[t] = p /\ Disables(t, m)',
         Live(m) /\ Somewhere(m) => Somewhere(m)',
         \A p \in Procs : node[m].wptr = Wptr(p) => wait'[p] # NoTime,
         \A p \in Procs, k \in Nodes : node[m].wptr = Wptr(p) /\ node'[k].wptr = Wptr(p) =>
           node[k].wptr = Wptr(p),
         \A t \in Scheds : Live(m) /\ Disables(t, m)' =>
           Disables(t, m) /\ (pc'[t] \in {pc[t], "dist_swap"} \/ pc[t] = "dist_sync")
  PROVE  OwnerAt(m)'
<1>1. Live(m)' <=> Live(m)
  BY DEF Live
<1>2. Live(m)' => \E p \in Procs : node'[m].wptr \in {Wptr(p), AltPtr(p)}
  BY <1>1 DEF OwnerAt
<1>3. ASSUME NEW p \in Procs, node'[m].wptr = AltPtr(p)
      PROVE  /\ tlink'[p] = m \/ \E s \in Scheds : cur'[s] = p /\ Disables(s, m)'
             /\ Somewhere(m)'
  <2>1. node[m].wptr = AltPtr(p) /\ Live(m)
    BY <1>3, WordFacts DEF Live
  <2>2. (tlink[p] = m \/ \E s \in Scheds : cur[s] = p /\ Disables(s, m)) /\ Somewhere(m)
    BY <2>1 DEF OwnerAt
  <2> QED BY <2>1, <2>2
<1>4. ASSUME NEW p \in Procs, node'[m].wptr = Wptr(p)
      PROVE  /\ wait'[p] # NoTime /\ ~node'[m].dirty
             /\ \A k \in Nodes : node'[k].wptr = Wptr(p) => k = m
  BY <1>4 DEF OwnerAt
<1>5. ASSUME NEW t \in Scheds, Disables(t, m)', Live(m)'
      PROVE  pc'[t] # "dist_sync" /\ (pc'[t] = "dist_dec" => ~node'[m].dirty)
  <2>1. Disables(t, m) /\ (pc'[t] \in {pc[t], "dist_swap"} \/ pc[t] = "dist_sync")
    BY <1>1, <1>5
  <2>2. pc[t] # "dist_sync" /\ (pc[t] = "dist_dec" => ~node[m].dirty)
    BY <1>1, <1>5, <2>1 DEF OwnerAt
  <2> QED BY <2>1, <2>2
<1> QED BY <1>2, <1>3, <1>4, <1>5 DEF OwnerAt

(* A step of a scheduler that does nothing with nodes. *)
Aside(s) ==
  /\ UNCHANGED <<node, tn, tq, wait>>
  /\ \A t \in Scheds : t # s => pc'[t] = pc[t] /\ cur'[t] = cur[t]
  /\ \A q \in Procs : q # cur[s] =>
       iptr'[q] = iptr[q] /\ todo'[q] = todo[q] /\ guards'[q] = guards[q]
  /\ \A q \in Procs : tlink[q] \in Nodes \/ tlink'[q] \in Nodes => tlink'[q] = tlink[q]
  /\ pc[s] \notin {"walk_swap", "taltwt_cas", "dist_swap", "dist_dec"}
  /\ pc'[s] \notin {"walk_swap", "taltwt_cas", "dist_swap", "dist_sync"}
  /\ pc'[s] = "dist_dec" <=> pc[s] = "dist_sync"
  /\ pc[s] = "dist_sync" => cur'[s] = cur[s]
  /\ pc'[s] = "taltwt_clear" => Timed(guards[cur[s]])'
  /\ \A q \in Procs : q = cur[s] /\ tlink[q] \in Nodes /\ iptr[q] = "disable" /\ TimerTodo(q) =>
       iptr'[q] = "disable" /\ TimerTodo(q)'

(* A step aside leaves the references and the sleepers as they are.        *)
LEMMA AsideRefs ==
  ASSUME NEW s \in Scheds, Aside(s)
  PROVE  TimersNow' = TimersNow
<1>1. ASSUME NEW p \in Procs PROVE NodeRef(p)' = NodeRef(p)
  <2>1. HasNode(p)' <=> HasNode(p)
    BY DEF HasNode, Aside
  <2>2. Runs(p, {"taltwt_cas"})' <=> Runs(p, {"taltwt_cas"})
    BY DEF Runs, Aside
  <2>3. Runs(p, {"dist_sync", "dist_dec"})' <=> Runs(p, {"dist_sync", "dist_dec"})
    BY DEF Runs, Aside
  <2> QED BY <2>1, <2>2, <2>3 DEF NodeRef
<1>2. wait' = wait
  BY DEF Aside
<1> QED BY <1>1, <1>2 DEF TimersNow

(* A step aside leaves the nodes with their owners.                        *)
LEMMA AsideLink ==
  ASSUME TimerInv, NEW s \in Scheds, Aside(s)
  PROVE  Link'
<1>1. AltInv /\ NodeInv /\ Link /\ OneRunner
  BY OneRuns DEF TimerInv
<1>2. ASSUME NEW m \in Nodes PROVE OwnerAt(m)'
  <2>1. OwnerAt(m) /\ node'[m] = node[m]
    BY <1>1 DEF Link, Aside
  <2>2. \A t \in Scheds, p \in Procs : cur[t] = p /\ Disables(t, m) => cur'[t] = p /\ Disables(t, m)'
    BY DEF Disables, Aside, DistLabels
  <2>3. \A p \in Procs : tlink[p] = m => tlink'[p] = m
    BY DEF Aside
  <2>4. Somewhere(m) => Somewhere(m)'
    BY DEF Somewhere, Has, Aside
  <2>5. \A t \in Scheds : Disables(t, m)' =>
           Disables(t, m) /\ (pc'[t] \in {pc[t], "dist_swap"} \/ pc[t] = "dist_sync")
    BY DEF Disables, Aside, DistLabels
  <2>6. \A p \in Procs : node[m].wptr = Wptr(p) => wait'[p] # NoTime
    BY <2>1 DEF OwnerAt, Aside
  <2>7. \A k \in Nodes : node'[k] = node[k]
    BY DEF Aside
  <2> QED BY <2>1, <2>2, <2>3, <2>4, <2>5, <2>6, <2>7, SameOwner
<1>3. ASSUME NEW q \in Procs PROVE LinkAt(q)'
  <2>1. LinkAt(q)
    BY <1>1 DEF Link
  <2>2. Runs(q, {"taltwt_cas"}) => q # cur[s]
    BY <1>1 DEF Runs, Aside, OneRunner
  <2>3. Runs(q, {"taltwt_cas"}) => Runs(q, {"taltwt_cas"})'
    BY DEF Runs, Aside
  <2>4. q # cur[s] => (TimerTodo(q)' <=> TimerTodo(q))
    BY DEF TimerTodo, Aside, Elems
  <2> QED BY <2>1, <2>2, <2>3, <2>4 DEF LinkAt, Aside
<1>4. ASSUME NEW t \in Scheds PROVE HandsAt(t)'
  <2>1. HandsAt(t) /\ CasAt(t)
    BY <1>1 DEF Link, NodeInv
  <2>2. PICK tm : IInv(tm)
    BY <1>1 DEF AltInv
  <2>3. pc'[t] \in DistLabels => pc[t] \in DistLabels /\ cur'[t] = cur[t] /\ cur[t] \in Procs
    <3>1. pc'[t] \in DistLabels => pc[t] \in DistLabels /\ cur'[t] = cur[t]
      BY DEF Aside, DistLabels
    <3>2. pc[t] \in DistLabels => cur[t] \in Procs
      BY <2>2, CurIs DEF DistLabels, IdleLabels
    <3> QED BY <3>1, <3>2
  <2>4. pc'[t] \in DistLabels => tlink'[cur'[t]] \notin Nodes
    <3>1. \A q \in Procs : tlink[q] \notin Nodes => tlink'[q] \notin Nodes
      BY DEF Aside
    <3> QED BY <2>1, <2>3, <3>1 DEF HandsAt
  <2>6. ASSUME pc'[t] \in {"taltwt_cas", "taltwt_clear"} PROVE Timed(guards[cur[t]])'
    <3>1. CASE t = s
      BY <2>6, <3>1 DEF Aside
    <3>2. CASE t # s
      <4>1. pc[t] \in {"taltwt_cas", "taltwt_clear"} /\ cur'[t] = cur[t] /\ pc[t] \notin IdleLabels
        BY <2>6, <3>2 DEF Aside, IdleLabels
      <4>2. cur[t] \in Procs /\ cur[t] # cur[s]
        BY <1>1, <2>2, <3>2, <4>1, CurIs DEF OneRunner
      <4>3. guards'[cur[t]] = guards[cur[t]]
        BY <4>2 DEF Aside
      <4> QED BY <2>1, <4>1, <4>3 DEF HandsAt, Timed
    <3> QED BY <3>1, <3>2
  <2>5. ASSUME pc'[t] = "taltwt_cas" PROVE node'[tlink'[cur'[t]]].wptr = AltPtr(cur'[t])
    <3>1. t # s /\ pc[t] = "taltwt_cas" /\ cur'[t] = cur[t]
      BY <2>5 DEF Aside
    <3>2. cur[t] \in Procs /\ cur[t] # cur[s]
      BY <1>1, <2>1, <3>1 DEF CasAt, OneRunner
    <3>3. guards'[cur[t]] = guards[cur[t]] /\ tlink'[cur[t]] = tlink[cur[t]] /\ node' = node
      BY <2>1, <3>1, <3>2 DEF Aside, CasAt
    <3> QED BY <2>1, <3>1, <3>3 DEF HandsAt
  <2> QED BY <2>4, <2>5, <2>6 DEF HandsAt
<1> QED BY <1>2, <1>3, <1>4 DEF Link

(* A step of a scheduler with one node. *)
Handles(s, n) ==
  /\ \A m \in Nodes : m # n => node'[m] = node[m]
  /\ \A t \in Scheds : t # s => pc'[t] = pc[t] /\ cur'[t] = cur[t] /\ tn'[t] = tn[t] /\ tq'[t] = tq[t]
  /\ \A m \in Nodes : m # n /\ Has(tq[s], m) => Has(tq'[s], m)
  /\ tn[s] \in {NoNode, n} /\ tn'[s] \in {NoNode, n}
  /\ \A q \in Procs : q # cur[s] =>
       iptr'[q] = iptr[q] /\ todo'[q] = todo[q] /\ guards'[q] = guards[q] /\ tlink'[q] = tlink[q]
  /\ \A q \in Procs : q = cur[s] /\ tlink[q] \in Nodes \ {n} => tlink'[q] = tlink[q]
  /\ cur'[s] \in {cur[s], NotProcess}
  /\ \A p \in Procs : wait[p] # NoTime /\ wait'[p] = NoTime => node[n].wptr = Wptr(p)
  /\ \A p \in Procs : node'[n].wptr = Wptr(p) => node[n].wptr = Wptr(p) \/ wait[p] = NoTime
  /\ \A q \in Procs : q # cur[s] /\ tlink[q] = n => node[n].sched = s \/ node'[n].wptr = node[n].wptr

(* A step that handles one node leaves the other nodes with their owners:  *)
(* what is left to show is about that node, its scheduler and its process. *)
LEMMA HandledLink ==
  ASSUME TimerInv, NEW s \in Scheds, NEW n \in Nodes, Handles(s, n), OwnerAt(n)', HandsAt(s)',
         \A q \in Procs : q = cur[s] => LinkAt(q)'
  PROVE  Link'
<1>1. AltInv /\ NodeInv /\ Link /\ OneRunner
  BY OneRuns DEF TimerInv
<1>2. ASSUME NEW m \in Nodes, m # n PROVE OwnerAt(m)'
  <2>1. OwnerAt(m) /\ node'[m] = node[m] /\ m # NoNode
    BY <1>1, <1>2, TimeFacts DEF Link, Handles
  <2>2. tn[s] # m /\ tn'[s] # m
    BY <1>2, <2>1 DEF Handles
  <2>3. \A t \in Scheds, p \in Procs : cur[t] = p /\ Disables(t, m) => cur'[t] = p /\ Disables(t, m)'
    BY <2>2 DEF Disables, Handles
  <2>4. \A p \in Procs : tlink[p] = m => tlink'[p] = m
    BY <1>2 DEF Handles
  <2>5. Somewhere(m) => Somewhere(m)'
    <3>1. \A t \in Scheds : Has(tq[t], m) => Has(tq'[t], m)
      BY <1>2 DEF Handles
    <3>2. \A t \in Scheds : tn[t] = m => pc'[t] = pc[t] /\ tn'[t] = m
      BY <2>2 DEF Handles
    <3> QED BY <3>1, <3>2 DEF Somewhere
  <2>6. \A t \in Scheds : Disables(t, m)' =>
           Disables(t, m) /\ (pc'[t] \in {pc[t], "dist_swap"} \/ pc[t] = "dist_sync")
    BY <2>2 DEF Disables, Handles
  <2>7. ASSUME NEW p \in Procs, node[m].wptr = Wptr(p)
        PROVE  wait'[p] # NoTime /\ \A k \in Nodes : node'[k].wptr = Wptr(p) => node[k].wptr = Wptr(p)
    <3>1. wait[p] # NoTime /\ \A k \in Nodes : node[k].wptr = Wptr(p) => k = m
      BY <2>1, <2>7 DEF OwnerAt
    <3>2. node[n].wptr # Wptr(p) /\ wait'[p] # NoTime /\ node'[n].wptr # Wptr(p)
      BY <1>2, <3>1 DEF Handles
    <3>3. ASSUME NEW k \in Nodes, node'[k].wptr = Wptr(p) PROVE node[k].wptr = Wptr(p)
      <4>1. k # n
        BY <3>2, <3>3
      <4> QED BY <3>3, <4>1 DEF Handles
    <3> QED BY <3>2, <3>3
  <2> QED BY <2>1, <2>3, <2>4, <2>5, <2>6, <2>7, SameOwner
<1>3. ASSUME NEW q \in Procs, q # cur[s] PROVE LinkAt(q)'
  <2>1. LinkAt(q) /\ tlink'[q] = tlink[q] /\ iptr'[q] = iptr[q] /\ todo'[q] = todo[q]
    BY <1>1, <1>3 DEF Link, Handles
  <2>2. Runs(q, {"taltwt_cas"}) => Runs(q, {"taltwt_cas"})'
    BY <1>3 DEF Runs, Handles
  <2>3. TimerTodo(q)' <=> TimerTodo(q)
    BY <2>1 DEF TimerTodo, Elems
  <2> QED BY <2>1, <2>2, <2>3 DEF LinkAt
<1>4. ASSUME NEW t \in Scheds, t # s PROVE HandsAt(t)'
  <2>1. HandsAt(t) /\ CasAt(t) /\ pc'[t] = pc[t] /\ cur'[t] = cur[t]
    BY <1>1, <1>4 DEF Link, NodeInv, Handles
  <2>2. PICK tm : IInv(tm)
    BY <1>1 DEF AltInv
  <2>3. pc[t] \in DistLabels \cup {"taltwt_cas", "taltwt_clear"} =>
          /\ cur[t] \in Procs /\ cur[t] # cur[s]
          /\ tlink'[cur[t]] = tlink[cur[t]] /\ guards'[cur[t]] = guards[cur[t]]
    <3>1. pc[t] \in DistLabels \cup {"taltwt_cas", "taltwt_clear"} => cur[t] \in Procs
      BY <2>2, CurIs DEF DistLabels, IdleLabels
    <3> QED BY <1>1, <1>4, <3>1 DEF OneRunner, Handles
  <2>5. ASSUME pc[t] \in {"taltwt_cas", "taltwt_clear"} PROVE Timed(guards[cur[t]])'
    BY <2>1, <2>3, <2>5 DEF HandsAt, Timed
  <2>4. ASSUME pc[t] = "taltwt_cas" PROVE node'[tlink'[cur'[t]]].wptr = AltPtr(cur'[t])
    <3>1. tlink[cur[t]] \in Nodes /\ node[tlink[cur[t]]].sched = t /\ node[tlink[cur[t]]].wptr = AltPtr(cur[t])
      BY <2>1, <2>4 DEF CasAt, HandsAt
    <3>2. node'[tlink[cur[t]]].wptr = node[tlink[cur[t]]].wptr
      BY <1>4, <2>3, <2>4, <3>1 DEF Handles
    <3> QED BY <2>1, <2>3, <2>4, <3>1, <3>2 DEF HandsAt
  <2> QED BY <2>1, <2>3, <2>4, <2>5 DEF HandsAt
<1>5. \A m \in Nodes : OwnerAt(m)'
  BY <1>2
<1>6. \A q \in Procs : LinkAt(q)'
  BY <1>3
<1>7. \A t \in Scheds : HandsAt(t)'
  BY <1>4
<1> QED BY <1>5, <1>6, <1>7 DEF Link

(* A step that handles one node leaves the references of other processes as *)
(* they are, if the node is theirs after it exactly if it was before.      *)
LEMMA HandledRefs ==
  ASSUME NEW s \in Scheds, NEW n \in Nodes, Handles(s, n), NEW q \in Procs, q # cur[s],
         node'[n].wptr = AltPtr(q) <=> node[n].wptr = AltPtr(q)
  PROVE  NodeRef(q)' = NodeRef(q)
<1>1. HasNode(q)' <=> HasNode(q)
  BY DEF HasNode, Handles
<1>2. q # NotProcess
  BY NotProcessAssumption
<1>3. \A L : Runs(q, L)' <=> Runs(q, L)
  BY <1>2 DEF Runs, Handles
<1> QED BY <1>1, <1>3 DEF NodeRef

(***************************************************************************)
(* Steps that do nothing with nodes.                                       *)
(***************************************************************************)
LEMMA AsideStep ==
  ASSUME TimerInv, NEW s \in Scheds, Aside(s), \A tm : IInv(tm) => IInv(tm)'
  PROVE  AltInv' /\ Link'
<1>1. PICK tm : tm = TimersNow /\ IInv(tm)
  BY DEF TimerInv, AltInv
<1>2. TimersNow' = TimersNow
  BY AsideRefs
<1>3. IInv(tm)'
  BY <1>1
<1>4. AltInv'
  BY <1>1, <1>2, <1>3 DEF AltInv
<1> QED BY <1>4, AsideLink

(* What the invariant knows, without its parameter. *)
LEMMA NowTypes ==
  ASSUME TimerInv
  PROVE  /\ Types /\ OneRunner /\ NodeInv /\ Link /\ TimerTypeOK /\ SchedWords
         /\ \A s \in Scheds : RunAt(s) /\ (pc[s] \notin IdleLabels <=> cur[s] \in Procs)
         /\ \A s \in Scheds : HandAt(s) /\ HandsAt(s) /\ CasAt(s)
<1>1. PICK tm : tm = TimersNow /\ IInv(tm)
  BY DEF TimerInv, AltInv
<1>2. Types /\ \A s \in Scheds : RunAt(s) /\ (pc[s] \notin IdleLabels <=> cur[s] \in Procs)
  BY <1>1, CurIs DEF IInv
<1>3. OneRunner
  BY OneRuns DEF TimerInv
<1> QED BY <1>2, <1>3 DEF TimerInv, NodeInv, Typed, Link

(* A process at an instruction before its timers, or after them. *)
LEMMA MainStep ==
  ASSUME NEW tm, IInv(tm), NEW s \in Scheds, NEW p \in Procs, At(s, p, {"main", "timed"}),
         NEW l \in {"main", "timed"}, iptr' = [iptr EXCEPT ![p] = l],
         UNCHANGED <<pc, cur, queued, chan, state, temp, guards, style, todo, ch, word, tgt, io, ready0>>
  PROVE  IInv(tm)'
<1>1. pc[s] = "user" /\ cur[s] = p /\ iptr[p] \in {"main", "timed"}
  BY DEF At
<1>2. Types /\ queued[p] = 0 /\ ~Off(p)
  BY <1>1, RunnerFacts DEF IInv
<1>3. ~TriggeredOn(p) /\ io[p] = R!Idle /\ \A c \in Chans : chan[c] # AltPtr(p)
  BY <1>1, QuietUser
<1>4. iptr'[p] = l /\ \A r \in Procs : r # p => iptr'[r] = iptr[r]
  BY <1>2 DEF Types
<1>5. Types'
  <2>1. iptr' \in [Procs -> Labels \cup {"timed"}]
    BY <1>2 DEF Types, Labels
  <2> QED BY <1>2, <2>1 DEF Types
<1>6. Touch(s, {p})
  <2>1. Alone(s, p)
    BY <1>1, <1>4 DEF Alone
  <2> QED BY <1>1, <2>1, AloneTouch
<1>7. \A L : Runs(p, L)' <=> pc'[s] \in L
  BY <1>1, <1>6, RunnerNext
<1>8. FlowAt(tm, p)'
  <2>1. tm.refs[p] = 0
    BY <1>1, RunnerFacts DEF InAlt
  <2>2. iptr'[p] \in {"main", "timed"} /\ ~Runs(p, {"altwt_clear"})' /\ ~Runs(p, {"altend_dec"})'
    BY <1>1, <1>4, <1>7
  <2>3. temp[p] = Junk
    BY <1>1 DEF IInv, FlowAt, SelectedAt
  <2> QED BY <1>4, <2>1, <2>2, <2>3, MainFlow
<1>9. RunAt(s)' /\ HoldAt(tm, s)'
  <2>1. pc'[s] = "user" /\ cur'[s] # NotProcess
    BY <1>1, NotProcessAssumption
  <2> QED BY <2>1 DEF RunAt, HoldAt, HoldLabels, IdleLabels, IoLabels, XableLabels, XendLabels, EnbcLabels,
                      EnbLabels, AltwtLabels, DiscLabels, DistLabels
<1>10. IoAt(p)'
  BY <1>1, <1>3 DEF IoAt
<1>11. /\ pc'[s] \notin {"trigger", "trigger_enqueue", "walk_trigger", "walk_enqueue"} /\ pc[s] # "io_clear" /\ queued'[p] = 0
       /\ ~Transferred(p) /\ ~Transferred(p)' /\ UNCHANGED chan
       /\ (TriggeredOn(p) => Target(p)') /\ \A d \in Chans : chan[d] = AltPtr(p) => AltIn(p, d)'
  BY <1>1, <1>2, <1>3, <1>4 DEF Transferred
<1> QED BY <1>1, <1>5, <1>6, <1>8, <1>9, <1>10, <1>11, QuietStep

(* X_ldtimer, and TIN with a time that has passed. *)
LEMMA LdtimerKeeps ==
  ASSUME TimerInv, NEW s \in Scheds, NEW p \in Procs,
         Ldtimer(s, p) \/ \E d \in TinDelays : TinPast(s, p, d)
  PROVE  AltInv' /\ Link'
<1>1. /\ At(s, p, {"main", "timed"}) /\ \E l \in {"main", "timed"} : iptr' = [iptr EXCEPT ![p] = l]
      /\ UNCHANGED <<pc, cur, queued, chan, state, temp, guards, style, todo, ch, word, tgt, io, ready0>>
      /\ UNCHANGED <<node, tn, tq, wait, tlink>>
  BY DEF Ldtimer, TinPast, At, SetIptr, schedVars, altVars, localVars, histVars
<1>2. \A tm : IInv(tm) => IInv(tm)'
  <2>1. ASSUME NEW tm, IInv(tm) PROVE IInv(tm)'
    BY <1>1, <2>1, MainStep
  <2> QED BY <2>1
<1>3. Aside(s)
  BY <1>1, NowTypes DEF Aside, At, Types
<1> QED BY <1>2, <1>3, AsideStep

(* A step of CcspAlt takes no timer guard from the guards to disable. *)
LEMMA StepTodo ==
  ASSUME Types, NEW s \in Scheds, RunAt(s), Step(s)
  PROVE  /\ \A q \in Procs : q # cur[s] => todo'[q] = todo[q] /\ guards'[q] = guards[q]
         /\ \A q \in Procs : q = cur[s] /\ iptr[q] = "disable" /\ TimerTodo(q) /\ todo[q] # << >> =>
              iptr'[q] = "disable" /\ TimerTodo(q)'
<1> USE DEF At, InKernel, SetIptr, ForgetAlt, procVars, altVars
<1>1. CASE TriggerAltGuard(s) \/ TriggerEnqueue(s)
  <2>1. cur[s] \notin Procs
    BY <1>1, NotProcessAssumption DEF TriggerAltGuard, TriggerEnqueue, RunAt, IdleLabels
  <2> QED BY <1>1, <2>1 DEF TriggerAltGuard, TriggerEnqueue
<1>2. CASE \E p \in Procs :
             \/ \E c \in Chans : Output(s, p, c) \/ Input(s, p, c) \/ Xable(s, p, c)
             \/ \E a \in Alts[p] : Alt(s, p, a)
             \/ Xin(s, p) \/ SkipBody(s, p)
  <2>1. PICK p \in Procs :
             \/ \E c \in Chans : Output(s, p, c) \/ Input(s, p, c) \/ Xable(s, p, c)
             \/ \E a \in Alts[p] : Alt(s, p, a)
             \/ Xin(s, p) \/ SkipBody(s, p)
    BY <1>2
  <2>2. cur[s] = p /\ iptr[p] # "disable"
    BY <2>1 DEF Output, Input, Xable, Alt, Xin, SkipBody
  <2>3. \A q \in Procs : q # p => todo'[q] = todo[q] /\ guards'[q] = guards[q]
    BY <2>1, ZenonT(40) DEF Output, Input, Xable, Alt, StartAlt, Xin, SkipBody, ChanIo, Types
  <2> QED BY <2>2, <2>3
<1>3. CASE \E p \in Procs : IoSwap(s, p) \/ IoClear(s, p) \/ IoCopy(s, p) \/ XableSwap(s, p)
             \/ XableRestore(s, p) \/ XinCopy(s, p) \/ Xend(s, p) \/ XendEnqueue(s, p) \/ AltEnd(s, p) \/ AltEndDec(s, p)
  <2>1. PICK p \in Procs : IoSwap(s, p) \/ IoClear(s, p) \/ IoCopy(s, p) \/ XableSwap(s, p)
             \/ XableRestore(s, p) \/ XinCopy(s, p) \/ Xend(s, p) \/ XendEnqueue(s, p) \/ AltEnd(s, p) \/ AltEndDec(s, p)
    BY <1>3
  <2>2. cur[s] = p /\ iptr[p] # "disable"
    BY <2>1 DEF IoSwap, IoClear, IoCopy, XableSwap, XableRestore, XinCopy, Xend, XendEnqueue, AltEnd, AltEndDec,
                RunAt, IoLabels, XableLabels, XendLabels
  <2>3. UNCHANGED <<todo, guards>>
    BY <2>1 DEF IoSwap, IoClear, IoCopy, XableSwap, XableRestore, XinCopy, Xend, XendEnqueue, AltEnd, AltEndDec
  <2> QED BY <2>2, <2>3
<1>4. CASE \E p \in Procs :
             \/ Enbc(s, p) \/ EnbcSwap(s, p) \/ EnbcRestore(s, p) \/ EnbcInc(s, p)
             \/ Enbs(s, p) \/ EnbReady(s, p) \/ EnbAnd(s, p)
             \/ AltWt(s, p) \/ AltWtCas(s, p) \/ AltWtClear(s, p)
  <2>1. PICK p \in Procs :
             \/ Enbc(s, p) \/ EnbcSwap(s, p) \/ EnbcRestore(s, p) \/ EnbcInc(s, p)
             \/ Enbs(s, p) \/ EnbReady(s, p) \/ EnbAnd(s, p)
             \/ AltWt(s, p) \/ AltWtCas(s, p) \/ AltWtClear(s, p)
    BY <1>4
  <2>2. cur[s] = p /\ iptr[p] # "disable"
    BY <2>1 DEF Enbc, EnbcSwap, EnbcRestore, EnbcInc, Enbs, EnbReady, EnbAnd, AltWt, AltWtCas, AltWtClear,
                RunAt, EnbcLabels, EnbLabels, AltwtLabels
  <2>3. \A q \in Procs : q # p => todo'[q] = todo[q]
    BY <2>1 DEF Enbc, EnbcSwap, EnbcRestore, EnbcInc, Enbs, EnbReady, EnbAnd, AltWt, AltWtCas, AltWtClear,
                NextGuard, GuardReady, StartDisabling, Types
  <2>4. UNCHANGED guards
    BY <2>1 DEF Enbc, EnbcSwap, EnbcRestore, EnbcInc, Enbs, EnbReady, EnbAnd, AltWt, AltWtCas, AltWtClear
  <2> QED BY <2>2, <2>3, <2>4
<1>5. CASE \E p \in Procs : Disc(s, p) \/ DiscCas(s, p) \/ DiscDec(s, p) \/ Diss(s, p)
  <2>1. PICK p \in Procs : Disc(s, p) \/ DiscCas(s, p) \/ DiscDec(s, p) \/ Diss(s, p)
    BY <1>5
  <2>2. cur[s] = p /\ UNCHANGED guards
    BY <2>1 DEF Disc, DiscCas, DiscDec, Diss
  <2>3. NextGuard(p) \/ UNCHANGED <<todo, iptr>>
    BY <2>1 DEF Disc, DiscCas, DiscDec, Diss
  <2>4. Head(todo[p]) \notin Timers
    BY <2>1, GuardFacts, AltAssumption DEF Disc, DiscCas, DiscDec, Diss, RunAt, DiscLabels
  <2>5. \A q \in Procs : q # p => todo'[q] = todo[q]
    BY <2>3 DEF NextGuard, Types
  <2>6. ASSUME iptr[p] = "disable", TimerTodo(p), todo[p] # << >>, NextGuard(p)
        PROVE  iptr'[p] = "disable" /\ TimerTodo(p)'
    <3>1. todo[p] \in Seq(Chans \cup Timers \cup {Skip})
      BY DEF Types
    <3>2. Elems(todo[p]) = {Head(todo[p])} \cup Elems(Tail(todo[p])) /\ Len(todo[p]) \in Nat
      BY <2>6, <3>1, SeqFacts
    <3>3. PICK g \in Elems(Tail(todo[p])) : g \in Timers
      BY <2>4, <2>6, <3>2 DEF TimerTodo
    <3>4. Len(todo[p]) # 1
      BY <3>1, <3>3, LastFacts
    <3>5. todo'[p] = Tail(todo[p]) /\ iptr'[p] = IF Len(todo[p]) = 1 THEN "altend" ELSE "disable"
      BY <2>6, NextGuardFacts
    <3>6. TimerTodo(p)'
      BY <3>3, <3>5 DEF TimerTodo, Elems
    <3> QED BY <3>4, <3>5, <3>6
  <2>7. iptr[p] = "disable" /\ TimerTodo(p) /\ UNCHANGED <<todo, iptr>> => iptr'[p] = "disable" /\ TimerTodo(p)'
    BY DEF TimerTodo, Elems
  <2> QED BY <2>2, <2>3, <2>5, <2>6, <2>7
<1> QED BY <1>1, <1>2, <1>3, <1>4, <1>5 DEF Step

(* A step of CcspAlt. *)
LEMMA AltStepKeeps ==
  ASSUME TimerInv, OneChannel, NEW s \in Scheds, AltStep(s)
  PROVE  AltInv' /\ Link'
<1>1. Step(s) /\ Types /\ RunAt(s) /\ OneRunner /\ Local(s)
  BY NowTypes, StepLocal DEF AltStep
<1>2. \A tm : IInv(tm) => IInv(tm)'
  BY <1>1, NextStep DEF Next
<1>3. /\ \A q \in Procs : q # cur[s] => todo'[q] = todo[q] /\ guards'[q] = guards[q]
      /\ \A q \in Procs : q = cur[s] /\ iptr[q] = "disable" /\ TimerTodo(q) /\ todo[q] # << >> =>
           iptr'[q] = "disable" /\ TimerTodo(q)'
  BY <1>1, StepTodo
<1>4. \A q \in Procs : TimerTodo(q) => todo[q] # << >>
  BY DEF TimerTodo, Elems
<1>5. ASSUME NEW q \in Procs
      PROVE  tlink[q] \in Nodes \/ tlink'[q] \in Nodes => tlink'[q] = tlink[q]
  <2>1. tlink'[q] = IF InAlt(q)' THEN tlink[q] ELSE NotSet
    BY DEF AltStep
  <2>2. tlink[q] \in Nodes => InAlt(q)'
    <3>1. LinkAt(q)
      BY DEF TimerInv, Link
    <3>2. Runs(q, {"taltwt_cas"}) => q # cur[s]
      BY <1>1 DEF Runs, Local, NodeLabels, OneRunner
    <3> QED BY <1>1, <1>3, <1>4, <3>1, <3>2 DEF LinkAt, Local, InAlt
  <2> QED BY <2>1, <2>2, TimeFacts
<1>6. Aside(s)
  <2>1. UNCHANGED <<node, tn, tq, wait>>
    BY DEF AltStep
  <2> QED BY <1>1, <1>3, <1>4, <1>5, <2>1 DEF Aside, Local, NodeLabels, WalkLabels, DistLabels
<1> QED BY <1>2, <1>6, AsideStep

(* X_talt. *)
LEMMA TaltKeeps ==
  ASSUME TimerInv, NEW s \in Scheds, NEW p \in Procs, NEW a \in Alts[p], Talt(s, p, a)
  PROVE  AltInv' /\ Link'
<1>1. At(s, p, {"main", "timed"}) /\ StartAlt(p, a) /\ iptr[p] = "timed"
  BY DEF Talt, At
<1>2. \A tm : IInv(tm) => IInv(tm)'
  <2>1. ASSUME NEW tm, IInv(tm) PROVE IInv(tm)'
    BY <1>1, <2>1, StartAltStep
  <2> QED BY <2>1
<1>3. Aside(s)
  <2>1. pc[s] = "user" /\ cur[s] = p /\ Types /\ LinkAt(p) /\ TimerTypeOK
    BY <1>1, NowTypes DEF At, Link
  <2>2. /\ UNCHANGED <<node, tn, tq, wait, pc, cur>> /\ tlink' = [tlink EXCEPT ![p] = NotSet]
        /\ guards' = [guards EXCEPT ![p] = a.guards] /\ todo' = [todo EXCEPT ![p] = a.guards]
        /\ iptr' = [iptr EXCEPT ![p] = "enable"]
    BY <1>1 DEF Talt, StartAlt, SetIptr, schedVars
  <2>3. tlink[p] \notin Nodes
    BY <1>1, <2>1 DEF LinkAt
  <2>4. \A q \in Procs : tlink[q] \in Nodes \/ tlink'[q] \in Nodes => tlink'[q] = tlink[q]
    BY <2>1, <2>2, <2>3, TimeFacts DEF TimerTypeOK
  <2> QED BY <1>1, <2>1, <2>2, <2>4 DEF Aside, Types
<1> QED BY <1>2, <1>3, AsideStep

(* The process at an instruction of its ALT has no node, or disables. *)
LEMMA NoNodeAt ==
  ASSUME TimerInv, NEW s \in Scheds, NEW p \in Procs, cur[s] = p, pc[s] # "taltwt_cas", iptr[p] # "disable"
  PROVE  tlink[p] \notin Nodes
<1>1. LinkAt(p) /\ OneRunner
  BY NowTypes DEF Link
<1>2. ~Runs(p, {"taltwt_cas"})
  BY <1>1 DEF Runs, OneRunner
<1> QED BY <1>1, <1>2 DEF LinkAt

(* kernel_enbt, the guard is due. *)
LEMMA EnbtReadyKeeps ==
  ASSUME TimerInv, NEW s \in Scheds, NEW p \in Procs, EnbtReady(s, p)
  PROVE  AltInv' /\ Link'
<1>1. /\ pc[s] = "user" /\ cur[s] = p /\ iptr[p] = "enable" /\ Head(todo[p]) \in Timers
      /\ pc' = [pc EXCEPT ![s] = "enb_ready"] /\ tlink' = [tlink EXCEPT ![p] = Set]
      /\ UNCHANGED <<queued, cur, chan, state, temp, iptr, guards, style, todo, ch, word, tgt, io, ready0>>
      /\ UNCHANGED <<node, tn, tq, wait>>
  BY DEF EnbtReady, At, Goto, altAll, procVars, altVars, localVars, histVars
<1>2. \A tm : IInv(tm) => IInv(tm)'
  <2>1. ASSUME NEW tm, IInv(tm) PROVE IInv(tm)'
    <3>1. Ready(Head(todo[p]))
      BY <1>1 DEF Ready
    <3>2. pc[s] \in {"user"} \cup EnbLabels /\ "enb_ready" \in {"enbc_swap"} \cup EnbLabels
      BY <1>1 DEF EnbLabels
    <3> QED BY <1>1, <2>1, <3>1, <3>2, EnableStay
  <2> QED BY <2>1
<1>3. Aside(s)
  <2>1. Types /\ TimerTypeOK /\ tlink[p] \notin Nodes
    BY <1>1, NowTypes, NoNodeAt
  <2>2. \A q \in Procs : tlink[q] \in Nodes \/ tlink'[q] \in Nodes => tlink'[q] = tlink[q]
    BY <1>1, <2>1, TimeFacts DEF TimerTypeOK
  <2> QED BY <1>1, <2>1, <2>2 DEF Aside, Types
<1> QED BY <1>2, <1>3, AsideStep

(* kernel_enbt, the guard goes into Time_f. *)
LEMMA EnbtKeeps ==
  ASSUME TimerInv, NEW s \in Scheds, NEW p \in Procs, Enbt(s, p)
  PROVE  AltInv' /\ Link'
<1>1. /\ pc[s] = "user" /\ cur[s] = p /\ iptr[p] = "enable" /\ Head(todo[p]) \in Timers
      /\ NextGuard(p) /\ tlink' = [tlink EXCEPT ![p] = Set]
      /\ UNCHANGED <<pc, queued, cur, chan, state, temp, guards, style, ch, word, tgt, io, ready0>>
      /\ UNCHANGED <<node, tn, tq, wait>>
  BY DEF Enbt, At, schedVars, altVars, localVars, histVars
<1>2. Types /\ TimerTypeOK /\ tlink[p] \notin Nodes
  BY <1>1, NowTypes, NoNodeAt
<1>3. \A tm : IInv(tm) => IInv(tm)'
  <2>1. ASSUME NEW tm, IInv(tm) PROVE IInv(tm)'
    <3>1. PICK st \in StateWords : st = state[p] /\ st.tag = "alt" /\ ~st.waiting
      BY <1>1, <2>1, AltFacts DEF InAlt
    <3>2. state' = [state EXCEPT ![p] = st] /\ pc' = [pc EXCEPT ![s] = "user"]
      BY <1>1, <1>2, <3>1 DEF Types
    <3>3. word' \in [Scheds -> ChanWord] /\ tgt' \in [Scheds -> Procs \cup {NotProcess}]
      BY <1>1, <1>2 DEF Types
    <3>4. Head(todo[p]) \notin Chans
      BY <1>1, GuardFacts
    <3> QED BY <1>1, <2>1, <3>1, <3>2, <3>3, <3>4, EnableGo, ZenonT(60)
  <2> QED BY <2>1
<1>4. Aside(s)
  <2>1. \A q \in Procs : tlink[q] \in Nodes \/ tlink'[q] \in Nodes => tlink'[q] = tlink[q]
    BY <1>1, <1>2, TimeFacts DEF TimerTypeOK
  <2>2. \A q \in Procs : q # p => iptr'[q] = iptr[q] /\ todo'[q] = todo[q]
    BY <1>1, <1>2 DEF NextGuard, SetIptr, Types
  <2> QED BY <1>1, <1>2, <2>1, <2>2 DEF Aside, Types
<1> QED BY <1>3, <1>4, AsideStep

(* TALTWT does not sleep. *)
LEMMA TaltWtReadyKeeps ==
  ASSUME TimerInv, NEW s \in Scheds, NEW p \in Procs, TaltWtReady(s, p)
  PROVE  AltInv' /\ Link'
<1>1. /\ pc[s] = "user" /\ cur[s] = p /\ iptr[p] = "altwt" /\ Timed(guards[p])
      /\ pc' = [pc EXCEPT ![s] = "taltwt_clear"] /\ temp' = [temp EXCEPT ![p] = None]
      /\ UNCHANGED <<queued, cur, chan, state, iptr, guards, style, todo, ch, word, tgt, io, ready0>>
      /\ UNCHANGED <<node, tn, tq, wait, tlink>>
  BY DEF TaltWtReady, At, Goto, altVars, localVars, histVars
<1>2. \A tm : IInv(tm) => IInv(tm)'
  <2>1. ASSUME NEW tm, IInv(tm) PROVE IInv(tm)'
    <3>1. "taltwt_clear" \in AltwtLabels
      BY DEF AltwtLabels
    <3> QED BY <1>1, <2>1, <3>1, AltWtStay
  <2> QED BY <2>1
<1>3. Aside(s)
  <2>1. Types
    BY NowTypes
  <2> QED BY <1>1, <2>1 DEF Aside, Types, Timed
<1> QED BY <1>2, <1>3, AsideStep

(* TALTWT goes on without sleeping: the flags are cleared and the disabling *)
(* begins.                                                                 *)
LEMMA TaltWtClearKeeps ==
  ASSUME TimerInv, NEW s \in Scheds, NEW p \in Procs, TaltWtClear(s, p)
  PROVE  AltInv' /\ Link'
<1>1. /\ pc[s] = "taltwt_clear" /\ cur[s] = p
      /\ UNCHANGED <<queued, chan, temp, guards, style, ch, word, tgt, io, cur>>
      /\ state' = [state EXCEPT ![p] = ClearReadyFlags(state[p])]
      /\ pc' = [pc EXCEPT ![s] = "user"] /\ StartDisabling(p, Len(guards[p]))
      /\ UNCHANGED <<node, tn, tq, wait, tlink>>
  BY DEF TaltWtClear, InKernel, altVars, localVars, SetState, Goto
<1>2. iptr[p] = "altwt" /\ Types /\ Timed(guards[p])
  BY <1>1, NowTypes DEF RunAt, AltwtLabels, HandsAt
<1>3. \A tm : IInv(tm) => IInv(tm)'
  <2>1. ASSUME NEW tm, IInv(tm) PROVE IInv(tm)'
    <3>1. /\ temp[p] = None /\ state[p] \in StateWords /\ state[p].tag = "alt" /\ ~state[p].waiting
          /\ Len(guards[p]) \in 1..Len(guards[p]) /\ Len(guards[p]) - Len(todo[p]) <= Len(guards[p])
      BY <1>1, <1>2, <2>1, AltwtFacts DEF AltwtLabels
    <3>2. \E i \in 1..Len(guards[p]) : Ready(guards[p][i])
      <4>1. guards[p] \in Seq(Chans \cup Timers \cup {Skip})
        BY <1>2 DEF Types
      <4>2. DOMAIN guards[p] = 1..Len(guards[p])
        BY <4>1, EmptyFacts
      <4> QED BY <1>2, <4>2 DEF Timed, Ready
    <3>3. PICK st \in StateWords : st = ClearReadyFlags(state[p]) /\ st.tag = "alt"
                                   /\ ~st.waiting /\ st.n = state[p].n
      <4>1. PICK w \in StateWords : w = state[p] /\ w.tag = "alt" /\ ~w.waiting
        BY <3>1
      <4> QED BY <4>1, FlagUpdates
    <3>4. PICK k \in 1..Len(guards[p]) : k = Len(guards[p])
      BY <3>1
    <3>5. PICK g0 \in Chans \cup Timers \cup {Skip, None, Junk} : g0 = None
      OBVIOUS
    <3>6. SetTemp(p, g0)
      BY <1>1, <1>2, <3>1, <3>5 DEF SetTemp, Types
    <3>7. Returns(s, st.waiting) /\ SetState(p, st)
      BY <1>1, <3>3 DEF Returns, SetState
    <3>8. Begins(p, k, g0, st.waiting)
      BY <3>2, <3>3, <3>4, <3>5 DEF Begins
    <3>9. /\ iptr[p] \in {"enable", "altwt"} /\ pc[s] \in EnbLabels \cup AltwtLabels
          /\ StartDisabling(p, k) /\ Len(guards[p]) - Len(todo[p]) <= k
      BY <1>1, <1>2, <3>1, <3>4 DEF AltwtLabels
    <3> QED BY <1>1, <2>1, <3>3, <3>6, <3>7, <3>8, <3>9, StartStep
  <2> QED BY <2>1
<1>4. Aside(s)
  <2>1. \A q \in Procs : q # p => iptr'[q] = iptr[q] /\ todo'[q] = todo[q]
    BY <1>1, <1>2 DEF StartDisabling, SetIptr, Types
  <2> QED BY <1>1, <1>2, <2>1 DEF Aside, Types
<1> QED BY <1>3, <1>4, AsideStep

(* A timer guard that is being disabled: it was no ready guard when the   *)
(* disabling began, and it is no channel.                                  *)
LEMMA TimerGuard ==
  ASSUME Types, NEW p \in Procs, ListAt(p), iptr[p] = "disable", Head(todo[p]) \in Timers
  PROVE  Timed(guards[p]) /\ Ready(Head(todo[p])) /\ Head(todo[p]) \notin ready0[p] /\ Head(todo[p]) \notin Chans
         /\ TimerTodo(p)
<1>1. Head(todo[p]) \in Elems(todo[p]) /\ Elems(todo[p]) \subseteq Elems(guards[p])
  BY DisableFacts
<1>2. Timed(guards[p])
  BY <1>1 DEF Timed, Elems
<1>3. Head(todo[p]) \notin ready0[p] /\ Head(todo[p]) \notin Chans
  BY GuardFacts DEF Types
<1> QED BY <1>1, <1>2, <1>3 DEF Ready, TimerTodo

(* kernel_dist without a node: the guard is ready or not by the clock.     *)
LEMMA DistNoNodeKeeps ==
  ASSUME TimerInv, NEW s \in Scheds, NEW p \in Procs, DistNoNode(s, p)
  PROVE  AltInv' /\ Link'
<1>1. /\ pc[s] = "user" /\ cur[s] = p /\ iptr[p] = "disable" /\ Head(todo[p]) \in Timers /\ tlink[p] \notin Nodes
      /\ NextGuard(p) /\ (Select(p, Head(todo[p])) \/ UNCHANGED temp)
      /\ UNCHANGED <<pc, queued, cur, chan, state, guards, style, ch, word, tgt, io, ready0>>
      /\ UNCHANGED <<node, tn, tq, wait, tlink>>
  BY DEF DistNoNode, At, schedVars, altVars, localVars, histVars, timerVars
<1>2. Types
  BY NowTypes
<1>3. \A tm : IInv(tm) => IInv(tm)'
  <2>1. ASSUME NEW tm, IInv(tm) PROVE IInv(tm)'
    <3>1. ListAt(p)
      BY <2>1 DEF IInv, FlowAt
    <3>2. Timed(guards[p]) /\ Ready(Head(todo[p])) /\ Head(todo[p]) \notin ready0[p] /\ Head(todo[p]) \notin Chans
      BY <1>1, <1>2, <3>1, TimerGuard
    <3>3. SkippedOver(p) \/ SelectedNow(p)
      BY <1>1, <1>2, <3>2 DEF SkippedOver, SelectedNow, Select, Types
    <3>4. temp' = temp \/ temp' = [temp EXCEPT ![p] = Head(todo[p])]
      BY <1>1 DEF Select
    <3>5. pc' = [pc EXCEPT ![s] = "user"]
      BY <1>1, <1>2 DEF Types
    <3> QED BY <1>1, <2>1, <3>2, <3>3, <3>4, <3>5, DisableStep
  <2> QED BY <2>1
<1>4. Aside(s)
  <2>1. \A q \in Procs : q # p => iptr'[q] = iptr[q] /\ todo'[q] = todo[q]
    BY <1>1, <1>2 DEF NextGuard, SetIptr, Types
  <2> QED BY <1>1, <1>2, <2>1 DEF Aside, Types
<1> QED BY <1>3, <1>4, AsideStep

(* Into remove_from_timer_queue, or on in it. *)
LEMMA DistStay ==
  ASSUME NEW tm, IInv(tm), NEW s \in Scheds, NEW p \in Procs, cur[s] = p, iptr[p] = "disable",
         pc[s] \in {"user", "dist_swap", "dist_sync"}, Head(todo[p]) \in Timers,
         NEW l \in DistLabels, pc' = [pc EXCEPT ![s] = l],
         UNCHANGED <<queued, cur, chan, state, temp, iptr, guards, style, todo, ch, word, tgt, io, ready0>>
  PROVE  IInv(tm)'
<1>1. /\ Types /\ FlowAt(tm, p) /\ ~Off(p) /\ \A L : Runs(p, L) <=> pc[s] \in L
      /\ \A c \in Chans : chan[c] = AltPtr(p) => Reader[c] = p /\ AltIn(p, c)
      /\ state[p].tag = "alt" /\ ~state[p].waiting
  BY AltFacts DEF InAlt
<1>2. pc' \in [Scheds -> PcLabels] /\ pc'[s] = l /\ \A t \in Scheds : t # s => pc'[t] = pc[t]
  BY <1>1 DEF Types, PcLabels
<1>3. Types'
  BY <1>1, <1>2 DEF Types
<1>4. Touch(s, {p})
  <2>1. Alone(s, p)
    BY <1>2 DEF Alone, DistLabels
  <2> QED BY <2>1, AloneTouch
<1>5. ~Off(p)' /\ \A L : Runs(p, L)' <=> pc'[s] \in L
  <2>1. pc'[s] \notin {"trigger_enqueue", "walk_enqueue"} /\ cur'[s] = p
    BY <1>2 DEF DistLabels
  <2> QED BY <1>4, <2>1, RunnerNext
<1>6. Refs(p)' = Refs(p) /\ (TriggeredOn(p)' <=> TriggeredOn(p))
  <2>1. pc[s] \notin {"trigger", "walk_trigger"} /\ pc'[s] \notin {"trigger", "walk_trigger"}
    BY <1>2 DEF DistLabels
  <2> QED BY <1>2, <2>1, SameRefs
<1>7. /\ ~Runs(p, DiscLabels)' /\ ~Runs(p, {"disc_cas"})' /\ ~Runs(p, {"disc_dec"})'
      /\ ~Runs(p, {"altwt_clear"})' /\ ~Runs(p, {"altend_dec"})' /\ ~Runs(p, {"enbc_inc", "enbc_restore"})'
      /\ ~Runs(p, {"disc_dec"}) /\ ~Runs(p, {"enbc_inc", "enbc_restore"}) /\ ~Runs(p, {"enbc_restore"})
  BY <1>1, <1>2, <1>5 DEF DistLabels, DiscLabels
<1>8. \A g : (Ready(g)' <=> Ready(g)) /\ Position(p, g)' = Position(p, g)
  BY DEF Ready, Position
<1>9. ListAt(p)' /\ FirstAt(p)'
  <2>1. ListAt(p)'
    BY <1>1 DEF FlowAt, ListAt, InAlt
  <2>2. FirstAt(p)'
    <3>1. Position(p, temp[p])' = Position(p, temp[p])
      BY DEF Position
    <3>2. FirstAt(p)
      BY <1>1 DEF FlowAt
    <3> QED BY <1>8, <3>1, <3>2 DEF FirstAt, InAlt, Chosen
  <2> QED BY <2>1, <2>2
<1>10. SelectedAt(p)'
  <2>1. SelectedAt(p) /\ Timed(guards[p])
    BY <1>1, TimerGuard DEF FlowAt
  <2>2. Timed(guards[p])' /\ (Chosen(p)' <=> Chosen(p))
    BY <2>1 DEF Timed, Chosen
  <2>3. Ready(temp[p])' <=> Ready(temp[p])
    BY DEF Ready
  <2>4. Elems(guards[p])' = Elems(guards[p])
    BY DEF Elems
  <2>5. style[p] # "jump" => temp[p] # Junk
    BY <2>1 DEF SelectedAt
  <2>6. Chosen(p) => temp[p] \in Elems(guards[p]) /\ Ready(temp[p])
    BY <2>1 DEF SelectedAt
  <2> QED BY <1>7, <2>2, <2>3, <2>4, <2>5, <2>6 DEF SelectedAt
<1>11. CountAt(tm, p)'
  <2>1. CountAt(tm, p)
    BY <1>1 DEF FlowAt
  <2> QED BY <1>5, <1>6, <1>7, <2>1 DEF CountAt, InAlt
<1>12. FlowAt(tm, p)'
  BY <1>1, <1>5, <1>7, <1>9, <1>10, <1>11, DisableFlow
<1>13. \A d \in Chans : chan[d] = AltPtr(p) => AltIn(p, d)'
  BY <1>1, <1>7 DEF AltIn, Elems
<1>14. /\ InAlt(p) /\ pc'[s] \in DistLabels /\ pc'[s] \notin DiscLabels /\ (Head(todo[p]) \in Timers)'
       /\ pc'[s] \notin {"enbc_swap"} \cup DiscLabels
  BY <1>2 DEF InAlt, DistLabels, DiscLabels
<1> QED BY <1>2, <1>3, <1>12, <1>13, <1>14, AltQuietStep

(* kernel_dist waits for the walk to let go of the node.                   *)
LEMMA DistSyncKeeps ==
  ASSUME TimerInv, NEW s \in Scheds, NEW p \in Procs, DistSync(s, p)
  PROVE  AltInv' /\ Link'
<1>1. /\ pc[s] = "dist_sync" /\ cur[s] = p /\ pc' = [pc EXCEPT ![s] = "dist_dec"]
      /\ UNCHANGED <<queued, cur, chan, state, temp, iptr, guards, style, todo, ch, word, tgt, io, ready0>>
      /\ UNCHANGED <<node, tn, tq, wait, tlink>>
  BY DEF DistSync, InKernel, Goto, altAll, procVars, altVars, localVars, histVars
<1>2. iptr[p] = "disable" /\ Head(todo[p]) \in Timers /\ Types
  BY <1>1, NowTypes DEF RunAt, DistLabels
<1>3. \A tm : IInv(tm) => IInv(tm)'
  <2>1. ASSUME NEW tm, IInv(tm) PROVE IInv(tm)'
    <3>1. "dist_dec" \in DistLabels
      BY DEF DistLabels
    <3> QED BY <1>1, <1>2, <2>1, <3>1, DistStay
  <2> QED BY <2>1
<1>4. Aside(s)
  BY <1>1, <1>2 DEF Aside, Types, TimerTodo, Elems
<1> QED BY <1>3, <1>4, AsideStep

(* The walk triggers an ALT, and makes its process runnable. *)
LEMMA WalkTriggerKeeps ==
  ASSUME TimerInv, OneChannel, NEW s \in Scheds, WalkTrigger(s)
  PROVE  AltInv' /\ Link'
<1>1. pc[s] = "walk_trigger" /\ Types /\ cur[s] = NotProcess
  BY NowTypes DEF WalkTrigger, RunAt, IdleLabels
<1>2. PICK r \in Procs : r = tgt[s]
  BY <1>1, NowTypes DEF RunAt
<1>3. /\ UNCHANGED <<queued, chan, temp, iptr, guards, style, todo, ch, io, ready0>>
      /\ state' = [state EXCEPT ![r] = Triggered(state[r])] /\ cur' = cur
      /\ IF Wakes(state[r]) THEN pc' = [pc EXCEPT ![s] = "walk_enqueue"] /\ UNCHANGED <<word, tgt>>
                            ELSE /\ pc' = [pc EXCEPT ![s] = "walk_clean"]
                                 /\ word' = [word EXCEPT ![s] = Empty]
                                 /\ tgt' = [tgt EXCEPT ![s] = NotProcess]
      /\ UNCHANGED <<node, tn, tq, wait, tlink>>
  BY <1>2 DEF WalkTrigger, SetState, Goto, Forget, procVars, altVars, localVars, histVars, timerVars
<1>4. Types'
  <2>1. state' \in [Procs -> StateWords]
    <3>1. PICK w \in StateWords : w = state[r]
      BY <1>1 DEF Types
    <3>2. Triggered(w) \in StateWords
      BY FlagUpdates
    <3> QED BY <1>1, <1>3, <3>1, <3>2 DEF Types
  <2>2. pc' \in [Scheds -> PcLabels]
    BY <1>1, <1>3 DEF Types, PcLabels, IdleLabels
  <2>3. word' \in [Scheds -> ChanWord] /\ tgt' \in [Scheds -> Procs \cup {NotProcess}]
    BY <1>1, <1>3, WordFacts DEF Types
  <2> QED BY <1>1, <1>3, <2>1, <2>2, <2>3 DEF Types
<1>5. \A tm : IInv(tm) => IInv(tm)'
  <2>1. ASSUME NEW tm, IInv(tm) PROVE IInv(tm)'
    <3>1. state'[r] = Triggered(state[r]) /\ \A x \in Procs : x # r => state'[x] = state[x]
      BY <1>1, <1>3 DEF Types
    <3>2. \A t \in Scheds : t # s => pc'[t] = pc[t] /\ cur'[t] = cur[t] /\ word'[t] = word[t] /\ tgt'[t] = tgt[t]
      BY <1>1, <1>3 DEF Types
    <3>3. /\ Wakes(state[r]) =>
               pc'[s] \in {"trigger_enqueue", "walk_enqueue"} /\ cur'[s] = cur[s] /\ tgt'[s] = r
          /\ ~Wakes(state[r]) => pc'[s] \in {"sched", "walk_clean"} /\ cur'[s] = NotProcess
      BY <1>1, <1>2, <1>3 DEF Types
    <3> QED BY <1>1, <1>2, <1>3, <1>4, <2>1, <3>1, <3>2, <3>3, TriggerStep
  <2> QED BY <2>1
<1>6. Aside(s)
  BY <1>1, <1>3, NotProcessAssumption DEF Aside, Types
<1> QED BY <1>5, <1>6, AsideStep

(* The walk makes the process it has triggered runnable.                   *)
LEMMA WalkEnqueueKeeps ==
  ASSUME TimerInv, NEW s \in Scheds, WalkEnqueue(s)
  PROVE  AltInv' /\ Link'
<1>1. pc[s] = "walk_enqueue" /\ Types /\ cur[s] = NotProcess
  BY NowTypes DEF WalkEnqueue, RunAt, IdleLabels
<1>2. PICK r \in Procs : r = tgt[s]
  BY <1>1, NowTypes DEF RunAt
<1>3. /\ UNCHANGED <<chan, state, temp, iptr, guards, style, todo, ch, io, ready0, cur>>
      /\ queued' = [queued EXCEPT ![r] = @ + 1] /\ pc' = [pc EXCEPT ![s] = "walk_clean"]
      /\ word' = [word EXCEPT ![s] = Empty] /\ tgt' = [tgt EXCEPT ![s] = NotProcess]
      /\ UNCHANGED <<node, tn, tq, wait, tlink>>
  BY <1>2 DEF WalkEnqueue, EnqueueProcess, Goto, Forget, procVars, altVars, histVars, timerVars
<1>4. \A tm : IInv(tm) => IInv(tm)'
  <2>1. ASSUME NEW tm, IInv(tm) PROVE IInv(tm)'
    <3>1. cur' = [cur EXCEPT ![s] = NotProcess]
      BY <1>1, <1>3 DEF Types
    <3> QED BY <1>1, <1>2, <1>3, <2>1, <3>1, EnqueueStep
  <2> QED BY <2>1
<1>5. Aside(s)
  BY <1>1, <1>3, NotProcessAssumption DEF Aside, Types
<1> QED BY <1>4, <1>5, AsideStep

(* A scheduler without a process, on its way through its timer queue. *)
LEMMA IdleStep ==
  ASSUME NEW tm, IInv(tm), NEW s \in Scheds, NEW l \in {"sched", "walk", "walk_swap", "walk_clean"},
         pc[s] \in {"sched", "walk", "walk_swap", "walk_clean"}, pc' = [pc EXCEPT ![s] = l],
         UNCHANGED <<queued, cur, chan, state, temp, iptr, guards, style, todo, ch, word, tgt, io, ready0>>
  PROVE  IInv(tm)'
<1>1. Types /\ RunAt(s) /\ cur[s] = NotProcess /\ \A p \in Procs : FlowAt(tm, p)
  BY DEF IInv, RunAt, IdleLabels
<1>2. pc' \in [Scheds -> PcLabels] /\ pc'[s] = l /\ \A t \in Scheds : t # s => pc'[t] = pc[t]
  BY <1>1 DEF Types, PcLabels, IdleLabels
<1>3. Types'
  BY <1>1, <1>2 DEF Types
<1>4. Touch(s, {})
  <2>1. \A r \in Procs : ~On(s, r) /\ ~On(s, r)'
    BY <1>1, <1>2, NotProcessAssumption DEF On
  <2> QED BY <1>2, <2>1 DEF Touch
<1>5. RunAt(s)' /\ HoldAt(tm, s)' /\ TriggerAt(s)'
  <2>1. cur'[s] = NotProcess
    BY <1>1
  <2> QED BY <1>2, <2>1 DEF RunAt, HoldAt, TriggerAt, HoldLabels, IdleLabels, IoLabels, XableLabels, XendLabels,
                      EnbcLabels, EnbLabels, AltwtLabels, DiscLabels, DistLabels
<1>6. Unheld(s, {})
  BY DEF Unheld
<1>7. \A r \in Procs : Undisturbed(r)
  BY <1>2 DEF Undisturbed
<1>8. \A d \in Chans : chan'[d] = chan[d] /\ Stays(d, {})
  BY DEF Stays
<1> QED BY <1>3, <1>4, <1>5, <1>6, <1>7, <1>8, StepFrame

(* The timer queue is looked at, and has been. *)
LEMMA LookKeeps ==
  ASSUME TimerInv, NEW s \in Scheds, CheckTimerQueue(s) \/ WalkDone(s)
  PROVE  AltInv' /\ Link'
<1>1. /\ pc[s] \in {"sched", "walk"} /\ \E l \in {"sched", "walk"} : pc' = [pc EXCEPT ![s] = l]
      /\ UNCHANGED <<queued, cur, chan, state, temp, iptr, guards, style, todo, ch, word, tgt, io, ready0>>
      /\ UNCHANGED <<node, tn, tq, wait, tlink>>
  BY DEF CheckTimerQueue, WalkDone, Goto, altAll, procVars, altVars, localVars, histVars
<1>2. \A tm : IInv(tm) => IInv(tm)'
  <2>1. ASSUME NEW tm, IInv(tm) PROVE IInv(tm)'
    BY <1>1, <2>1, IdleStep
  <2> QED BY <2>1
<1>3. Aside(s)
  <2>1. Types /\ cur[s] \notin Procs
    BY <1>1, NowTypes DEF IdleLabels
  <2> QED BY <1>1, <2>1 DEF Aside, Types
<1> QED BY <1>2, <1>3, AsideStep

(* kernel_scheduler. *)
LEMMA ResumeKeeps ==
  ASSUME TimerInv, NEW s \in Scheds, NEW p \in Procs, TimerResume(s, p)
  PROVE  AltInv' /\ Link'
<1>1. /\ Resume(s, p) /\ pc[s] = "sched" /\ pc' = [pc EXCEPT ![s] = "user"] /\ cur' = [cur EXCEPT ![s] = p]
      /\ UNCHANGED <<iptr, todo, guards, node, tn, tq, wait, tlink>>
  BY DEF TimerResume, Resume, Dispatch, procVars, altVars, timerVars
<1>2. \A tm : IInv(tm) => IInv(tm)'
  BY <1>1, ResumeStep
<1>3. Aside(s)
  <2>1. Types /\ cur[s] \notin Procs
    BY <1>1, NowTypes DEF IdleLabels
  <2> QED BY <1>1, <2>1 DEF Aside, Types
<1> QED BY <1>2, <1>3, AsideStep

(* Time passes. *)
LEMMA TickKeeps ==
  ASSUME TimerInv, Tick \/ UNCHANGED tvars
  PROVE  AltInv' /\ Link'
<1>1. UNCHANGED vars /\ UNCHANGED <<node, tn, tq, wait, tlink>>
  BY DEF Tick, tvars, timerVars
<1>2. UNCHANGED <<pc, cur, iptr, todo, guards>>
  BY <1>1 DEF vars, schedVars, procVars, altVars
<1>3. PICK tm : tm = TimersNow /\ IInv(tm)
  BY DEF TimerInv, AltInv
<1>4. TimersNow' = TimersNow
  BY <1>1, <1>2 DEF TimersNow, NodeRef, HasNode, Runs
<1>5. IInv(tm)'
  BY <1>1, <1>3, StutterStep
<1>6. AltInv'
  BY <1>3, <1>4, <1>5 DEF AltInv
<1>7. \A n \in Nodes : OwnerAt(n)'
  <2>1. \A n \in Nodes : OwnerAt(n)
    BY DEF TimerInv, Link
  <2> QED BY <1>1, <1>2, <2>1 DEF OwnerAt, Live, Disables, Somewhere, Has
<1>8. \A p \in Procs : LinkAt(p)'
  <2>1. \A p \in Procs : LinkAt(p)
    BY DEF TimerInv, Link
  <2> QED BY <1>1, <1>2, <2>1 DEF LinkAt, Runs, TimerTodo, Elems
<1>9. \A t \in Scheds : HandsAt(t)'
  <2>1. \A t \in Scheds : HandsAt(t)
    BY DEF TimerInv, Link
  <2> QED BY <1>1, <1>2, <2>1 DEF HandsAt, Timed
<1> QED BY <1>6, <1>7, <1>8, <1>9 DEF Link

(***************************************************************************)
(* What a queue keeps.                                                     *)
(***************************************************************************)
(* Every position that is kept has a rank of its own. *)
LEMMA RankOnce ==
  ASSUME NEW L \in Nat, NEW K, K \subseteq 1..L, NEW i \in K, NEW j \in K,
         Cardinality(Upto(K, i)) = Cardinality(Upto(K, j))
  PROVE  i = j
<1>1. \A a \in K : IsFiniteSet(Upto(K, a)) /\ Cardinality(Upto(K, a)) \in Nat
  <2> SUFFICES ASSUME NEW a \in K PROVE IsFiniteSet(Upto(K, a)) /\ Cardinality(Upto(K, a)) \in Nat
    OBVIOUS
  <2>1. IsFiniteSet(1..L)
    BY FS_Interval
  <2>2. Upto(K, a) \subseteq 1..L
    BY DEF Upto
  <2> QED BY <2>1, <2>2, FS_Subset, FS_CardinalityType
<1>2. ASSUME NEW a \in K, NEW b \in K, a < b PROVE Cardinality(Upto(K, a)) < Cardinality(Upto(K, b))
  <2>1. \A c \in K : c \in Int
    OBVIOUS
  <2>2. b \notin Upto(K, a) /\ Upto(K, a) \cup {b} \subseteq Upto(K, b)
    <3>1. a \in Int /\ b \in Int /\ ~(b <= a) /\ b <= b
      BY <1>2, <2>1
    <3>2. \A c \in K : c <= a => c <= b
      BY <1>2, <2>1
    <3> QED BY <3>1, <3>2 DEF Upto
  <2>3. Cardinality(Upto(K, a) \cup {b}) = Cardinality(Upto(K, a)) + 1
    BY <1>1, <2>2, CardStep
  <2>4. Cardinality(Upto(K, a) \cup {b}) <= Cardinality(Upto(K, b))
    BY <1>1, <2>2, FS_Subset
  <2> QED BY <1>1, <2>3, <2>4
<1>3. i \in Int /\ j \in Int
  OBVIOUS
<1>4. ~(i < j) /\ ~(j < i)
  BY <1>1, <1>2
<1> QED BY <1>3, <1>4

(* A node that is not to go stays. *)
LEMMA WithoutKeeps ==
  ASSUME NEW q \in Seq(Nodes), NEW gone, NEW m, Has(q, m), m \notin gone
  PROVE  Has(Without(q, gone), m)
<1> DEFINE K == {i \in DOMAIN q : q[i] \notin gone}
<1> DEFINE At_(k) == CHOOSE i \in K : Cardinality(Upto(K, i)) = k
<1>1. Without(q, gone) = [k \in 1..Cardinality(K) |-> q[At_(k)]]
  BY DEF Without, Upto
<1>2. Len(q) \in Nat /\ DOMAIN q = 1..Len(q) /\ K \subseteq 1..Len(q)
  OBVIOUS
<1>3. PICK i \in K : q[i] = m
  BY DEF Has
<1> DEFINE k == Cardinality(Upto(K, i))
<1>4. k \in 1..Cardinality(K)
  <2> HIDE DEF K
  <2>1. IsFiniteSet(1..Len(q))
    BY <1>2, FS_Interval
  <2>2. IsFiniteSet(K) /\ Cardinality(K) \in Nat
    BY <1>2, <2>1, FS_Subset, FS_CardinalityType
  <2>3. Upto(K, i) \subseteq K /\ i \in Upto(K, i)
    BY <1>2, <1>3 DEF Upto
  <2>4. IsFiniteSet(Upto(K, i)) /\ Cardinality(Upto(K, i)) \in Nat /\ Cardinality(Upto(K, i)) <= Cardinality(K)
    BY <2>2, <2>3, FS_Subset, FS_CardinalityType
  <2>5. Cardinality(Upto(K, i)) # 0
    BY <2>3, <2>4, FS_EmptySet
  <2> QED BY <2>2, <2>4, <2>5
<1>5. At_(k) = i
  <2> HIDE DEF K
  <2>1. At_(k) \in K /\ Cardinality(Upto(K, At_(k))) = k
    BY <1>3
  <2> HIDE DEF At_
  <2> QED BY <1>2, <1>3, <2>1, RankOnce
<1> HIDE DEF At_, K, k
<1>6. k \in DOMAIN Without(q, gone) /\ Without(q, gone)[k] = m
  BY <1>1, <1>3, <1>4, <1>5
<1> QED BY <1>6 DEF Has

(* Only the first node goes. *)
LEMMA TailKeeps ==
  ASSUME NEW q \in Seq(Nodes), q # << >>, NEW m, Has(q, m), m # Head(q)
  PROVE  Has(Tail(q), m)
<1>1. Len(q) \in Nat /\ Head(q) = q[1] /\ DOMAIN q = 1..Len(q)
  OBVIOUS
<1>2. DOMAIN Tail(q) = 1..(Len(q) - 1) /\ \A k \in 1..(Len(q) - 1) : Tail(q)[k] = q[k + 1]
  OBVIOUS
<1>3. PICK i \in 1..Len(q) : q[i] = m
  BY <1>1 DEF Has
<1>4. i # 1 /\ i - 1 \in 1..(Len(q) - 1) /\ i - 1 + 1 = i
  BY <1>1, <1>3
<1>5. i - 1 \in DOMAIN Tail(q) /\ Tail(q)[i - 1] = m
  <2>1. Tail(q)[i - 1] = q[i - 1 + 1]
    BY <1>2, <1>4
  <2> QED BY <1>2, <1>3, <1>4, <2>1
<1> QED BY <1>5 DEF Has

(* insert_tqnode: the new node and every node that was there. *)
LEMMA InsertKeeps ==
  ASSUME NEW q \in Seq(Nodes), NEW n \in Nodes, NEW i \in 0..Len(q)
  PROVE  /\ Has(Inserted(q, n, i), n)
         /\ \A m : Has(q, m) => Has(Inserted(q, n, i), m)
<1> DEFINE a == SubSeq(q, 1, i)
<1> DEFINE b == SubSeq(q, i + 1, Len(q))
<1> DEFINE e == <<n>>
<1>a. a \in Seq(Nodes) /\ Len(a) = i /\ \A k \in 1..i : a[k] = q[k]
  OBVIOUS
<1>b. b \in Seq(Nodes) /\ Len(b) = Len(q) - i /\ \A k \in 1..(Len(q) - i) : b[k] = q[i + k]
  OBVIOUS
<1>e. e \in Seq(Nodes) /\ Len(e) = 1 /\ e[1] = n
  OBVIOUS
<1>i. Inserted(q, n, i) = (a \o e) \o b
  BY Zenon DEF Inserted
<1> HIDE DEF a, b, e
<1> DEFINE d == a \o e
<1>d. d \in Seq(Nodes)
  BY <1>a, <1>e, ConcatProperties, Zenon
<1>j. Inserted(q, n, i) = d \o b
  BY <1>i
<1> DEFINE r == d \o b
<1> HIDE DEF r
<1>2. Len(q) \in Nat /\ i \in Nat /\ DOMAIN q = 1..Len(q)
  OBVIOUS
<1>3. Len(d) = i + 1 /\ d[i + 1] = n /\ \A k \in 1..i : d[k] = q[k]
  <2>1. /\ Len(a \o e) = Len(a) + Len(e)
        /\ \A k \in 1..(Len(a) + Len(e)) : (a \o e)[k] = IF k <= Len(a) THEN a[k] ELSE e[k - Len(a)]
    BY <1>a, <1>e, ConcatProperties, Zenon
  <2>2. Len(d) = i + 1 /\ \A k \in 1..(i + 1) : d[k] = IF k <= i THEN a[k] ELSE e[k - i]
    BY <1>a, <1>e, <2>1
  <2> HIDE DEF d
  <2>3. i + 1 \in 1..(i + 1) /\ ~(i + 1 <= i) /\ i + 1 - i = 1
    BY <1>2
  <2>4. \A k \in 1..i : k \in 1..(i + 1) /\ k <= i
    BY <1>2
  <2> QED BY <1>a, <1>e, <2>2, <2>3, <2>4
<1> HIDE DEF d
<1>4. /\ DOMAIN r = 1..(Len(q) + 1)
      /\ \A k \in 1..(Len(q) + 1) : r[k] = IF k <= i + 1 THEN d[k] ELSE b[k - (i + 1)]
  <2>1. /\ d \o b \in Seq(Nodes) /\ Len(d \o b) = Len(d) + Len(b)
        /\ \A k \in 1..(Len(d) + Len(b)) : (d \o b)[k] = IF k <= Len(d) THEN d[k] ELSE b[k - Len(d)]
    BY <1>b, <1>d, ConcatProperties, Zenon
  <2>2. Len(d) + Len(b) = Len(q) + 1
    BY <1>b, <1>2, <1>3
  <2>3. r \in Seq(Nodes) /\ Len(r) = Len(q) + 1
    BY <2>1, <2>2 DEF r
  <2>4. \A k \in 1..(Len(q) + 1) : r[k] = IF k <= i + 1 THEN d[k] ELSE b[k - (i + 1)]
    BY <1>3, <2>1, <2>2 DEF r
  <2> QED BY <2>3, <2>4
<1>5. Has(r, n)
  <2>1. i + 1 \in 1..(Len(q) + 1) /\ i + 1 <= i + 1
    BY <1>2
  <2>2. r[i + 1] = n
    BY <1>3, <1>4, <2>1
  <2> QED BY <1>4, <2>1, <2>2 DEF Has
<1>6. ASSUME NEW k \in 1..Len(q) PROVE \E j \in DOMAIN r : r[j] = q[k]
  <2>1. CASE k <= i
    <3>1. k \in 1..i /\ k \in 1..(Len(q) + 1) /\ k <= i + 1
      BY <1>2, <2>1
    <3>2. r[k] = q[k]
      BY <1>3, <1>4, <3>1
    <3> QED BY <1>4, <3>1, <3>2
  <2>2. CASE ~(k <= i)
    <3>1. k + 1 \in 1..(Len(q) + 1) /\ ~(k + 1 <= i + 1) /\ k + 1 - (i + 1) = k - i
          /\ k - i \in 1..(Len(q) - i) /\ i + (k - i) = k
      BY <1>2, <2>2
    <3>2. r[k + 1] = b[k - i] /\ b[k - i] = q[k]
      BY <1>b, <1>4, <3>1
    <3> QED BY <1>4, <3>1, <3>2
  <2> QED BY <2>1, <2>2
<1>7. ASSUME NEW m, Has(q, m) PROVE Has(r, m)
  BY <1>2, <1>6, <1>7 DEF Has
<1> QED BY <1>j, <1>5, <1>7 DEF r

(***************************************************************************)
(* Steps with one node: what they do to the parameter of the invariant.    *)
(***************************************************************************)
LEMMA NowIs ==
  ASSUME NEW tm, tm = TimersNow
  PROVE  \A p \in Procs : tm.refs[p] = NodeRef(p) /\ (p \in tm.tin <=> wait[p] # NoTime)
BY DEF TimersNow

(* The same in the next state.                                             *)
LEMMA NextIs ==
  ASSUME NEW to, to = TimersNow'
  PROVE  \A p \in Procs : to.refs[p] = NodeRef(p)' /\ (p \in to.tin <=> wait'[p] # NoTime)
BY DEF TimersNow

(* Only those in P lose or get a reference or go to sleep or wake. *)
LEMMA HandledSame ==
  ASSUME NEW tm, tm = TimersNow, NEW to, to = TimersNow', NEW s \in Scheds, NEW n \in Nodes, Handles(s, n),
         NEW P, \A q \in Procs : q \notin P =>
                  /\ q # cur[s] /\ (node'[n].wptr = AltPtr(q) <=> node[n].wptr = AltPtr(q))
                  /\ wait'[q] = NoTime <=> wait[q] = NoTime
  PROVE  Same(tm, to, P)
<1> SUFFICES ASSUME NEW q \in Procs, q \notin P
             PROVE  to.refs[q] = tm.refs[q] /\ (q \in to.tin <=> q \in tm.tin)
  BY DEF Same
<1>1. NodeRef(q)' = NodeRef(q)
  BY HandledRefs
<1> QED BY <1>1, NowIs, NextIs

(* Nobody has a node that may be allocated. *)
LEMMA FreeOwner ==
  ASSUME TimerInv, NEW n \in Nodes, Allocatable(n)
  PROVE  /\ \A t \in Scheds : ~Has(tq[t], n) /\ tn[t] # n
         /\ \A p \in Procs : tlink[p] # n /\ node[n].wptr # AltPtr(p)
<1>1. NodeInv
  BY DEF TimerInv
<1>2. /\ \A t \in Scheds : ~Has(tq[t], n) /\ tn[t] # n
      /\ \A p \in Procs : tlink[p] # n
  BY <1>1, AllocatableFacts
<1>3. ASSUME NEW p \in Procs, node[n].wptr = AltPtr(p) PROVE FALSE
  <2>1. Somewhere(n)
    BY <1>3, OwnNode
  <2> QED BY <1>2, <2>1 DEF Somewhere
<1> QED BY <1>2, <1>3

(* Every node stays in the queue a node is added to. *)
LEMMA AddKeeps ==
  ASSUME Typed, NEW s \in Scheds, NEW n \in Nodes, NEW p \in Procs, NEW t \in Time, NEW alt \in BOOLEAN,
         AddToTimerQueue(s, n, p, t, alt)
  PROVE  Has(tq'[s], n) /\ \A m : Has(tq[s], m) => Has(tq'[s], m)
<1>1. TimerTypeOK /\ SchedWords /\ tq[s] \in Seq(Nodes)
  BY DEF Typed, TimerTypeOK
<1>2. PICK q \in Seq(Nodes) : q = tq[s]
  BY <1>1
<1>3. PICK i \in 0..Len(q) : i = Place(tq[s], t)
  BY <1>2, PlaceFacts
<1>4. PICK r : r = Inserted(q, n, i)
  OBVIOUS
<1>5. SetQueue(s, r)
  BY <1>2, <1>3, <1>4, Zenon DEF AddToTimerQueue, Inserted
<1>6. r \in Seq(Nodes)
  BY <1>4, InsertFacts
<1>7. tq'[s] = r
  BY <1>1, <1>5, <1>6, QueueSet
<1>8. Has(r, n) /\ \A m : Has(q, m) => Has(r, m)
  BY <1>4, InsertKeeps
<1> QED BY <1>2, <1>7, <1>8

(* A process that runs is not asleep, and has no node outside of its ALTs. *)
LEMMA RunsAwake ==
  ASSUME NEW tm, IInv(tm), tm = TimersNow, NEW s \in Scheds, NEW p \in Procs, cur[s] = p
  PROVE  /\ wait[p] = NoTime
         /\ ~InAlt(p) /\ pc[s] = "user" => \A m \in Nodes : node[m].wptr # AltPtr(p)
<1>1. /\ p \notin tm.tin /\ (tm.refs[p] # 0 => InAlt(p) \/ (iptr[p] = "selected" /\ pc[s] = "altend_dec"))
      /\ \A L : Runs(p, L) <=> pc[s] \in L
  BY RunnerFacts
<1>2. tm.refs[p] = NodeRef(p) /\ (p \in tm.tin <=> wait[p] # NoTime)
  BY NowIs
<1>3. ASSUME ~InAlt(p), pc[s] = "user", NEW m \in Nodes, node[m].wptr = AltPtr(p) PROVE FALSE
  <2>1. HasNode(p) /\ ~Runs(p, {"taltwt_cas"})
    BY <1>1, <1>3 DEF HasNode
  <2>2. NodeRef(p) # 0
    BY <2>1 DEF NodeRef
  <2> QED BY <1>1, <1>2, <1>3, <2>2
<1> QED BY <1>1, <1>2, <1>3

(* Into TIN. *)
LEMMA TinInv ==
  ASSUME NEW tm, IInv(tm), NEW to, NEW s \in Scheds, NEW p \in Procs, cur[s] = p, pc[s] = "user", iptr[p] = "timed",
         Same(tm, to, {p}), to.refs[p] = 0,
         iptr' = [iptr EXCEPT ![p] = "main"],
         pc' = [pc EXCEPT ![s] = "sched"], cur' = [cur EXCEPT ![s] = NotProcess],
         UNCHANGED <<queued, chan, state, temp, guards, style, todo, ch, word, tgt, io, ready0>>
  PROVE  IInv(to)'
<1>2. Types /\ queued[p] = 0 /\ ~Off(p) /\ p # NotProcess
  BY RunnerFacts, NotProcessAssumption DEF IInv
<1>3. ~TriggeredOn(p) /\ io[p] = R!Idle /\ \A c \in Chans : chan[c] # AltPtr(p)
  BY QuietUser
<1>4. /\ iptr'[p] = "main" /\ \A r \in Procs : r # p => iptr'[r] = iptr[r]
      /\ pc'[s] = "sched" /\ cur'[s] = NotProcess
      /\ \A t \in Scheds : t # s => pc'[t] = pc[t] /\ cur'[t] = cur[t]
  BY <1>2 DEF Types
<1>5. Types'
  <2>1. iptr' \in [Procs -> Labels \cup {"timed"}]
    BY <1>2 DEF Types, Labels
  <2>2. pc' \in [Scheds -> PcLabels] /\ cur' \in [Scheds -> Procs \cup {NotProcess}]
    BY <1>2 DEF Types, PcLabels, IdleLabels
  <2> QED BY <1>2, <2>1, <2>2 DEF Types
<1>6. Touch(s, {p})
  <2>1. Alone(s, p)
    BY <1>4 DEF Alone
  <2> QED BY <2>1, AloneTouch
<1>7. Off(p)' /\ \A L : ~Runs(p, L)'
  <2>1. pc'[s] \notin {"trigger_enqueue", "walk_enqueue"} /\ cur'[s] # p /\ queued'[p] = 0
    BY <1>2, <1>4
  <2> QED BY <1>6, <2>1, RunnerNext
<1>8. FlowAt(to, p)'
  <2>1. temp[p] = Junk
    BY DEF IInv, FlowAt, SelectedAt
  <2>2. iptr'[p] \in {"main", "timed"} /\ ~Runs(p, {"altwt_clear"})' /\ ~Runs(p, {"altend_dec"})'
    BY <1>4, <1>7
  <2> QED BY <2>1, <2>2, MainFlow
<1>9. RunAt(s)' /\ HoldAt(to, s)'
  BY <1>4 DEF RunAt, HoldAt, HoldLabels, IdleLabels, IoLabels, XableLabels, XendLabels, EnbcLabels,
              EnbLabels, AltwtLabels, DiscLabels, DistLabels
<1>10. IoAt(p)' /\ TinAt(to, p)'
  BY <1>3, <1>4, <1>7 DEF IoAt, TinAt
<1>11. /\ pc'[s] \notin {"trigger", "trigger_enqueue", "walk_trigger", "walk_enqueue"} /\ pc[s] # "io_clear" /\ queued'[p] = 0
       /\ ~Transferred(p) /\ ~Transferred(p)' /\ UNCHANGED chan
       /\ (TriggeredOn(p) => Target(p)') /\ \A d \in Chans : chan[d] = AltPtr(p) => AltIn(p, d)'
  BY <1>2, <1>3, <1>4 DEF Transferred
<1> QED BY <1>5, <1>6, <1>8, <1>9, <1>10, <1>11, TimedQuietStep

(* Y_tin gives the process a node of its own. *)
LEMMA TinKeeps ==
  ASSUME TimerInv, NEW s \in Scheds, NEW p \in Procs, NEW d \in TinDelays, NEW n \in Nodes, Tin(s, p, d, n)
  PROVE  AltInv' /\ Link'
<1>1. /\ cur[s] = p /\ pc[s] = "user" /\ iptr[p] = "timed"
      /\ iptr' = [iptr EXCEPT ![p] = "main"]
      /\ pc' = [pc EXCEPT ![s] = "sched"] /\ cur' = [cur EXCEPT ![s] = NotProcess]
      /\ UNCHANGED <<queued, chan, state, temp, guards, style, todo, ch, word, tgt, io, ready0>>
      /\ UNCHANGED <<tlink, tn>> /\ wait' = [wait EXCEPT ![p] = Plus(base[p], d)]
      /\ AddToTimerQueue(s, n, p, Plus(Plus(base[p], d), 1), FALSE)
  BY DEF Tin, At, SetIptr, KernelScheduler, Goto, altVars, localVars, histVars
<1>2. /\ Types /\ OneRunner /\ NodeInv /\ Link /\ TimerTypeOK /\ SchedWords /\ Typed
      /\ HandAt(s) /\ p # NotProcess
  BY NowTypes, NotProcessAssumption DEF NodeInv
<1>3. Plus(base[p], d) \in Time /\ Plus(Plus(base[p], d), 1) \in Time
  <2>1. base[p] \in Int /\ d \in Int
    <3>1. base[p] \in Time
      BY <1>2 DEF TimerTypeOK
    <3> QED BY <3>1, TimeFacts
  <2>2. Plus(base[p], d) \in Time /\ Plus(base[p], d) \in Int
    BY <2>1, TimeFacts
  <2>3. \A t \in Int : Plus(t, 1) \in Time
    <3>1. 1 \in Int
      OBVIOUS
    <3> QED BY <3>1, TimeFacts
  <2> QED BY <2>2, <2>3
<1>4. /\ Allocatable(n) /\ node'[n] = SetupTqnode(s, p, Plus(Plus(base[p], d), 1), FALSE)
      /\ \A m \in Nodes : m # n => node'[m] = node[m]
      /\ \A t \in Scheds : t # s => tq'[t] = tq[t]
      /\ \A m : Has(tq[s], m) => Has(tq'[s], m)
  <2>1. PICK t \in Time : t = Plus(Plus(base[p], d), 1)
    BY <1>3
  <2> DEFINE alt == FALSE
  <2>2. AddToTimerQueue(s, n, p, t, alt) /\ alt \in BOOLEAN
    BY <1>1, <2>1
  <2> HIDE DEF alt
  <2>3. /\ Allocatable(n) /\ node'[n] = SetupTqnode(s, p, t, alt)
        /\ \A m \in Nodes : m # n => node'[m] = node[m]
        /\ \A u \in Scheds : u # s => tq'[u] = tq[u]
    BY <1>2, <2>2, AddFacts
  <2>4. \A m : Has(tq[s], m) => Has(tq'[s], m)
    BY <1>2, <2>2, AddKeeps
  <2> QED BY <2>1, <2>3, <2>4 DEF alt
<1>5. node'[n].wptr = Wptr(p) /\ ~node'[n].dirty
  <2>1. \A t : SetupTqnode(s, p, t, FALSE).wptr = Wptr(p) /\ ~SetupTqnode(s, p, t, FALSE).dirty
    BY DEF SetupTqnode, Wptr
  <2> QED BY <1>4, <2>1
<1>6. /\ \A t \in Scheds : tn[t] # n
      /\ \A q \in Procs : tlink[q] # n /\ node[n].wptr # AltPtr(q)
  BY <1>4, FreeOwner
<1>7. PICK tm : tm = TimersNow /\ IInv(tm)
  BY DEF TimerInv, AltInv
<1>8. wait[p] = NoTime /\ \A m \in Nodes : node[m].wptr # AltPtr(p)
  BY <1>1, <1>7, RunsAwake DEF InAlt
<1>9. /\ pc'[s] = "sched" /\ cur'[s] = NotProcess /\ iptr'[p] = "main" /\ wait'[p] # NoTime
      /\ \A t \in Scheds : t # s => pc'[t] = pc[t] /\ cur'[t] = cur[t]
      /\ \A q \in Procs : q # p => iptr'[q] = iptr[q] /\ wait'[q] = wait[q]
  BY <1>1, <1>2, <1>3, TimeFacts DEF Types, TimerTypeOK
<1>10. tn[s] = NoNode
  BY <1>1, <1>2 DEF HandAt, WalkLabels, DistLabels
<1>11. \A q \in Procs : node'[n].wptr = Wptr(q) => q = p
  BY <1>5, WordFacts
<1>12. \A q \in Procs : node'[n].wptr # AltPtr(q)
  BY <1>5, WordFacts
<1>13. Handles(s, n)
  BY <1>1, <1>4, <1>6, <1>8, <1>9, <1>10, <1>11 DEF Handles
<1>14. OwnerAt(n)'
  <2>1. \A m \in Nodes : node'[m].wptr = Wptr(p) => m = n
    <3>1. \A m \in Nodes : node[m].wptr # Wptr(p)
      BY <1>2, <1>8 DEF Link, OwnerAt
    <3> QED BY <1>4, <3>1
  <2>2. \A t \in Scheds : ~Disables(t, n)'
    BY <1>1, <1>6 DEF Disables
  <2> QED BY <1>5, <1>9, <1>11, <1>12, <2>1, <2>2 DEF OwnerAt
<1>15. HandsAt(s)'
  BY <1>9 DEF HandsAt, DistLabels
<1>16. LinkAt(p)'
  <2>1. LinkAt(p)
    BY <1>2 DEF Link
  <2> QED BY <1>1, <2>1 DEF LinkAt
<1>17. PICK to : to = TimersNow'
  OBVIOUS
<1>18. Same(tm, to, {p})
  BY <1>1, <1>6, <1>7, <1>9, <1>12, <1>13, <1>17, HandledSame
<1>19. to.refs[p] = 0
  <2>1. ~HasNode(p)'
    BY <1>4, <1>8, <1>12 DEF HasNode
  <2>2. ~Runs(p, {"dist_sync", "dist_dec"})'
    BY <1>1, <1>2, <1>9 DEF Runs, OneRunner
  <2>3. NodeRef(p)' = 0
    BY <2>1, <2>2 DEF NodeRef
  <2> QED BY <1>17, <2>3, NextIs
<1>20. IInv(to)'
  BY <1>1, <1>7, <1>18, <1>19, TinInv
<1>21. AltInv'
  BY <1>17, <1>20 DEF AltInv
<1> QED BY <1>1, <1>13, <1>14, <1>15, <1>16, <1>21, HandledLink

(***************************************************************************)
(* Y_taltwt: the node of an ALT.                                           *)
(***************************************************************************)
(* A step after which every process has the references it had. *)
LEMMA SameNow ==
  ASSUME \A p \in Procs : NodeRef(p)' = NodeRef(p), wait' = wait
  PROVE  TimersNow' = TimersNow
BY DEF TimersNow

(* A process that runs has a node counted only in remove_from_timer_queue. *)
LEMMA RunnerRef ==
  ASSUME TimerInv, NEW s \in Scheds, NEW p \in Procs, cur[s] = p
  PROVE  /\ \A L : Runs(p, L) <=> pc[s] \in L
         /\ iptr[p] = "altwt" => NodeRef(p) = 0
         /\ iptr[p] = "altwt" /\ pc[s] # "taltwt_cas" =>
              tlink[p] \notin Nodes /\ \A m \in Nodes : node[m].wptr # AltPtr(p)
<1>1. Types /\ OneRunner /\ Link /\ RunAt(s)
  BY NowTypes
<1>2. \A L : Runs(p, L) <=> pc[s] \in L
  BY <1>1 DEF Runs, OneRunner
<1>3. ASSUME iptr[p] = "altwt" PROVE pc[s] \notin DistLabels
  BY <1>1, <1>3 DEF RunAt
<1>4. ASSUME iptr[p] = "altwt", pc[s] # "taltwt_cas"
      PROVE  tlink[p] \notin Nodes /\ \A m \in Nodes : node[m].wptr # AltPtr(p)
  <2>1. tlink[p] \notin Nodes
    BY <1>1, <1>2, <1>4 DEF Link, LinkAt
  <2>2. ASSUME NEW m \in Nodes, node[m].wptr = AltPtr(p) PROVE FALSE
    <3>1. PICK t \in Scheds : cur[t] = p /\ Disables(t, m)
      BY <2>1, <2>2, OwnNode
    <3>2. t = s
      BY <1>1, <3>1 DEF OneRunner
    <3> QED BY <1>3, <1>4, <3>1, <3>2 DEF Disables
  <2> QED BY <2>1, <2>2
<1>5. iptr[p] = "altwt" => NodeRef(p) = 0
  <2> SUFFICES ASSUME iptr[p] = "altwt" PROVE NodeRef(p) = 0
    OBVIOUS
  <2>1. ~Runs(p, {"dist_sync", "dist_dec"})
    BY <1>2, <1>3 DEF DistLabels
  <2>2. Runs(p, {"taltwt_cas"}) \/ ~HasNode(p)
    BY <1>2, <1>4 DEF HasNode
  <2> QED BY <2>1, <2>2 DEF NodeRef
<1> QED BY <1>2, <1>4, <1>5

(* The node goes into the queue before the compare-and-swap counts it. *)
LEMMA TaltWtKeeps ==
  ASSUME TimerInv, NEW s \in Scheds, NEW p \in Procs, NEW n \in Nodes, TaltWt(s, p, n)
  PROVE  AltInv' /\ Link'
<1>1. /\ cur[s] = p /\ pc[s] = "user" /\ iptr[p] = "altwt" /\ Timed(guards[p])
      /\ pc' = [pc EXCEPT ![s] = "taltwt_cas"] /\ temp' = [temp EXCEPT ![p] = None]
      /\ UNCHANGED <<queued, cur, chan, state, iptr, guards, style, todo, ch, word, tgt, io, ready0>>
      /\ UNCHANGED <<tn, wait>> /\ tlink' = [tlink EXCEPT ![p] = n]
      /\ AddToTimerQueue(s, n, p, timeF[p], TRUE)
  BY DEF TaltWt, At, Goto, altVars, localVars, histVars
<1>2. /\ Types /\ OneRunner /\ NodeInv /\ Link /\ TimerTypeOK /\ SchedWords /\ Typed
      /\ HandAt(s) /\ p # NotProcess
  BY NowTypes, NotProcessAssumption DEF NodeInv
<1>4. /\ Allocatable(n) /\ node'[n].wptr = AltPtr(p)
      /\ \A m \in Nodes : m # n => node'[m] = node[m]
      /\ \A t \in Scheds : t # s => tq'[t] = tq[t]
      /\ Has(tq'[s], n) /\ \A m : Has(tq[s], m) => Has(tq'[s], m)
  <2>1. PICK t \in Time : t = timeF[p]
    BY <1>2 DEF TimerTypeOK
  <2> DEFINE alt == TRUE
  <2>2. AddToTimerQueue(s, n, p, t, alt) /\ alt \in BOOLEAN
    BY <1>1, <2>1
  <2>5. SetupTqnode(s, p, t, alt).wptr = AltPtr(p)
    BY DEF SetupTqnode, AltPtr
  <2> HIDE DEF alt
  <2>3. /\ Allocatable(n) /\ node'[n] = SetupTqnode(s, p, t, alt)
        /\ \A m \in Nodes : m # n => node'[m] = node[m]
        /\ \A u \in Scheds : u # s => tq'[u] = tq[u]
    BY <1>2, <2>2, AddFacts
  <2>4. Has(tq'[s], n) /\ \A m : Has(tq[s], m) => Has(tq'[s], m)
    BY <1>2, <2>2, AddKeeps
  <2> QED BY <2>3, <2>4, <2>5
<1>5. /\ \A t \in Scheds : tn[t] # n
      /\ \A q \in Procs : tlink[q] # n /\ node[n].wptr # AltPtr(q)
  BY <1>4, FreeOwner
<1>6. /\ tlink[p] \notin Nodes /\ (\A m \in Nodes : node[m].wptr # AltPtr(p)) /\ NodeRef(p) = 0
  BY <1>1, RunnerRef
<1>7. /\ pc'[s] = "taltwt_cas" /\ cur'[s] = p /\ tlink'[p] = n
      /\ \A t \in Scheds : t # s => pc'[t] = pc[t] /\ cur'[t] = cur[t]
      /\ \A q \in Procs : q # p => tlink'[q] = tlink[q]
  BY <1>1, <1>2 DEF Types, TimerTypeOK
<1>8. tn[s] = NoNode
  BY <1>1, <1>2 DEF HandAt, WalkLabels, DistLabels
<1>9. \A q \in Procs : node'[n].wptr # Wptr(q) /\ (node'[n].wptr = AltPtr(q) => q = p)
  BY <1>4, WordFacts
<1>10. Handles(s, n)
  BY <1>1, <1>4, <1>5, <1>6, <1>7, <1>8, <1>9 DEF Handles
<1>11. OwnerAt(n)'
  <2>1. \A t \in Scheds : ~Disables(t, n)'
    BY <1>1, <1>5 DEF Disables
  <2>2. Somewhere(n)'
    BY <1>4 DEF Somewhere
  <2> QED BY <1>4, <1>7, <1>9, <2>1, <2>2 DEF OwnerAt
<1>12. HandsAt(s)' /\ LinkAt(p)'
  BY <1>1, <1>4, <1>7 DEF HandsAt, LinkAt, Runs, DistLabels, Timed
<1>13. TimersNow' = TimersNow
  <2>1. ASSUME NEW q \in Procs, q # p PROVE NodeRef(q)' = NodeRef(q)
    BY <1>1, <1>5, <1>9, <1>10, <2>1, HandledRefs
  <2>2. NodeRef(p)' = 0
    BY <1>1, <1>2, <1>7 DEF NodeRef, Runs, OneRunner
  <2> QED BY <1>1, <1>6, <2>1, <2>2, SameNow
<1>14. PICK tm : tm = TimersNow /\ IInv(tm)
  BY DEF TimerInv, AltInv
<1>15. IInv(tm)'
  <2>1. PICK l \in AltwtLabels : l = "taltwt_cas"
    BY DEF AltwtLabels
  <2> QED BY <1>1, <1>14, <2>1, AltWtStay
<1>16. AltInv'
  BY <1>13, <1>14, <1>15 DEF AltInv
<1> QED BY <1>1, <1>10, <1>11, <1>12, <1>16, HandledLink

(* The workspace of the process that sleeps is counted in its node. *)
LEMMA TaltSleeps ==
  ASSUME NEW tm, IInv(tm), NEW to, NEW s \in Scheds, NEW p \in Procs, cur[s] = p, pc[s] = "taltwt_cas", iptr[p] = "altwt",
         Same(tm, to, {p}), p \notin to.tin, tm.refs[p] = 0, to.refs[p] = 1,
         UNCHANGED <<queued, chan, temp, guards, style, ch, word, tgt, io>>,
         SetState(p, AltState(FALSE, TRUE, FALSE, state[p].n + 1)), StartDisabling(p, Len(guards[p])),
         pc' = [pc EXCEPT ![s] = "sched"], cur' = [cur EXCEPT ![s] = NotProcess]
  PROVE  IInv(to)'
<1>3. /\ Types /\ temp[p] = None /\ state[p].n \in Int
      /\ Len(guards[p]) \in 1..Len(guards[p]) /\ Len(guards[p]) - Len(todo[p]) <= Len(guards[p])
      /\ TriggeredOn(p) => \E i \in 1..Len(guards[p]) : Ready(guards[p][i])
  BY AltwtFacts DEF AltwtLabels
<1>4. temp' = [temp EXCEPT ![p] = None]
  BY <1>3 DEF Types
<1>5. PICK st \in StateWords : /\ st = AltState(FALSE, TRUE, FALSE, state[p].n + 1)
                               /\ st.tag = "alt" /\ st.waiting /\ st.n = state[p].n + 1
  <2>1. PICK m \in Int : m = state[p].n + 1
    BY <1>3
  <2>2. PICK st \in StateWords : st = AltState(FALSE, TRUE, FALSE, m)
    BY StateFacts
  <2>3. st.tag = "alt" /\ st.waiting /\ st.n = m
    BY <2>2, StateFacts
  <2> QED BY <2>1, <2>2, <2>3
<1>6. PICK k \in 1..Len(guards[p]) : k = Len(guards[p])
  BY <1>3
<1>7. PICK g0 \in Chans \cup Timers \cup {Skip, None, Junk} : g0 = None
  OBVIOUS
<1>8. Returns(s, st.waiting) /\ SetState(p, st) /\ SetTemp(p, g0)
  BY <1>4, <1>5, <1>7 DEF Returns, SetTemp
<1>9. Begins(p, k, g0, st.waiting)
  BY <1>3, <1>5, <1>6, <1>7 DEF Begins
<1>10. /\ iptr[p] \in {"enable", "altwt"} /\ pc[s] \in EnbLabels \cup AltwtLabels
       /\ StartDisabling(p, k) /\ Len(guards[p]) - Len(todo[p]) <= k
  BY <1>3, <1>6 DEF AltwtLabels
<1>11. to.refs[p] \in Nat /\ st.n = state[p].n + (to.refs[p] - tm.refs[p])
  <2>1. PICK a, b : a = to.refs[p] /\ b = tm.refs[p]
    OBVIOUS
  <2>2. a = 1 /\ b = 0
    BY <2>1
  <2>3. PICK m \in Int : m = state[p].n
    BY <1>3
  <2>4. a \in Nat /\ st.n = m + (a - b)
    <3>1. m + (a - b) = m + 1 /\ a \in Nat
      BY <2>2
    <3>2. st.n = m + 1
      BY <1>5, <2>3
    <3> QED BY <3>1, <3>2
  <2> QED BY <2>1, <2>3, <2>4, Zenon
<1> QED BY <1>5, <1>8, <1>9, <1>10, <1>11, TimedStartStep

(* Disabling starts with all the guards. *)
LEMMA AllTodo ==
  ASSUME Types, NEW p \in Procs, Timed(guards[p]), Len(guards[p]) \in 1..Len(guards[p]),
         StartDisabling(p, Len(guards[p]))
  PROVE  TimerTodo(p)'
<1>1. PICK k \in 1..Len(guards[p]) : k = Len(guards[p])
  OBVIOUS
<1>2. PICK q : q = DisablingList(p, k)
  OBVIOUS
<1>3. \A i \in 1..k : guards[p][i] \in Elems(q)
  BY <1>2, DisablingFacts
<1>4. DOMAIN guards[p] = 1..k
  <2>1. guards[p] \in Seq(Chans \cup Timers \cup {Skip})
    BY DEF Types
  <2> QED BY <1>1, <2>1, EmptyFacts
<1>5. PICK g \in Elems(q) : g \in Timers
  BY <1>3, <1>4 DEF Timed
<1>6. todo'[p] = q
  BY <1>1, <1>2 DEF StartDisabling, Types
<1> QED BY <1>5, <1>6 DEF TimerTodo, Elems

(* The compare-and-swap of Y_taltwt succeeds. *)
LEMMA TaltSleepsKeeps ==
  ASSUME TimerInv, NEW s \in Scheds, NEW p \in Procs, TaltWtCas(s, p), state[p].notReady
  PROVE  AltInv' /\ Link'
<1>1. /\ cur[s] = p /\ pc[s] = "taltwt_cas"
      /\ UNCHANGED <<queued, chan, temp, guards, style, ch, word, tgt, io>>
      /\ SetState(p, AltState(FALSE, TRUE, FALSE, state[p].n + 1)) /\ StartDisabling(p, Len(guards[p]))
      /\ pc' = [pc EXCEPT ![s] = "sched"] /\ cur' = [cur EXCEPT ![s] = NotProcess]
      /\ UNCHANGED <<tlink, node, tq, tn, wait>>
  BY DEF TaltWtCas, InKernel, KernelScheduler, altVars, localVars
<1>2. /\ Types /\ OneRunner /\ NodeInv /\ Link /\ TimerTypeOK /\ SchedWords
      /\ HandAt(s) /\ HandsAt(s) /\ CasAt(s) /\ p # NotProcess
  BY NowTypes, NotProcessAssumption
<1>3. PICK n \in Nodes : n = tlink[p] /\ node[n].wptr = AltPtr(p)
  BY <1>1, <1>2 DEF HandsAt, CasAt
<1>4. iptr[p] = "altwt" /\ Timed(guards[p])
  BY <1>1, <1>2 DEF HandsAt, CasAt
<1>5. /\ (\A m \in Nodes : node[m].wptr = AltPtr(p) => m = n) /\ Live(n) /\ Somewhere(n)
      /\ \A q \in Procs : tlink[q] = n => q = p
      /\ \A t \in Scheds : ~Disables(t, n)
  <2>1. \A t \in Scheds : ~Disables(t, n)
    BY <1>2, <1>3, LinkFacts
  <2> QED BY <1>3, <2>1, OwnNode
<1>6. PICK tm : tm = TimersNow /\ IInv(tm)
  BY DEF TimerInv, AltInv
<1>7. wait[p] = NoTime /\ NodeRef(p) = 0
  BY <1>1, <1>4, <1>6, RunsAwake, RunnerRef
<1>8. /\ pc'[s] = "sched" /\ cur'[s] = NotProcess /\ iptr'[p] = "disable"
      /\ \A t \in Scheds : t # s => pc'[t] = pc[t] /\ cur'[t] = cur[t]
      /\ \A q \in Procs : q # p => iptr'[q] = iptr[q] /\ todo'[q] = todo[q]
  BY <1>1, <1>2 DEF Types, StartDisabling, SetIptr
<1>9. tn[s] = NoNode
  BY <1>1, <1>2 DEF HandAt, WalkLabels, DistLabels
<1>10. Handles(s, n)
  BY <1>1, <1>3, <1>8, <1>9 DEF Handles
<1>11. OwnerAt(n)'
  <2>1. \A t \in Scheds : ~Disables(t, n)'
    BY <1>1, <1>2, <1>5, <1>8 DEF Disables, DistLabels
  <2>2. Somewhere(n)'
    BY <1>1, <1>5, <1>8 DEF Somewhere
  <2>3. \A q \in Procs : node[n].wptr # Wptr(q) /\ (node[n].wptr = AltPtr(q) => q = p)
    BY <1>3, WordFacts
  <2> QED BY <1>1, <1>3, <2>1, <2>2, <2>3 DEF OwnerAt
<1>12. LinkAt(p)'
  <2>1. Len(guards[p]) \in 1..Len(guards[p])
    BY <1>1, <1>4, <1>6, AltwtFacts
  <2>2. TimerTodo(p)'
    BY <1>1, <1>2, <1>4, <2>1, AllTodo
  <2> QED BY <1>8, <2>2 DEF LinkAt
<1>13. HandsAt(s)'
  BY <1>8 DEF HandsAt, DistLabels
<1>14. PICK to : to = TimersNow'
  OBVIOUS
<1>15. Same(tm, to, {p})
  BY <1>1, <1>6, <1>10, <1>14, HandledSame
<1>16. to.refs[p] = 1 /\ tm.refs[p] = 0 /\ p \notin to.tin
  <2>1. HasNode(p)'
    BY <1>1, <1>3 DEF HasNode
  <2>2. ~Runs(p, {"taltwt_cas"})'
    BY <1>1, <1>2, <1>8 DEF Runs, OneRunner
  <2>3. NodeRef(p)' = 1
    BY <2>1, <2>2 DEF NodeRef
  <2> QED BY <1>1, <1>6, <1>7, <1>14, <2>3, NowIs, NextIs
<1>17. IInv(to)'
  BY <1>1, <1>4, <1>6, <1>15, <1>16, TaltSleeps
<1>18. AltInv'
  BY <1>14, <1>17 DEF AltInv
<1> QED BY <1>1, <1>10, <1>11, <1>12, <1>13, <1>18, HandledLink

(***************************************************************************)
(* Nodes that are given back.                                              *)
(***************************************************************************)
(* A node that the queue and the ALT are done with has no workspace. *)
LEMMA WipedFacts ==
  ASSUME NEW nd \in TqNode
  PROVE  /\ ~nd.dirty \/ nd.wptr = Empty => Release(nd).wptr = Empty
         /\ nd.released \/ nd.wptr = Empty => Clean(nd).wptr = Empty
         /\ Release(Clean(nd)) \in TqNode /\ Release(Clean(nd)).wptr = Empty
<1>1. FreeNode.wptr = Empty
  BY DEF FreeNode
<1>2. ASSUME NEW x \in TqNode, ~x.dirty \/ x.wptr = Empty PROVE Release(x).wptr = Empty
  <2>1. PICK r \in TqNode : r = [x EXCEPT !.released = TRUE]
    BY DEF TqNode
  <2>2. r.released /\ r.dirty = x.dirty /\ r.wptr = x.wptr
    BY <2>1 DEF TqNode
  <2>3. Release(x) = IF r.released /\ ~r.dirty THEN FreeNode ELSE r
    BY <2>1 DEF Release, Tidy
  <2> QED BY <1>1, <1>2, <2>2, <2>3
<1>3. ASSUME nd.released \/ nd.wptr = Empty PROVE Clean(nd).wptr = Empty
  <2>1. PICK r \in TqNode : r = [nd EXCEPT !.dirty = FALSE]
    BY DEF TqNode
  <2>2. ~r.dirty /\ r.released = nd.released /\ r.wptr = nd.wptr
    BY <2>1 DEF TqNode
  <2>3. Clean(nd) = IF r.released /\ ~r.dirty THEN FreeNode ELSE r
    BY <2>1 DEF Clean, Tidy
  <2> QED BY <1>1, <1>3, <2>2, <2>3
<1>4. PICK x \in TqNode : x = Clean(nd) /\ ~x.dirty
  BY CleanFacts
<1>5. Release(x) \in TqNode /\ Release(x).wptr = Empty
  BY <1>2, <1>4, ReleaseFacts
<1> QED BY <1>2, <1>3, <1>4, <1>5

(* A live node in TLink, or in remove_from_timer_queue, is of that process. *)
LEMMA OwnedLink ==
  ASSUME TimerInv, NEW p \in Procs, NEW n \in Nodes, Live(n),
         tlink[p] = n \/ \E s \in Scheds : cur[s] = p /\ Disables(s, n)
  PROVE  node[n].wptr = AltPtr(p)
<1>1. NodeInv /\ OwnerAt(n)
  BY NowTypes DEF Link
<1>2. ~OfTin(n)
  BY <1>1 DEF NodeInv, NodeAt, HeldAt
<1>3. PICK r \in Procs : node[n].wptr \in {Wptr(r), AltPtr(r)}
  BY <1>1 DEF OwnerAt
<1>4. node[n].wptr = AltPtr(r)
  BY <1>2, <1>3, WordFacts DEF OfTin
<1>5. r = p
  BY <1>4, OwnNode
<1> QED BY <1>4, <1>5

(* The compare-and-swap of Y_taltwt fails: the node goes back. *)
LEMMA TaltFailsKeeps ==
  ASSUME TimerInv, NEW s \in Scheds, NEW p \in Procs, TaltWtCas(s, p), ~state[p].notReady
  PROVE  AltInv' /\ Link'
<1>1. /\ cur[s] = p /\ pc[s] = "taltwt_cas"
      /\ UNCHANGED <<queued, cur, chan, state, temp, iptr, guards, style, todo, ch, word, tgt, io, ready0>>
      /\ UNCHANGED <<tn, wait>> /\ tlink' = [tlink EXCEPT ![p] = Set]
      /\ SetQueue(s, Without(tq[s], {tlink[p]})) /\ SetNode(tlink[p], Release(Clean(node[tlink[p]])))
      /\ pc' = [pc EXCEPT ![s] = "taltwt_clear"]
  BY DEF TaltWtCas, InKernel, Goto, altVars, localVars
<1>2. /\ Types /\ OneRunner /\ NodeInv /\ Link /\ TimerTypeOK /\ SchedWords
      /\ HandAt(s) /\ HandsAt(s) /\ CasAt(s) /\ p # NotProcess /\ tq[s] \in Seq(Nodes)
  BY NowTypes, NotProcessAssumption DEF TimerTypeOK
<1>3. PICK n \in Nodes : n = tlink[p] /\ node[n].wptr = AltPtr(p)
  BY <1>1, <1>2 DEF HandsAt, CasAt
<1>4. iptr[p] = "altwt" /\ Timed(guards[p]) /\ node[n] \in TqNode
  BY <1>1, <1>2 DEF HandsAt, CasAt, TimerTypeOK
<1>5. /\ \A m \in Nodes : node[m].wptr = AltPtr(p) => m = n
      /\ \A q \in Procs : tlink[q] = n => q = p
  BY <1>3, OwnNode
<1>6. PICK w \in Seq(Nodes) : w = Without(tq[s], {n}) /\ \A m : m # n /\ Has(tq[s], m) => Has(w, m)
  BY <1>2, WithoutFacts, WithoutKeeps
<1>7. tq'[s] = w /\ \A t \in Scheds : t # s => tq'[t] = tq[t]
  BY <1>1, <1>2, <1>3, <1>6, QueueSet
<1>8. node'[n].wptr = Empty /\ \A m \in Nodes : m # n => node'[m] = node[m]
  BY <1>1, <1>2, <1>3, <1>4, WipedFacts, NodeSet
<1>9. /\ pc'[s] = "taltwt_clear" /\ cur'[s] = p /\ tlink'[p] = Set
      /\ \A t \in Scheds : t # s => pc'[t] = pc[t] /\ cur'[t] = cur[t]
      /\ \A q \in Procs : q # p => tlink'[q] = tlink[q]
  BY <1>1, <1>2 DEF Types, TimerTypeOK
<1>10. tn[s] = NoNode
  BY <1>1, <1>2 DEF HandAt, WalkLabels, DistLabels
<1>11. \A q \in Procs : node'[n].wptr # Wptr(q) /\ node'[n].wptr # AltPtr(q)
  BY <1>8, WordFacts
<1>12. Handles(s, n)
  BY <1>1, <1>3, <1>5, <1>6, <1>7, <1>8, <1>9, <1>10, <1>11 DEF Handles
<1>13. OwnerAt(n)'
  BY <1>8, DeadOwner
<1>14. HandsAt(s)' /\ LinkAt(p)'
  BY <1>1, <1>4, <1>9, TimeFacts DEF HandsAt, LinkAt, DistLabels, Timed
<1>15. TimersNow' = TimersNow
  <2>1. ASSUME NEW q \in Procs, q # p PROVE NodeRef(q)' = NodeRef(q)
    <3>1. node[n].wptr # AltPtr(q)
      BY <1>3, <2>1, WordFacts
    <3> QED BY <1>1, <1>11, <1>12, <2>1, <3>1, HandledRefs
  <2>2. NodeRef(p) = 0
    BY <1>1, <1>4, RunnerRef
  <2>3. ~HasNode(p)'
    BY <1>5, <1>8, <1>11 DEF HasNode
  <2>4. ~Runs(p, {"dist_sync", "dist_dec"})'
    BY <1>1, <1>2, <1>9 DEF Runs, OneRunner
  <2>5. NodeRef(p)' = 0
    BY <2>3, <2>4 DEF NodeRef
  <2> QED BY <1>1, <2>1, <2>2, <2>5, SameNow
<1>16. PICK tm : tm = TimersNow /\ IInv(tm)
  BY DEF TimerInv, AltInv
<1>17. IInv(tm)'
  <2>1. PICK l \in AltwtLabels : l = "taltwt_clear"
    BY DEF AltwtLabels
  <2>2. temp[p] = None
    BY <1>1, <1>4, <1>16, AltwtFacts DEF AltwtLabels
  <2>3. temp' = [temp EXCEPT ![p] = None]
    BY <1>1, <1>2, <2>2 DEF Types
  <2> QED BY <1>1, <1>4, <1>16, <2>1, <2>3, AltWtStay
<1>18. AltInv'
  BY <1>15, <1>16, <1>17 DEF AltInv
<1> QED BY <1>1, <1>12, <1>13, <1>14, <1>18, HandledLink

-----------------------------------------------------------------------------
(***************************************************************************)
(* remove_from_timer_queue and what follows it.                            *)
(***************************************************************************)
(* A guard is disabled after its node fired. *)
LEMMA FiredKeeps ==
  ASSUME TimerInv, NEW s \in Scheds, NEW p \in Procs, NEW n \in Nodes,
         cur[s] = p, pc[s] \in {"user", "dist_swap"}, iptr[p] = "disable", Head(todo[p]) \in Timers,
         ~Live(n), DistFired(s, p, n), (tlink[p] = n /\ tn[s] = NoNode) \/ Disables(s, n),
         UNCHANGED <<queued, chan, state, guards, style, ch, word, tgt, io, ready0, wait>>
  PROVE  AltInv' /\ Link'
<1>1. /\ NextGuard(p) /\ (Select(p, Head(todo[p])) \/ UNCHANGED temp)
      /\ tlink' = [tlink EXCEPT ![p] = IF After(Due(p, Head(todo[p])), node[n].time) THEN Set ELSE NotSet]
      /\ tn' = [tn EXCEPT ![s] = NoNode] /\ SetNode(n, Release(node[n]))
      /\ pc' = [pc EXCEPT ![s] = "user"] /\ UNCHANGED <<cur, tq>>
  BY DEF DistFired
<1>2. /\ Types /\ OneRunner /\ NodeInv /\ Link /\ TimerTypeOK /\ SchedWords
      /\ HandsAt(s) /\ p # NotProcess
  BY NowTypes, NotProcessAssumption
<1>3. node[n] \in TqNode /\ node[n].wptr = Empty
  BY <1>2 DEF TimerTypeOK, Live
<1>4. node'[n].wptr = Empty /\ \A m \in Nodes : m # n => node'[m] = node[m]
  <2>1. PICK nd \in TqNode : nd = Release(node[n]) /\ nd.wptr = Empty
    BY <1>3, WipedFacts, ReleaseFacts
  <2>2. SetNode(n, nd)
    BY <1>1, <2>1
  <2> QED BY <1>2, <2>1, <2>2, NodeSet
<1>5. /\ tlink'[p] \in {NotSet, Set} /\ \A q \in Procs : q # p => tlink'[q] = tlink[q]
      /\ pc'[s] = "user" /\ tn'[s] = NoNode /\ cur'[s] = p
      /\ \A t \in Scheds : t # s => pc'[t] = pc[t] /\ tn'[t] = tn[t] /\ cur'[t] = cur[t]
      /\ \A q \in Procs : q # p => iptr'[q] = iptr[q] /\ todo'[q] = todo[q]
  BY <1>1, <1>2 DEF Types, TimerTypeOK, NextGuard, SetIptr
<1>6. tn[s] \in {NoNode, n} /\ tlink[p] \notin Nodes \ {n}
  BY <1>2 DEF Disables, HandsAt
<1>7. \A q \in Procs : /\ node'[n].wptr # Wptr(q) /\ node'[n].wptr # AltPtr(q)
                       /\ node[n].wptr # Wptr(q) /\ node[n].wptr # AltPtr(q)
  BY <1>3, <1>4, WordFacts
<1>8. Handles(s, n)
  BY <1>1, <1>3, <1>4, <1>5, <1>6, <1>7 DEF Handles
<1>9. OwnerAt(n)'
  BY <1>4, DeadOwner
<1>10. HandsAt(s)' /\ LinkAt(p)'
  BY <1>5, TimeFacts DEF HandsAt, LinkAt, DistLabels
<1>11. TimersNow' = TimersNow
  <2>1. \A q \in Procs : q # p => NodeRef(q)' = NodeRef(q)
    BY <1>7, <1>8, HandledRefs
  <2>2. HasNode(p)' <=> HasNode(p)
    BY <1>4, <1>7 DEF HasNode
  <2>3. \A L : (Runs(p, L) <=> pc[s] \in L) /\ (Runs(p, L)' <=> pc'[s] \in L)
    BY <1>2, <1>5 DEF Runs, OneRunner
  <2>4. NodeRef(p)' = NodeRef(p)
    BY <1>5, <2>2, <2>3 DEF NodeRef
  <2> QED BY <2>1, <2>4, SameNow
<1>12. PICK tm : tm = TimersNow /\ IInv(tm)
  BY DEF TimerInv, AltInv
<1>13. IInv(tm)'
  <2>1. ListAt(p)
    BY <1>12 DEF IInv, FlowAt
  <2>2. Timed(guards[p]) /\ Ready(Head(todo[p])) /\ Head(todo[p]) \notin ready0[p] /\ Head(todo[p]) \notin Chans
    BY <1>2, <2>1, TimerGuard
  <2>3. SkippedOver(p) \/ SelectedNow(p)
    BY <1>1, <1>2, <2>2 DEF SkippedOver, SelectedNow, Select, Types
  <2>4. temp' = temp \/ temp' = [temp EXCEPT ![p] = Head(todo[p])]
    BY <1>1 DEF Select
  <2> QED BY <1>1, <1>12, <2>2, <2>3, <2>4, DisableStep
<1>14. AltInv'
  BY <1>11, <1>12, <1>13 DEF AltInv
<1> QED BY <1>8, <1>9, <1>10, <1>14, HandledLink

(* A guard is disabled whose node has fired, or is alive. *)
LEMMA DistKeeps ==
  ASSUME TimerInv, NEW s \in Scheds, NEW p \in Procs, Dist(s, p)
  PROVE  AltInv' /\ Link'
<1>1. /\ cur[s] = p /\ pc[s] = "user" /\ iptr[p] = "disable" /\ Head(todo[p]) \in Timers /\ tlink[p] \in Nodes
      /\ UNCHANGED <<queued, chan, state, guards, style, ch, word, tgt, io, ready0, wait>>
  BY DEF Dist, At, altVars, localVars, histVars
<1>2. /\ Types /\ OneRunner /\ NodeInv /\ Link /\ TimerTypeOK /\ SchedWords
      /\ HandAt(s) /\ HandsAt(s) /\ p # NotProcess /\ tq[s] \in Seq(Nodes) /\ node \in [Nodes -> TqNode]
  BY NowTypes, NotProcessAssumption DEF TimerTypeOK
<1>3. PICK n \in Nodes : n = tlink[p]
  BY <1>1
<1>4. tn[s] = NoNode
  BY <1>1, <1>2 DEF HandAt, WalkLabels, DistLabels
<1>5. CASE ~Live(n)
  <2>1. DistFired(s, p, n)
    BY <1>3, <1>5 DEF Dist
  <2> QED BY <1>1, <1>3, <1>4, <1>5, <2>1, FiredKeeps
<1>6. CASE Live(n)
  <2>1. PICK l \in {"dist_dec", "dist_swap"} :
          /\ tlink' = [tlink EXCEPT ![p] = NotSet] /\ tn' = [tn EXCEPT ![s] = n]
          /\ pc' = [pc EXCEPT ![s] = l] /\ UNCHANGED <<iptr, cur, temp, todo>>
          /\ IF l = "dist_dec" THEN SetQueue(s, Without(tq[s], {n})) /\ SetNode(n, Clean(node[n]))
                               ELSE UNCHANGED <<tq, node>>
    <3>1. CASE node[n].sched = s
      BY <1>3, <1>6, <3>1 DEF Dist, Goto
    <3>2. CASE node[n].sched # s
      BY <1>3, <1>6, <3>2 DEF Dist, Goto
    <3> QED BY <3>1, <3>2
  <2>2. /\ NodeAt(n) /\ node[n] \in TqNode /\ ~node[n].released /\ ~OfTin(n)
        /\ \A q \in Procs : tlink[q] = n => q = p
        /\ \A t \in Scheds : ~Disables(t, n)
    BY <1>2, <1>3, LinkFacts
  <2>3. node[n].wptr = AltPtr(p) /\ \A m \in Nodes : node[m].wptr = AltPtr(p) => m = n
    BY <1>3, <1>6, OwnedLink, OwnNode
  <2>4. /\ pc'[s] = l /\ tn'[s] = n /\ cur'[s] = p /\ tlink'[p] = NotSet
        /\ \A t \in Scheds : t # s => pc'[t] = pc[t] /\ cur'[t] = cur[t] /\ tn'[t] = tn[t]
        /\ \A q \in Procs : q # p => tlink'[q] = tlink[q]
    BY <1>1, <1>2, <2>1 DEF Types, TimerTypeOK
  <2>5. /\ node'[n].wptr = AltPtr(p) /\ (l = "dist_dec" => ~node'[n].dirty) /\ Somewhere(n)'
        /\ \A m \in Nodes : m # n => node'[m] = node[m]
        /\ \A t \in Scheds : t # s => tq'[t] = tq[t]
        /\ \A m \in Nodes : m # n /\ Has(tq[s], m) => Has(tq'[s], m)
    <3>1. CASE l = "dist_dec"
      <4>1. PICK w \in Seq(Nodes) : w = Without(tq[s], {n}) /\ \A m : m # n /\ Has(tq[s], m) => Has(w, m)
        BY <1>2, WithoutFacts, WithoutKeeps
      <4>2. tq'[s] = w /\ \A t \in Scheds : t # s => tq'[t] = tq[t]
        BY <1>2, <2>1, <3>1, <4>1, QueueSet
      <4>3. PICK d \in TqNode : d = Clean(node[n]) /\ ~d.dirty /\ d.wptr = node[n].wptr
        BY <2>2, CleanFacts
      <4>4. node'[n] = d /\ \A m \in Nodes : m # n => node'[m] = node[m]
        BY <1>2, <2>1, <3>1, <4>3, NodeSet
      <4>5. Somewhere(n)'
        BY <2>4, <3>1 DEF Somewhere
      <4> QED BY <2>3, <4>1, <4>2, <4>3, <4>4, <4>5
    <3>2. CASE l # "dist_dec"
      <4>1. UNCHANGED <<tq, node>>
        BY <2>1, <3>2
      <4>2. Somewhere(n)
        BY <2>3, OwnNode
      <4>3. Somewhere(n)'
        BY <1>4, <2>4, <4>1, <4>2, TimeFacts DEF Somewhere, Has
      <4> QED BY <2>3, <3>2, <4>1, <4>3
    <3> QED BY <3>1, <3>2
  <2>6. \A q \in Procs : /\ node'[n].wptr # Wptr(q)
                         /\ q # p => node'[n].wptr # AltPtr(q) /\ node[n].wptr # AltPtr(q)
    BY <2>3, <2>5, WordFacts
  <2>7. Handles(s, n)
    BY <1>1, <1>3, <1>4, <2>1, <2>2, <2>3, <2>4, <2>5, <2>6 DEF Handles
  <2>8. OwnerAt(n)'
    <3>1. Disables(s, n)'
      BY <2>4 DEF Disables, DistLabels
    <3>2. \A t \in Scheds : Disables(t, n)' => t = s
      BY <2>2, <2>4 DEF Disables
    <3>3. \A q \in Procs : node'[n].wptr = AltPtr(q) => q = p
      BY <2>5, <2>6
    <3> QED BY <2>4, <2>5, <2>6, <3>1, <3>2, <3>3 DEF OwnerAt
  <2>9. HandsAt(s)' /\ LinkAt(p)'
    BY <2>4, TimeFacts DEF HandsAt, LinkAt
  <2>10. TimersNow' = TimersNow
    <3>1. \A q \in Procs : q # p => NodeRef(q)' = NodeRef(q)
      BY <1>1, <2>6, <2>7, HandledRefs
    <3>2. HasNode(p) /\ HasNode(p)'
      BY <2>3, <2>5 DEF HasNode
    <3>3. \A L : (Runs(p, L) <=> pc[s] \in L) /\ (Runs(p, L)' <=> pc'[s] \in L)
      BY <1>1, <1>2, <2>4 DEF Runs, OneRunner
    <3>4. NodeRef(p)' = 1 /\ NodeRef(p) = 1
      BY <1>1, <2>4, <3>2, <3>3 DEF NodeRef
    <3> QED BY <1>1, <3>1, <3>4, SameNow
  <2>11. PICK tm : tm = TimersNow /\ IInv(tm)
    BY DEF TimerInv, AltInv
  <2>12. IInv(tm)'
    <3>1. l \in DistLabels
      BY DEF DistLabels
    <3> QED BY <1>1, <2>1, <2>11, <3>1, DistStay
  <2>13. AltInv'
    BY <2>10, <2>11, <2>12 DEF AltInv
  <2> QED BY <1>1, <2>7, <2>8, <2>9, <2>13, HandledLink
<1> QED BY <1>5, <1>6

(* The swap of the workspace out of the node. *)
LEMMA DistSwapKeeps ==
  ASSUME TimerInv, NEW s \in Scheds, NEW p \in Procs, DistSwap(s, p)
  PROVE  AltInv' /\ Link'
<1>1. /\ cur[s] = p /\ pc[s] = "dist_swap" /\ pc[s] \in DistLabels
      /\ UNCHANGED <<queued, chan, state, guards, style, ch, word, tgt, io, ready0, wait>>
  BY DEF DistSwap, InKernel, DistLabels, altVars, localVars, histVars
<1>2. /\ Types /\ OneRunner /\ NodeInv /\ Link /\ TimerTypeOK /\ SchedWords
      /\ HandAt(s) /\ HandsAt(s) /\ p # NotProcess /\ node \in [Nodes -> TqNode]
  BY NowTypes, NotProcessAssumption DEF TimerTypeOK
<1>3. PICK n \in Nodes :
         /\ n = tn[s] /\ NodeAt(n) /\ node[n] \in TqNode /\ Disables(s, n)
         /\ ~node[n].released /\ ~OfTin(n)
         /\ \A q \in Procs : tlink[q] # n
         /\ \A t \in Scheds : Disables(t, n) => t = s
  BY <1>1, <1>2, HandFacts
<1>4. PICK tm : tm = TimersNow /\ IInv(tm)
  BY DEF TimerInv, AltInv
<1>5. iptr[p] = "disable" /\ Head(todo[p]) \in Timers
  BY <1>1, <1>4 DEF IInv, RunAt, DistLabels
<1>6. CASE ~Live(n)
  <2>1. DistFired(s, p, n)
    BY <1>3, <1>6 DEF DistSwap
  <2> QED BY <1>1, <1>3, <1>5, <1>6, <2>1, FiredKeeps
<1>7. CASE Live(n)
  <2>1. /\ SetNode(n, [node[n] EXCEPT !.wptr = Empty]) /\ pc' = [pc EXCEPT ![s] = "dist_sync"]
        /\ UNCHANGED <<tlink, temp, todo, tn, tq, iptr, cur>>
    BY <1>3, <1>7 DEF DistSwap, Goto
  <2>2. PICK d \in TqNode : d = [node[n] EXCEPT !.wptr = Empty]
    BY <1>3, DeadFacts
  <2>3. d.wptr = Empty
    BY <1>3, <2>2, DeadFacts
  <2>4. node'[n] = d /\ \A m \in Nodes : m # n => node'[m] = node[m]
    BY <1>2, <2>1, <2>2, NodeSet
  <2>5. node[n].wptr = AltPtr(p)
    BY <1>1, <1>3, <1>7, OwnedLink
  <2>6. \A q \in Procs : /\ node'[n].wptr # Wptr(q) /\ node'[n].wptr # AltPtr(q)
                         /\ q # p => node[n].wptr # AltPtr(q)
    BY <2>3, <2>4, <2>5, WordFacts
  <2>7. pc'[s] = "dist_sync" /\ \A t \in Scheds : t # s => pc'[t] = pc[t]
    BY <1>2, <2>1 DEF Types
  <2>8. Handles(s, n)
    BY <1>1, <1>3, <2>1, <2>4, <2>6, <2>7 DEF Handles
  <2>9. OwnerAt(n)'
    BY <2>3, <2>4, DeadOwner
  <2>10. HandsAt(s)' /\ LinkAt(p)'
    <3>1. tlink[p] \notin Nodes
      BY <1>1, <1>2 DEF HandsAt
    <3> QED BY <1>1, <2>1, <2>7, <3>1 DEF HandsAt, LinkAt
  <2>11. TimersNow' = TimersNow
    <3>1. \A q \in Procs : q # p => NodeRef(q)' = NodeRef(q)
      BY <1>1, <2>6, <2>8, HandledRefs
    <3>2. HasNode(p)
      BY <2>5 DEF HasNode
    <3>3. \A L : (Runs(p, L) <=> pc[s] \in L) /\ (Runs(p, L)' <=> pc'[s] \in L)
      BY <1>1, <1>2, <2>1 DEF Runs, OneRunner
    <3>4. NodeRef(p)' = 1 /\ NodeRef(p) = 1
      BY <1>1, <2>7, <3>2, <3>3 DEF NodeRef
    <3> QED BY <1>1, <3>1, <3>4, SameNow
  <2>12. IInv(tm)'
    <3>1. PICK l \in DistLabels : l = "dist_sync"
      BY DEF DistLabels
    <3> QED BY <1>1, <1>4, <1>5, <2>1, <3>1, DistStay
  <2>13. AltInv'
    BY <1>4, <2>11, <2>12 DEF AltInv
  <2> QED BY <1>1, <2>8, <2>9, <2>10, <2>13, HandledLink
<1> QED BY <1>6, <1>7

(* The reference is dropped, and the node is released. *)
LEMMA DistDecKeeps ==
  ASSUME TimerInv, NEW s \in Scheds, NEW p \in Procs, DistDec(s, p)
  PROVE  AltInv' /\ Link'
<1>1. /\ cur[s] = p /\ pc[s] = "dist_dec" /\ pc[s] \in DistLabels
      /\ SetState(p, [state[p] EXCEPT !.n = @ - 1]) /\ NextGuard(p)
      /\ SetNode(tn[s], Release(node[tn[s]])) /\ tn' = [tn EXCEPT ![s] = NoNode]
      /\ pc' = [pc EXCEPT ![s] = "user"]
      /\ UNCHANGED <<queued, chan, temp, guards, style, ch, word, tgt, io, ready0, wait, cur, tlink, tq>>
  BY DEF DistDec, InKernel, Goto, DistLabels, altVars, localVars, histVars
<1>2. /\ Types /\ OneRunner /\ NodeInv /\ Link /\ TimerTypeOK /\ SchedWords
      /\ HandAt(s) /\ HandsAt(s) /\ p # NotProcess /\ node \in [Nodes -> TqNode]
  BY NowTypes, NotProcessAssumption DEF TimerTypeOK
<1>3. PICK n \in Nodes :
         /\ n = tn[s] /\ NodeAt(n) /\ node[n] \in TqNode /\ Disables(s, n)
         /\ ~node[n].released /\ ~OfTin(n)
         /\ \A q \in Procs : tlink[q] # n
         /\ \A t \in Scheds : Disables(t, n) => t = s
  BY <1>1, <1>2, HandFacts
<1>4. PICK tm : tm = TimersNow /\ IInv(tm)
  BY DEF TimerInv, AltInv
<1>5. iptr[p] = "disable" /\ Head(todo[p]) \in Timers /\ ListAt(p) /\ p \notin tm.tin
  <2>1. iptr[p] = "disable" /\ Head(todo[p]) \in Timers /\ ListAt(p)
    BY <1>1, <1>4 DEF IInv, RunAt, DistLabels, FlowAt
  <2>2. wait[p] = NoTime
    BY <1>1, <1>4, RunsAwake
  <2> QED BY <1>4, <2>1, <2>2, NowIs
<1>6. ~node[n].dirty \/ node[n].wptr = Empty
  BY <1>1, <1>2, <1>3 DEF Link, OwnerAt, Live
<1>7. node'[n].wptr = Empty /\ \A m \in Nodes : m # n => node'[m] = node[m]
  <2>1. PICK d \in TqNode : d = Release(node[n]) /\ d.wptr = Empty
    BY <1>3, <1>6, WipedFacts, ReleaseFacts, ZenonT(40)
  <2>2. SetNode(n, d)
    BY <1>1, <1>3, <2>1
  <2> QED BY <1>2, <2>1, <2>2, NodeSet
<1>8. \A q \in Procs : /\ node'[n].wptr # Wptr(q) /\ node'[n].wptr # AltPtr(q)
                       /\ q # p => node[n].wptr # AltPtr(q)
  <2>1. node[n].wptr \in {Empty, AltPtr(p)}
    BY <1>1, <1>3, OwnedLink DEF Live
  <2> QED BY <1>7, <2>1, WordFacts
<1>9. /\ pc'[s] = "user" /\ tn'[s] = NoNode
      /\ \A t \in Scheds : t # s => pc'[t] = pc[t] /\ tn'[t] = tn[t]
      /\ \A q \in Procs : q # p => iptr'[q] = iptr[q] /\ todo'[q] = todo[q]
  BY <1>1, <1>2 DEF Types, TimerTypeOK, NextGuard, SetIptr
<1>10. Handles(s, n)
  BY <1>1, <1>3, <1>7, <1>8, <1>9 DEF Handles
<1>11. OwnerAt(n)'
  BY <1>7, DeadOwner
<1>12. HandsAt(s)' /\ LinkAt(p)'
  <2>1. tlink[p] \notin Nodes
    BY <1>1, <1>2 DEF HandsAt
  <2> QED BY <1>1, <1>9, <2>1 DEF HandsAt, LinkAt, DistLabels
<1>13. NodeRef(p) = 1 /\ NodeRef(p)' = 0
  <2>1. \A L : (Runs(p, L) <=> pc[s] \in L) /\ (Runs(p, L)' <=> pc'[s] \in L)
    BY <1>1, <1>2 DEF Runs, OneRunner
  <2>2. \A m \in Nodes : node[m].wptr = AltPtr(p) => m = n
    <3>1. ASSUME NEW m \in Nodes, node[m].wptr = AltPtr(p) PROVE m = n
      <4>1. Disables(s, m)
        BY <1>1, <3>1, OwnNode
      <4> QED BY <1>3, <4>1 DEF Disables
    <3> QED BY <3>1
  <2>3. ~HasNode(p)'
    BY <1>7, <1>8, <2>2 DEF HasNode
  <2> QED BY <1>1, <1>9, <2>1, <2>3 DEF NodeRef
<1>14. PICK to : to = TimersNow'
  OBVIOUS
<1>15. Same(tm, to, {p}) /\ p \notin to.tin /\ to.refs[p] = 0 /\ tm.refs[p] = 1
  <2>1. \A q \in Procs : q \notin {p} =>
          /\ q # cur[s] /\ (node'[n].wptr = AltPtr(q) <=> node[n].wptr = AltPtr(q))
          /\ wait'[q] = NoTime <=> wait[q] = NoTime
    BY <1>1, <1>8
  <2>2. Same(tm, to, {p})
    BY <1>4, <1>10, <1>14, <2>1, HandledSame
  <2> QED BY <1>1, <1>4, <1>5, <1>13, <1>14, <2>2, NowIs, NextIs
<1>16. IInv(to)'
  <2>1. Timed(guards[p]) /\ Ready(Head(todo[p])) /\ Head(todo[p]) \notin ready0[p] /\ Head(todo[p]) \notin Chans
    BY <1>2, <1>5, TimerGuard
  <2>2. SkippedOver(p)
    BY <1>1, <2>1 DEF SkippedOver
  <2>3. IF pc[s] = "dist_dec" THEN to.refs[p] = tm.refs[p] - 1 ELSE to.refs[p] = tm.refs[p]
    BY <1>1, <1>15
  <2>4. \A d \in Chans : chan[d] = AltPtr(p) => d # Head(todo[p])
    BY <2>1
  <2>5. to.refs[p] \in Nat /\ pc[s] \in {"user"} \cup DiscLabels \cup DistLabels
    BY <1>1, <1>15
  <2>6. IF pc[s] \in {"disc_dec", "dist_dec"} THEN state' = [state EXCEPT ![p] = [state[p] EXCEPT !.n = @ - 1]]
                                           ELSE UNCHANGED state
    BY <1>1 DEF SetState
  <2> QED BY <1>1, <1>4, <1>5, <1>15, <2>2, <2>3, <2>4, <2>5, <2>6, TimedDisableStep
<1>17. AltInv'
  BY <1>14, <1>16 DEF AltInv
<1> QED BY <1>1, <1>10, <1>11, <1>12, <1>17, HandledLink

(***************************************************************************)
(* The walk of the queue.                                                  *)
(***************************************************************************)
(* A scheduler that runs no process works on one node. *)
LEMMA IdleHands ==
  ASSUME TimerInv, NEW s \in Scheds, NEW n \in Nodes, Handles(s, n), cur[s] = NotProcess, OwnerAt(n)',
         pc'[s] \in {"walk", "walk_swap", "walk_trigger", "walk_clean"}
  PROVE  /\ Link'
         /\ (\A q \in Procs : node'[n].wptr = AltPtr(q) <=> node[n].wptr = AltPtr(q)) /\ wait' = wait =>
              TimersNow' = TimersNow
<1>1. \A q \in Procs : q # cur[s]
  BY NotProcessAssumption
<1>2. HandsAt(s)'
  BY DEF HandsAt, DistLabels
<1>3. Link'
  BY <1>1, <1>2, HandledLink
<1>4. ASSUME \A q \in Procs : node'[n].wptr = AltPtr(q) <=> node[n].wptr = AltPtr(q), wait' = wait
      PROVE  TimersNow' = TimersNow
  <2>1. \A q \in Procs : NodeRef(q)' = NodeRef(q)
    BY <1>1, <1>4, HandledRefs
  <2> QED BY <1>4, <2>1, SameNow
<1> QED BY <1>3, <1>4

(* A process in TIN becomes runnable. *)
LEMMA TinWakes ==
  ASSUME NEW tm, IInv(tm), NEW to, NEW s \in Scheds, pc[s] = "walk", NEW r \in Procs,
         Same(tm, to, {r}), r \in tm.tin, r \notin to.tin, to.refs[r] = tm.refs[r],
         queued' = [queued EXCEPT ![r] = @ + 1],
         UNCHANGED <<pc, cur, chan, state, temp, iptr, guards, style, todo, ch, word, tgt, io, ready0>>
  PROVE  IInv(to)'
<1>1. /\ Types /\ FlowAt(tm, r) /\ OnceAt(r) /\ RunAt(s) /\ (\A c \in Chans : ChanAt(tm, c))
      /\ (\A t \in Scheds : RunAt(t) /\ TriggerAt(t))
  BY DEF IInv
<1>2. Off(r) /\ iptr[r] = "main" /\ io[r] = R!Idle
  BY DEF IInv, TinAt
<1>3. queued[r] = 0 /\ (\A t \in Scheds : ~On(t, r)) /\ \A L : ~Runs(r, L)
  BY <1>2 DEF Off, Runs, On
<1>4. tm.refs[r] = 0
  BY <1>1, <1>2 DEF FlowAt, CountAt, InAlt
<1>5. queued'[r] = 1 /\ \A x \in Procs : x # r => queued'[x] = queued[x]
  BY <1>1, <1>3 DEF Types
<1>6. Types'
  <2>1. queued' \in [Procs -> {0, 1}]
    BY <1>1, <1>5 DEF Types
  <2> QED BY <1>1, <2>1 DEF Types
<1>7. cur[s] = NotProcess
  BY <1>1 DEF RunAt, IdleLabels
<1>8. Touch(s, {r})
  <2>1. \A x \in Procs : ~On(s, x) /\ ~On(s, x)'
    BY <1>7, NotProcessAssumption DEF On
  <2> QED BY <1>5, <2>1 DEF Touch
<1>9. Unheld(s, {r})
  <2>1. \A c : ~Waiting(tm, r, c)
    BY DEF Waiting
  <2> QED BY <2>1, HoldChannel DEF Unheld, HeldBy
<1>10. RunAt(s)' /\ HoldAt(to, s)' /\ TriggerAt(s)'
  <2>1. RunAt(s)'
    BY <1>1 DEF RunAt, Asked
  <2> QED BY <2>1 DEF HoldAt, TriggerAt, HoldLabels
<1>11. \A t \in Scheds : cur[t] # r
  BY <1>3 DEF On
<1>12. OnceAt(r)' /\ IoAt(r)' /\ TinAt(to, r)'
  <2>1. \A t \in Scheds : ~On(t, r)'
    BY <1>3 DEF On
  <2> QED BY <1>2, <2>1 DEF OnceAt, IoAt, TinAt
<1>13. FlowAt(to, r)'
  <2>1. temp[r] = Junk
    BY <1>1, <1>2 DEF FlowAt, SelectedAt
  <2>2. iptr'[r] \in {"main", "timed"} /\ ~Runs(r, {"altwt_clear"})' /\ ~Runs(r, {"altend_dec"})'
    BY <1>2, <1>11 DEF Runs
  <2> QED BY <1>4, <2>1, <2>2, MainFlow
<1>14. \A t \in Scheds : pc[t] \in {"trigger", "walk_trigger"} => tgt[t] # r
  BY <1>1, <1>2, <1>3 DEF TriggerAt, Target, InAlt
<1>15. \A x \in Procs : Undisturbed(x)
  BY DEF Undisturbed
<1>16. ASSUME NEW d \in Chans PROVE chan'[d] = chan[d] /\ Stays(d, {r})
  <2>1. r \in Ends(d) => chan[d] # Wptr(r)
    BY <1>1, <1>3 DEF ChanAt, Waiting
  <2>2. Reader[d] = r => chan[d] # AltPtr(r)
    BY <1>1, <1>2, <1>3 DEF ChanAt, AltIn
  <2>3. Reader[d] = r => ~Extended(d) /\ ~Extended(d)'
    BY <1>2 DEF Extended, Transferred
  <2> QED BY <2>1, <2>2, <2>3 DEF Stays
<1> QED BY <1>6, <1>8, <1>9, <1>10, <1>11, <1>12, <1>13, <1>14, <1>15, <1>16, TimedStepFrame

(* The walk wakes a process in TIN, and its node is free. *)
LEMMA WalkTinKeeps ==
  ASSUME TimerInv, NEW s \in Scheds, WalkTin(s)
  PROVE  AltInv' /\ Link'
<1>1. /\ Types /\ NodeInv /\ Link /\ TimerTypeOK /\ SchedWords /\ HandAt(s) /\ RunAt(s) /\ tq[s] \in Seq(Nodes)
  BY NowTypes DEF TimerTypeOK
<1>2. AtNode(s)
  BY DEF WalkTin
<1>3. PICK n \in Nodes :
           /\ n = Head(tq[s]) /\ NodeAt(n) /\ node[n] \in TqNode /\ pc[s] = "walk"
           /\ node[n].sched = s /\ (node[n].dirty \/ (OfTin(n) /\ ~node[n].released))
           /\ \A t \in Scheds : ~Has(tq'[t], n) /\ Once(tq'[t], n) /\ ~Walks(t, n)
           /\ \A t \in Scheds : t # s => tq'[t] = tq[t]
           /\ \A m : (Has(tq'[s], m) => Has(tq[s], m)) /\ (Once(tq[s], m) => Once(tq'[s], m))
  BY <1>1, <1>2, HeadFacts
<1>4. PICK r \in Procs : node[n].wptr = Wptr(r)
  <2>1. Live(n) /\ ~node[n].wptr.alt
    BY <1>3 DEF WalkTin
  <2>2. PICK q \in Procs : node[n].wptr \in {Wptr(q), AltPtr(q)}
    BY <1>1, <2>1 DEF Link, OwnerAt
  <2> QED BY <2>1, <2>2, WordFacts
<1>5. /\ queued' = [queued EXCEPT ![r] = @ + 1] /\ wait' = [wait EXCEPT ![r] = NoTime]
      /\ SetNode(n, Release(node[n]))
      /\ UNCHANGED <<pc, cur, chan, state, temp, iptr, guards, style, todo, ch, word, tgt, io, ready0, tlink, tn>>
  <2>1. node[n].wptr.p = r
    BY <1>4, WordFacts
  <2> QED BY <1>3, <2>1 DEF WalkTin, EnqueueProcess, altAll, procVars, altVars, localVars, histVars
<1>6. wait[r] # NoTime /\ ~node[n].dirty
  BY <1>1, <1>4 DEF Link, OwnerAt
<1>7. node'[n].wptr = Empty /\ \A m \in Nodes : m # n => node'[m] = node[m]
  <2>1. PICK d \in TqNode : d = Release(node[n]) /\ d.wptr = Empty
    BY <1>3, <1>6, WipedFacts, ReleaseFacts
  <2>2. SetNode(n, d)
    BY <1>5, <2>1
  <2> QED BY <1>1, <2>1, <2>2, NodeSet
<1>8. \A m \in Nodes : m # n /\ Has(tq[s], m) => Has(tq'[s], m)
  <2>1. tq[s] # << >> /\ SetQueue(s, Tail(tq[s]))
    BY <1>2 DEF AtNode
  <2>2. PICK w \in Seq(Nodes) : w = Tail(tq[s])
    BY <1>1, <2>1, QueueTail
  <2>3. tq'[s] = w
    BY <1>1, <2>1, <2>2, QueueSet
  <2> QED BY <1>1, <1>3, <2>1, <2>2, <2>3, TailKeeps
<1>9. tn[s] = NoNode /\ cur[s] = NotProcess
  BY <1>1, <1>3 DEF HandAt, RunAt, WalkLabels, DistLabels, IdleLabels
<1>10. wait'[r] = NoTime /\ \A q \in Procs : q # r => wait'[q] = wait[q]
  BY <1>1, <1>5 DEF TimerTypeOK
<1>11. \A q \in Procs : /\ node'[n].wptr # Wptr(q) /\ node'[n].wptr # AltPtr(q)
                        /\ node[n].wptr # AltPtr(q)
  BY <1>4, <1>7, WordFacts
<1>12. Handles(s, n)
  BY <1>3, <1>4, <1>5, <1>7, <1>8, <1>9, <1>10, <1>11 DEF Handles
<1>13. OwnerAt(n)'
  BY <1>7, DeadOwner
<1>14. Link'
  <2>1. pc'[s] = "walk"
    BY <1>3, <1>5
  <2> QED BY <1>9, <1>12, <1>13, <2>1, IdleHands
<1>15. PICK tm : tm = TimersNow /\ IInv(tm)
  BY DEF TimerInv, AltInv
<1>16. PICK to : to = TimersNow'
  OBVIOUS
<1>17. Same(tm, to, {r}) /\ r \in tm.tin /\ r \notin to.tin /\ to.refs[r] = tm.refs[r]
  <2>1. \A q \in Procs : q # cur[s]
    BY <1>9, NotProcessAssumption
  <2>2. Same(tm, to, {r})
    BY <1>10, <1>11, <1>12, <1>15, <1>16, <2>1, HandledSame
  <2>3. NodeRef(r)' = NodeRef(r)
    BY <1>11, <1>12, <2>1, HandledRefs
  <2> QED BY <1>6, <1>10, <1>15, <1>16, <2>2, <2>3, NowIs, NextIs
<1>18. IInv(to)'
  BY <1>3, <1>5, <1>15, <1>17, TinWakes
<1>19. AltInv'
  BY <1>16, <1>18 DEF AltInv
<1> QED BY <1>14, <1>19

(* The walk stamps the node of an ALT with the time. *)
LEMMA WalkAltKeeps ==
  ASSUME TimerInv, NEW s \in Scheds, WalkAlt(s)
  PROVE  AltInv' /\ Link'
<1>1. /\ Types /\ NodeInv /\ Link /\ TimerTypeOK /\ SchedWords /\ HandAt(s) /\ RunAt(s) /\ tq[s] \in Seq(Nodes)
  BY NowTypes DEF TimerTypeOK
<1>2. AtNode(s)
  BY DEF WalkAlt
<1>3. PICK n \in Nodes :
           /\ n = Head(tq[s]) /\ NodeAt(n) /\ node[n] \in TqNode /\ pc[s] = "walk"
           /\ node[n].sched = s /\ (node[n].dirty \/ (OfTin(n) /\ ~node[n].released))
           /\ \A t \in Scheds : ~Has(tq'[t], n) /\ Once(tq'[t], n) /\ ~Walks(t, n)
           /\ \A t \in Scheds : t # s => tq'[t] = tq[t]
           /\ \A m : (Has(tq'[s], m) => Has(tq[s], m)) /\ (Once(tq[s], m) => Once(tq'[s], m))
  BY <1>1, <1>2, HeadFacts
<1>4. PICK t \in Time : t = now[s]
  BY <1>1 DEF TimerTypeOK
<1>5. /\ node[n].wptr.alt /\ SetNode(n, [node[n] EXCEPT !.time = t])
      /\ tn' = [tn EXCEPT ![s] = n] /\ pc' = [pc EXCEPT ![s] = "walk_swap"]
      /\ UNCHANGED <<queued, cur, chan, state, temp, iptr, guards, style, todo, ch, word, tgt, io, ready0>>
      /\ UNCHANGED <<tlink, wait>>
  BY <1>3, <1>4 DEF WalkAlt, Goto, altAll, procVars, altVars, localVars, histVars
<1>6. PICK d \in TqNode : d = [node[n] EXCEPT !.time = t]
  BY <1>3, StampFacts
<1>7. d.wptr = node[n].wptr /\ d.dirty = node[n].dirty
  BY <1>3, <1>6, StampFacts
<1>8. node'[n] = d /\ \A m \in Nodes : m # n => node'[m] = node[m]
  BY <1>1, <1>5, <1>6, NodeSet
<1>9. \A m \in Nodes : m # n /\ Has(tq[s], m) => Has(tq'[s], m)
  <2>1. tq[s] # << >> /\ SetQueue(s, Tail(tq[s]))
    BY <1>2 DEF AtNode
  <2>2. PICK w \in Seq(Nodes) : w = Tail(tq[s])
    BY <1>1, <2>1, QueueTail
  <2>3. tq'[s] = w
    BY <1>1, <2>1, <2>2, QueueSet
  <2> QED BY <1>1, <1>3, <2>1, <2>2, <2>3, TailKeeps
<1>10. tn[s] = NoNode /\ cur[s] = NotProcess
  BY <1>1, <1>3 DEF HandAt, RunAt, WalkLabels, DistLabels, IdleLabels
<1>11. /\ pc'[s] = "walk_swap" /\ tn'[s] = n
       /\ \A u \in Scheds : u # s => pc'[u] = pc[u] /\ tn'[u] = tn[u]
  BY <1>1, <1>5 DEF Types, TimerTypeOK
<1>12. Handles(s, n)
  BY <1>3, <1>5, <1>7, <1>8, <1>9, <1>10, <1>11 DEF Handles
<1>13. OwnerAt(n)'
  <2>1. OwnerAt(n) /\ (Live(n)' <=> Live(n))
    BY <1>1, <1>7, <1>8 DEF Link, Live
  <2>2. \A u \in Scheds : Disables(u, n)' <=> Disables(u, n)
    BY <1>3, <1>10, <1>11, TimeFacts DEF Disables, DistLabels
  <2>3. Somewhere(n)'
    BY <1>11 DEF Somewhere
  <2>4. \A q \in Procs : node[n].wptr # Wptr(q)
    BY <1>5, WordFacts
  <2>5. \A u \in Scheds : Disables(u, n)' => pc'[u] = pc[u]
    BY <1>11 DEF Disables, DistLabels
  <2>6. \A q \in Procs : node'[n].wptr = AltPtr(q) => tlink'[q] = n \/ \E u \in Scheds : cur'[u] = q /\ Disables(u, n)'
    BY <1>5, <1>7, <1>8, <2>1, <2>2 DEF OwnerAt
  <2>7. Live(n)' => \E q \in Procs : node'[n].wptr \in {Wptr(q), AltPtr(q)}
    BY <1>7, <1>8, <2>1 DEF OwnerAt
  <2>8. \A u \in Scheds : Disables(u, n)' /\ Live(n)' => pc'[u] # "dist_sync" /\ (pc'[u] = "dist_dec" => ~node'[n].dirty)
    BY <1>7, <1>8, <2>1, <2>2, <2>5 DEF OwnerAt
  <2> QED BY <1>7, <1>8, <2>3, <2>4, <2>6, <2>7, <2>8 DEF OwnerAt
<1>14. Link' /\ TimersNow' = TimersNow
  BY <1>5, <1>7, <1>8, <1>10, <1>11, <1>12, <1>13, IdleHands
<1>15. PICK tm : tm = TimersNow /\ IInv(tm)
  BY DEF TimerInv, AltInv
<1>16. IInv(tm)'
  <2>1. PICK l \in {"sched", "walk", "walk_swap", "walk_clean"} : l = "walk_swap"
    OBVIOUS
  <2>2. pc[s] \in {"sched", "walk", "walk_swap", "walk_clean"} /\ pc' = [pc EXCEPT ![s] = l]
    BY <1>3, <1>5, <2>1
  <2> QED BY <1>5, <1>15, <2>2, IdleStep
<1>17. AltInv'
  BY <1>14, <1>15, <1>16 DEF AltInv
<1> QED BY <1>14, <1>17

(* The walk takes a dead node out of the queue. *)
LEMMA WalkDeadKeeps ==
  ASSUME TimerInv, NEW s \in Scheds, WalkDead(s)
  PROVE  AltInv' /\ Link'
<1>1. /\ Types /\ NodeInv /\ Link /\ TimerTypeOK /\ SchedWords /\ HandAt(s) /\ RunAt(s) /\ tq[s] \in Seq(Nodes)
  BY NowTypes DEF TimerTypeOK
<1>2. AtNode(s)
  BY DEF WalkDead
<1>3. PICK n \in Nodes :
           /\ n = Head(tq[s]) /\ NodeAt(n) /\ node[n] \in TqNode /\ pc[s] = "walk"
           /\ node[n].sched = s /\ (node[n].dirty \/ (OfTin(n) /\ ~node[n].released))
           /\ \A t \in Scheds : ~Has(tq'[t], n) /\ Once(tq'[t], n) /\ ~Walks(t, n)
           /\ \A t \in Scheds : t # s => tq'[t] = tq[t]
           /\ \A m : (Has(tq'[s], m) => Has(tq[s], m)) /\ (Once(tq[s], m) => Once(tq'[s], m))
  BY <1>1, <1>2, HeadFacts
<1>4. /\ node[n].wptr = Empty /\ SetNode(n, Clean(node[n]))
      /\ UNCHANGED vars /\ UNCHANGED <<pc, cur, iptr, todo, guards, tlink, tn, wait>>
  BY <1>3 DEF WalkDead, Live, vars, schedVars, altAll, procVars, altVars
<1>5. node'[n].wptr = Empty /\ \A m \in Nodes : m # n => node'[m] = node[m]
  <2>1. PICK d \in TqNode : d = Clean(node[n]) /\ d.wptr = Empty
    BY <1>3, <1>4, WipedFacts, CleanFacts
  <2>2. SetNode(n, d)
    BY <1>4, <2>1
  <2> QED BY <1>1, <2>1, <2>2, NodeSet
<1>6. \A m \in Nodes : m # n /\ Has(tq[s], m) => Has(tq'[s], m)
  <2>1. tq[s] # << >> /\ SetQueue(s, Tail(tq[s]))
    BY <1>2 DEF AtNode
  <2>2. PICK w \in Seq(Nodes) : w = Tail(tq[s])
    BY <1>1, <2>1, QueueTail
  <2>3. tq'[s] = w
    BY <1>1, <2>1, <2>2, QueueSet
  <2> QED BY <1>1, <1>3, <2>1, <2>2, <2>3, TailKeeps
<1>7. tn[s] = NoNode /\ cur[s] = NotProcess
  BY <1>1, <1>3 DEF HandAt, RunAt, WalkLabels, DistLabels, IdleLabels
<1>8. Handles(s, n)
  BY <1>3, <1>4, <1>5, <1>6, <1>7 DEF Handles
<1>9. OwnerAt(n)'
  BY <1>5, DeadOwner
<1>10. pc'[s] = "walk"
  BY <1>3, <1>4
<1>11. Link' /\ TimersNow' = TimersNow
  BY <1>4, <1>5, <1>7, <1>8, <1>9, <1>10, IdleHands
<1>12. PICK tm : tm = TimersNow /\ IInv(tm)
  BY DEF TimerInv, AltInv
<1>13. IInv(tm)'
  BY <1>4, <1>12, StutterStep
<1>14. AltInv'
  BY <1>11, <1>12, <1>13 DEF AltInv
<1> QED BY <1>11, <1>14

(* The node in the hands of the walk is dead after the swap. *)
LEMMA WalkedDead ==
  ASSUME TimerInv, NEW s \in Scheds, pc[s] = "walk_clean", NEW n \in Nodes, tn[s] = n
  PROVE  node[n].wptr = Empty
<1>1. NodeInv /\ OwnerAt(n) /\ pc[s] \in WalkLabels
  BY NowTypes DEF Link, WalkLabels
<1>2. /\ node[n].dirty /\ \A t \in Scheds : ~Has(tq[t], n) /\ (Walks(t, n) => t = s)
  BY <1>1, WalkFacts
<1>3. ASSUME Live(n) PROVE FALSE
  <2>1. PICK p \in Procs : node[n].wptr = AltPtr(p)
    BY <1>1, <1>2, <1>3 DEF OwnerAt
  <2>2. PICK t \in Scheds : tn[t] = n /\ pc[t] \in {"walk_swap", "dist_dec"}
    BY <1>1, <1>2, <2>1 DEF OwnerAt, Somewhere
  <2>3. CASE pc[t] = "walk_swap"
    BY <1>2, <2>2, <2>3 DEF Walks, WalkLabels
  <2>4. CASE pc[t] = "dist_dec"
    BY <1>1, <1>2, <1>3, <2>2, <2>4 DEF OwnerAt, Disables, DistLabels
  <2> QED BY <2>2, <2>3, <2>4
<1> QED BY <1>3 DEF Live

(* The walk is done with the node it has challenged. *)
LEMMA WalkCleanKeeps ==
  ASSUME TimerInv, NEW s \in Scheds, WalkClean(s)
  PROVE  AltInv' /\ Link'
<1>1. /\ Types /\ NodeInv /\ Link /\ TimerTypeOK /\ SchedWords /\ RunAt(s)
  BY NowTypes
<1>2. pc[s] = "walk_clean" /\ pc[s] \in WalkLabels /\ cur[s] = NotProcess
  BY <1>1 DEF WalkClean, WalkLabels, RunAt, IdleLabels
<1>3. PICK n \in Nodes :
           /\ n = tn[s] /\ NodeAt(n) /\ node[n] \in TqNode /\ Walks(s, n)
           /\ node[n].dirty /\ node[n].sched = s
           /\ \A t \in Scheds : ~Has(tq[t], n) /\ (Walks(t, n) => t = s)
  BY <1>1, <1>2, WalkFacts
<1>4. /\ SetNode(n, Clean(node[n])) /\ tn' = [tn EXCEPT ![s] = NoNode] /\ pc' = [pc EXCEPT ![s] = "walk"]
      /\ UNCHANGED <<queued, cur, chan, state, temp, iptr, guards, style, todo, ch, word, tgt, io, ready0>>
      /\ UNCHANGED <<tlink, tq, wait>>
  BY <1>3 DEF WalkClean, Goto, altAll, procVars, altVars, localVars, histVars
<1>5. node[n].wptr = Empty
  BY <1>2, <1>3, WalkedDead
<1>6. node'[n].wptr = Empty /\ \A m \in Nodes : m # n => node'[m] = node[m]
  <2>1. PICK d \in TqNode : d = Clean(node[n]) /\ d.wptr = Empty
    BY <1>3, <1>5, WipedFacts, CleanFacts, ZenonT(40)
  <2>2. SetNode(n, d)
    BY <1>4, <2>1
  <2> QED BY <1>1, <2>1, <2>2, NodeSet
<1>7. /\ tn'[s] = NoNode /\ pc'[s] = "walk"
      /\ \A t \in Scheds : t # s => pc'[t] = pc[t] /\ tn'[t] = tn[t]
  BY <1>1, <1>4 DEF Types, TimerTypeOK
<1>8. Handles(s, n)
  BY <1>3, <1>4, <1>5, <1>6, <1>7 DEF Handles
<1>9. OwnerAt(n)'
  BY <1>6, DeadOwner
<1>10. Link' /\ TimersNow' = TimersNow
  BY <1>2, <1>4, <1>5, <1>6, <1>7, <1>8, <1>9, IdleHands
<1>11. PICK tm : tm = TimersNow /\ IInv(tm)
  BY DEF TimerInv, AltInv
<1>12. IInv(tm)'
  <2>1. PICK l \in {"sched", "walk", "walk_swap", "walk_clean"} : l = "walk"
    OBVIOUS
  <2>2. pc[s] \in {"sched", "walk", "walk_swap", "walk_clean"} /\ pc' = [pc EXCEPT ![s] = l]
    BY <1>2, <1>4, <2>1
  <2> QED BY <1>4, <1>11, <2>2, IdleStep
<1>13. AltInv'
  BY <1>10, <1>11, <1>12 DEF AltInv
<1> QED BY <1>10, <1>13

(* The walk takes the workspace of an ALT out of its node: what was the    *)
(* reference of the node is now that of the trigger.                       *)
LEMMA ChallengeInv ==
  ASSUME NEW tm, IInv(tm), NEW to, NEW s \in Scheds, pc[s] = "walk_swap", NEW q \in Procs,
         Same(tm, to, {q}), q \notin to.tin, tm.refs[q] = 1, to.refs[q] = 0,
         iptr[q] = "disable", Timed(guards[q]),
         tgt' = [tgt EXCEPT ![s] = q], pc' = [pc EXCEPT ![s] = "walk_trigger"],
         UNCHANGED <<queued, cur, chan, state, temp, iptr, guards, style, todo, ch, word, io, ready0>>
  PROVE  IInv(to)'
<1>1. /\ Types /\ FlowAt(tm, q) /\ OnceAt(q) /\ IoAt(q) /\ RunAt(s) /\ (\A c \in Chans : ChanAt(tm, c))
      /\ (\A t \in Scheds : RunAt(t))
  BY DEF IInv
<1>2. cur[s] = NotProcess
  BY <1>1 DEF RunAt, IdleLabels
<1>3. /\ pc'[s] = "walk_trigger" /\ tgt'[s] = q
      /\ \A t \in Scheds : t # s => pc'[t] = pc[t] /\ tgt'[t] = tgt[t]
  BY <1>1 DEF Types
<1>4. Types'
  <2>1. pc' \in [Scheds -> PcLabels]
    BY <1>1 DEF Types, PcLabels, IdleLabels
  <2>2. tgt' \in [Scheds -> Procs \cup {NotProcess}]
    BY <1>1 DEF Types
  <2> QED BY <1>1, <2>1, <2>2 DEF Types
<1>5. \A t \in Scheds, x \in Procs : On(t, x)' <=> On(t, x)
  <2>1. \A x \in Procs : ~On(s, x) /\ ~On(s, x)'
    BY <1>2, <1>3, NotProcessAssumption DEF On
  <2> QED BY <1>3, <2>1 DEF On
<1>6. \A x \in Procs : \A L : Runs(x, L)' <=> Runs(x, L)
  BY <1>2, <1>3, NotProcessAssumption DEF Runs
<1>7. Off(q)' <=> Off(q)
  BY <1>5 DEF Off
<1>8. \A t \in Scheds : cur[t] = q => pc[t] \notin HoldLabels \cup {"altend_dec", "altwt_clear"}
  BY <1>1 DEF RunAt, HoldLabels, IoLabels, XableLabels, XendLabels, EnbcLabels, AltwtLabels
<1>9. Touch(s, {q})
  BY <1>2, <1>3, <1>5, NotProcessAssumption DEF Touch, On
<1>10. Unheld(s, {q})
  <2>1. \A c : ~Waiting(tm, q, c)
    BY DEF Waiting
  <2> QED BY <2>1, HoldChannel DEF Unheld, HeldBy
<1>11. RunAt(s)' /\ HoldAt(to, s)' /\ TriggerAt(s)'
  <2>1. RunAt(s)' /\ HoldAt(to, s)'
    BY <1>2, <1>3 DEF RunAt, HoldAt, HoldLabels, IdleLabels, IoLabels, XableLabels, XendLabels,
                      EnbcLabels, EnbLabels, AltwtLabels, DiscLabels, DistLabels
  <2>2. Target(q)'
    BY DEF Target, InAlt
  <2> QED BY <1>3, <2>1, <2>2 DEF TriggerAt, Target, InAlt, Off, On, Runs
<1>12. ASSUME NEW t \in Scheds, t # s, cur[t] = q PROVE RunAt(t)' /\ HoldAt(to, t)'
  <2>1. RunAt(t)'
    BY <1>1, <1>3, <1>12, ZenonT(60) DEF RunAt, Asked
  <2> QED BY <1>3, <1>8, <1>12, <2>1 DEF HoldAt
<1>13. OnceAt(q)' /\ IoAt(q)' /\ TinAt(to, q)' /\ Target(q)'
  <2>1. IoAt(q)'
    BY <1>1, <1>6, <1>7 DEF IoAt
  <2>2. OnceAt(q)'
    BY <1>1, <1>5 DEF OnceAt
  <2> QED BY <2>1, <2>2 DEF TinAt, Target, InAlt
<1>14. FlowAt(to, q)'
  <2>1. ListAt(q) /\ FlagsAt(q) /\ SelectedAt(q) /\ FirstAt(q) /\ CountAt(tm, q)
    BY <1>1 DEF FlowAt
  <2>2. ListAt(q)'
    BY <2>1 DEF ListAt, InAlt
  <2>3. FlagsAt(q)'
    <3>1. ~Runs(q, {"altwt_clear"})'
      BY <1>6, <1>8 DEF Runs
    <3> QED BY <1>7, <2>1, <3>1 DEF FlagsAt, InAlt
  <2>4. XinAt(q)' /\ EnabledAt(q)'
    BY DEF XinAt, EnabledAt
  <2>5. \A g : (Ready(g)' <=> Ready(g)) /\ Position(q, g)' = Position(q, g)
    BY DEF Ready, Position
  <2>6. SelectedAt(q)'
    <3>1. Timed(guards[q])'
      BY DEF Timed
    <3>2. (Runs(q, {"disc_cas"})' <=> Runs(q, {"disc_cas"})) /\ (Runs(q, {"disc_dec"})' <=> Runs(q, {"disc_dec"}))
      BY <1>6
    <3> QED BY <2>1, <2>5, <3>1, <3>2 DEF SelectedAt, Chosen
  <2>7. FirstAt(q)'
    BY <2>1, <2>5 DEF FirstAt, InAlt, Chosen
  <2>8. CountAt(to, q)'
    <3>1. InChans(q)' = InChans(q)
      BY DEF InChans
    <3>2. s \notin Triggers(q) /\ Triggers(q)' = Triggers(q) \cup {s}
      BY <1>3 DEF Triggers
    <3>3. Cardinality(Triggers(q) \cup {s}) = Cardinality(Triggers(q)) + 1
      BY <3>2, RefsFacts, CardStep
    <3>4. Cardinality(InChans(q)) \in Nat /\ Cardinality(Triggers(q)) \in Nat
      BY RefsFacts
    <3>5. Refs(q)' = Refs(q) + 1 /\ Refs(q) \in Nat
      BY <3>1, <3>2, <3>3, <3>4 DEF Refs
    <3>6. Runs(q, {"disc_dec"})' <=> Runs(q, {"disc_dec"})
      BY <1>6
    <3>7. Runs(q, {"enbc_inc", "enbc_restore"})' <=> Runs(q, {"enbc_inc", "enbc_restore"})
      BY <1>6
    <3>8. ~Runs(q, {"altend_dec"})'
      BY <1>6, <1>8 DEF Runs
    <3> QED BY <2>1, <3>5, <3>6, <3>7, <3>8 DEF CountAt, InAlt
  <2> QED BY <2>2, <2>3, <2>4, <2>6, <2>7, <2>8 DEF FlowAt
<1>15. \A r \in Procs : r # q => Undisturbed(r)
  BY <1>3 DEF Undisturbed
<1>16. ASSUME NEW d \in Chans PROVE chan'[d] = chan[d] /\ Stays(d, {q})
  <2>1. q \in Ends(d) => chan[d] # Wptr(q)
    <3>1. ~Runs(q, {"io_clear"})
      BY <1>8 DEF Runs, HoldLabels, IoLabels
    <3> QED BY <1>1, <3>1 DEF ChanAt, Waiting
  <2>2. chan[d] = AltPtr(q) => AltIn(q, d)'
    <3>1. chan[d] = AltPtr(q) => AltIn(q, d)
      BY AltingFacts
    <3>2. AltIn(q, d) => AltIn(q, d)'
      BY <1>6 DEF AltIn
    <3> QED BY <3>1, <3>2
  <2>3. Reader[d] = q => ~Extended(d) /\ ~Extended(d)'
    BY DEF Extended, Transferred
  <2> QED BY <2>1, <2>2, <2>3 DEF Stays
<1> QED BY <1>4, <1>9, <1>10, <1>11, <1>12, <1>13, <1>14, <1>15, <1>16, TimedStepFrame

(* The ALT whose workspace is in a node that the walk holds is disabling   *)
(* its guards, or sleeps before it does.                                   *)
LEMMA ChallengedFacts ==
  ASSUME TimerInv, NEW s \in Scheds, pc[s] \in WalkLabels, NEW n \in Nodes, tn[s] = n, Live(n)
  PROVE  \E q \in Procs :
           /\ node[n].wptr = AltPtr(q) /\ (\A m \in Nodes : node[m].wptr = AltPtr(q) => m = n)
           /\ iptr[q] = "disable" /\ Timed(guards[q])
           /\ ~Runs(q, {"taltwt_cas"}) /\ ~Runs(q, {"dist_sync", "dist_dec"})
<1>1. NodeInv /\ OwnerAt(n) /\ Types /\ \A p \in Procs : LinkAt(p)
  BY NowTypes DEF Link
<1>2. node[n].dirty /\ node[n].sched = s
  BY <1>1, WalkFacts
<1>3. PICK q \in Procs : node[n].wptr = AltPtr(q)
  BY <1>1, <1>2 DEF OwnerAt
<1>4. /\ \A m \in Nodes : node[m].wptr = AltPtr(q) => m = n
      /\ tlink[q] # n => \E t \in Scheds : cur[t] = q /\ Disables(t, n)
      /\ iptr[q] \in {"altwt", "disable"}
      /\ \A t \in Scheds : cur[t] = q /\ pc[t] \in DistLabels => Disables(t, n)
  BY <1>3, OwnNode
<1>5. \A t \in Scheds : RunAt(t) /\ CasAt(t)
  BY NowTypes
<1>6. ListAt(q)
  BY DEF TimerInv, AltInv, IInv, FlowAt
<1>7. ~Runs(q, {"taltwt_cas"})
  <2> SUFFICES ASSUME NEW t \in Scheds, cur[t] = q, pc[t] = "taltwt_cas" PROVE FALSE
    BY DEF Runs
  <2>1. iptr[q] = "altwt" /\ tlink[q] \in Nodes /\ node[tlink[q]].sched = t
    BY <1>5 DEF CasAt
  <2>2. tlink[q] = n
    <3>1. ASSUME NEW u \in Scheds, cur[u] = q, Disables(u, n) PROVE FALSE
      <4>1. iptr[q] = "disable"
        BY <1>5, <3>1 DEF Disables, RunAt
      <4> QED BY <2>1, <4>1
    <3> QED BY <1>4, <3>1
  <2>3. t = s
    BY <1>2, <2>1, <2>2
  <2> QED BY <2>3 DEF WalkLabels
<1>8. iptr[q] = "disable" /\ Timed(guards[q])
  <2>1. CASE tlink[q] = n
    <3>1. iptr[q] = "disable" /\ TimerTodo(q)
      BY <1>1, <1>7, <2>1 DEF LinkAt
    <3>2. \A g \in Elems(todo[q]) : g \in Elems(guards[q])
      BY <1>1, <1>6, <3>1, DisableFacts
    <3> QED BY <3>1, <3>2 DEF TimerTodo, Timed, Elems
  <2>2. CASE tlink[q] # n
    <3>1. PICK t \in Scheds : cur[t] = q /\ pc[t] \in DistLabels
      BY <1>4, <2>2 DEF Disables
    <3>2. iptr[q] = "disable" /\ Head(todo[q]) \in Timers
      BY <1>5, <3>1 DEF RunAt
    <3> QED BY <1>1, <1>6, <3>2, TimerGuard
  <2> QED BY <2>1, <2>2
<1>9. ~Runs(q, {"dist_sync", "dist_dec"})
  <2> SUFFICES ASSUME NEW t \in Scheds, cur[t] = q, pc[t] \in {"dist_sync", "dist_dec"} PROVE FALSE
    BY DEF Runs
  <2>1. Disables(t, n)
    BY <1>4 DEF DistLabels
  <2> QED BY <1>1, <1>2, <2>1 DEF OwnerAt
<1> QED BY <1>3, <1>4, <1>7, <1>8, <1>9

(* The challenge of the walk. *)
LEMMA WalkSwapKeeps ==
  ASSUME TimerInv, NEW s \in Scheds, WalkSwap(s)
  PROVE  AltInv' /\ Link'
<1>1. /\ Types /\ NodeInv /\ Link /\ TimerTypeOK /\ SchedWords /\ RunAt(s)
  BY NowTypes
<1>2. pc[s] = "walk_swap" /\ pc[s] \in WalkLabels /\ cur[s] = NotProcess
  BY <1>1 DEF WalkSwap, WalkLabels, RunAt, IdleLabels
<1>3. PICK n \in Nodes :
           /\ n = tn[s] /\ NodeAt(n) /\ node[n] \in TqNode /\ Walks(s, n)
           /\ node[n].dirty /\ node[n].sched = s
           /\ \A t \in Scheds : ~Has(tq[t], n) /\ (Walks(t, n) => t = s)
  BY <1>1, <1>2, WalkFacts
<1>4. /\ SetNode(n, [node[n] EXCEPT !.wptr = Empty])
      /\ UNCHANGED <<queued, cur, chan, state, temp, iptr, guards, style, todo, ch, word, io, ready0>>
      /\ UNCHANGED <<tlink, tn, tq, wait>>
      /\ IF Live(n) THEN /\ tgt' = [tgt EXCEPT ![s] = node[n].wptr.p]
                         /\ pc' = [pc EXCEPT ![s] = "walk_trigger"]
                    ELSE pc' = [pc EXCEPT ![s] = "walk_clean"] /\ UNCHANGED tgt
  BY <1>3 DEF WalkSwap, Goto, procVars, altVars, histVars
<1>5. node'[n].wptr = Empty /\ \A m \in Nodes : m # n => node'[m] = node[m]
  <2>1. PICK d \in TqNode : d = [node[n] EXCEPT !.wptr = Empty]
    BY <1>3, DeadFacts
  <2>2. d.wptr = Empty
    BY <1>3, <2>1, DeadFacts
  <2> QED BY <1>1, <1>4, <2>1, <2>2, NodeSet
<1>6. pc'[s] \in {"walk_trigger", "walk_clean"} /\ \A t \in Scheds : t # s => pc'[t] = pc[t]
  BY <1>1, <1>4 DEF Types
<1>7. \A q \in Procs : node'[n].wptr # Wptr(q) /\ node'[n].wptr # AltPtr(q)
  BY <1>5, WordFacts
<1>8. Handles(s, n)
  BY <1>3, <1>4, <1>5, <1>6, <1>7 DEF Handles
<1>9. OwnerAt(n)'
  BY <1>5, DeadOwner
<1>10. Link' /\ (Live(n) \/ TimersNow' = TimersNow)
  <2>1. node[n].wptr # Empty \/ \A q \in Procs : node'[n].wptr = AltPtr(q) <=> node[n].wptr = AltPtr(q)
    BY <1>5
  <2> QED BY <1>2, <1>4, <1>6, <1>8, <1>9, <2>1, IdleHands DEF Live
<1>11. PICK tm : tm = TimersNow /\ IInv(tm)
  BY DEF TimerInv, AltInv
<1>12. CASE ~Live(n)
  <2>1. IInv(tm)'
    <3>1. PICK l \in {"sched", "walk", "walk_swap", "walk_clean"} : l = "walk_clean"
      OBVIOUS
    <3>2. /\ pc[s] \in {"sched", "walk", "walk_swap", "walk_clean"} /\ pc' = [pc EXCEPT ![s] = l]
          /\ UNCHANGED tgt
      BY <1>2, <1>4, <1>12, <3>1
    <3> QED BY <1>4, <1>11, <3>2, IdleStep
  <2> QED BY <1>10, <1>11, <1>12, <2>1 DEF AltInv
<1>13. CASE Live(n)
  <2>1. PICK q \in Procs :
           /\ node[n].wptr = AltPtr(q) /\ (\A m \in Nodes : node[m].wptr = AltPtr(q) => m = n)
           /\ iptr[q] = "disable" /\ Timed(guards[q])
           /\ ~Runs(q, {"taltwt_cas"}) /\ ~Runs(q, {"dist_sync", "dist_dec"})
    BY <1>2, <1>3, <1>13, ChallengedFacts
  <2>2. tgt' = [tgt EXCEPT ![s] = q] /\ pc' = [pc EXCEPT ![s] = "walk_trigger"]
    BY <1>4, <1>13, <2>1, WordFacts
  <2>3. NodeRef(q) = 1 /\ NodeRef(q)' = 0
    <3>1. HasNode(q)
      BY <2>1 DEF HasNode
    <3>2. ~HasNode(q)'
      BY <1>5, <1>7, <2>1 DEF HasNode
    <3>3. ~Runs(q, {"dist_sync", "dist_dec"})'
      BY <1>4, <1>6, <2>1 DEF Runs
    <3> QED BY <2>1, <3>1, <3>2, <3>3 DEF NodeRef
  <2>4. PICK to : to = TimersNow'
    OBVIOUS
  <2>5. Same(tm, to, {q})
    <3>1. \A r \in Procs : r \notin {q} => node'[n].wptr # AltPtr(r) /\ node[n].wptr # AltPtr(r)
      BY <1>7, <2>1, WordFacts
    <3> QED BY <1>2, <1>4, <1>8, <1>11, <2>4, <3>1, NotProcessAssumption, HandledSame
  <2>6. tm.refs[q] = 1 /\ to.refs[q] = 0 /\ q \notin to.tin
    <3>1. q \notin tm.tin
      BY <1>11, <2>1 DEF IInv, TinAt
    <3> QED BY <1>4, <1>11, <2>3, <2>4, <3>1, NowIs, NextIs
  <2>7. IInv(to)'
    BY <1>2, <1>4, <1>11, <2>1, <2>2, <2>5, <2>6, ChallengeInv
  <2> QED BY <1>10, <2>4, <2>7 DEF AltInv
<1> QED BY <1>12, <1>13

(* clean_timer_queue takes out nodes that are nobody's any more. *)
LEMMA CleanKeeps ==
  ASSUME TimerInv, NEW s \in Scheds, CleanTimerQueue(s)
  PROVE  AltInv' /\ Link'
<1>1. /\ Types /\ NodeInv /\ Link /\ TimerTypeOK /\ SchedWords /\ tq[s] \in Seq(Nodes) /\ node \in [Nodes -> TqNode]
  BY NowTypes DEF TimerTypeOK
<1>2. PICK dead \in SUBSET Nodes :
        /\ \A n \in Nodes : n \in dead <=> Has(tq[s], n) /\ ~Live(n)
        /\ SetQueue(s, Without(tq[s], dead))
        /\ node' = [n \in Nodes |-> IF n \in dead THEN Clean(node[n]) ELSE node[n]]
  <2> DEFINE d == {n \in Nodes : \E i \in DOMAIN tq[s] : tq[s][i] = n /\ ~Live(n)}
  <2>1. SetQueue(s, Without(tq[s], d)) /\ node' = [n \in Nodes |-> IF n \in d THEN Clean(node[n]) ELSE node[n]]
    BY DEF CleanTimerQueue
  <2>2. d \in SUBSET Nodes /\ \A n \in Nodes : n \in d <=> Has(tq[s], n) /\ ~Live(n)
    BY DEF Has
  <2> HIDE DEF d
  <2> QED BY <2>1, <2>2
<1>3. UNCHANGED vars /\ UNCHANGED <<pc, cur, iptr, todo, guards, tlink, tn, wait>>
  BY DEF CleanTimerQueue, vars, schedVars, altAll, procVars, altVars
<1>4. PICK w \in Seq(Nodes) : w = Without(tq[s], dead) /\ \A m : m \notin dead /\ Has(tq[s], m) => Has(w, m)
  BY <1>1, WithoutFacts, WithoutKeeps
<1>5. tq'[s] = w /\ \A t \in Scheds : t # s => tq'[t] = tq[t]
  BY <1>1, <1>2, <1>4, QueueSet
<1>6. \A n \in Nodes : node'[n].wptr = node[n].wptr /\ (n \notin dead => node'[n] = node[n])
  <2>1. ASSUME NEW n \in dead PROVE node'[n].wptr = node[n].wptr
    <3>1. node[n] \in TqNode /\ node[n].wptr = Empty /\ node'[n] = Clean(node[n])
      BY <1>1, <1>2 DEF Live
    <3> QED BY <3>1, WipedFacts
  <2> QED BY <1>2, <2>1
<1>7. ASSUME NEW m \in Nodes PROVE OwnerAt(m)'
  <2>1. CASE m \in dead
    <3>1. node'[m].wptr = Empty
      BY <1>2, <1>6, <2>1 DEF Live
    <3> QED BY <3>1, DeadOwner
  <2>2. CASE m \notin dead
    <3>1. OwnerAt(m) /\ node'[m] = node[m]
      BY <1>1, <1>6, <2>2 DEF Link
    <3>2. \A t \in Scheds : Disables(t, m)' <=> Disables(t, m)
      BY <1>3 DEF Disables
    <3>3. Somewhere(m) => Somewhere(m)'
      <4>1. \A t \in Scheds : Has(tq[t], m) => Has(tq'[t], m)
        BY <1>4, <1>5, <2>2
      <4> QED BY <1>3, <4>1 DEF Somewhere
    <3>4. \A p \in Procs : node[m].wptr = Wptr(p) => wait'[p] # NoTime
      BY <1>3, <3>1 DEF OwnerAt
    <3> QED BY <1>3, <1>6, <3>1, <3>2, <3>3, <3>4, SameOwner
  <2> QED BY <2>1, <2>2
<1>8. ASSUME NEW p \in Procs PROVE LinkAt(p)' /\ NodeRef(p)' = NodeRef(p)
  <2>1. LinkAt(p)
    BY <1>1 DEF Link
  <2>2. \A L : Runs(p, L)' <=> Runs(p, L)
    BY <1>3 DEF Runs
  <2>3. HasNode(p)' <=> HasNode(p)
    BY <1>6 DEF HasNode
  <2>4. TimerTodo(p)' <=> TimerTodo(p)
    BY <1>3 DEF TimerTodo, Elems
  <2> QED BY <1>3, <2>1, <2>2, <2>3, <2>4 DEF LinkAt, NodeRef
<1>9. ASSUME NEW t \in Scheds PROVE HandsAt(t)'
  <2>1. HandsAt(t) /\ CasAt(t)
    BY <1>1 DEF Link, NodeInv
  <2> QED BY <1>3, <1>6, <2>1 DEF HandsAt, CasAt, Timed
<1>10. Link'
  BY <1>7, <1>8, <1>9 DEF Link
<1>11. TimersNow' = TimersNow
  BY <1>3, <1>8, SameNow
<1>12. PICK tm : tm = TimersNow /\ IInv(tm)
  BY DEF TimerInv, AltInv
<1>13. IInv(tm)'
  BY <1>3, <1>12, StutterStep
<1>14. AltInv'
  BY <1>11, <1>12, <1>13 DEF AltInv
<1> QED BY <1>10, <1>14

(* At first nobody sleeps and no node is used. *)
LEMMA InitTimer == ASSUME TimerInit PROVE TimerInv
<1>1. NodeInv /\ Typed
  BY InitNode DEF NodeInv
<1>2. /\ Init
      /\ node = [n \in Nodes |-> FreeNode] /\ tn = [s \in Scheds |-> NoNode]
      /\ tlink = [p \in Procs |-> NotSet] /\ wait = [p \in Procs |-> NoTime]
      /\ pc = [s \in Scheds |-> "sched"]
  BY DEF TimerInit, Init, SchedInit
<1>3. \A n \in Nodes : node[n].wptr = Empty
  BY <1>2 DEF FreeNode
<1>4. AltInv
  <2>1. PICK tm : tm = TimersNow
    OBVIOUS
  <2>2. \A p \in Procs : NodeRef(p) = 0
    BY <1>2, <1>3, WordFacts DEF NodeRef, HasNode, Runs
  <2>3. \A p \in Procs : tm.refs[p] = 0 /\ p \notin tm.tin
    BY <1>2, <2>1, <2>2 DEF TimersNow
  <2>4. IInv(tm)
    BY <1>2, <2>3, InitIInv
  <2> QED BY <2>1, <2>4 DEF AltInv
<1>5. ASSUME NEW n \in Nodes PROVE OwnerAt(n)
  BY <1>2, <1>3, WordFacts DEF OwnerAt, Live, Disables, DistLabels
<1>6. \A p \in Procs : LinkAt(p)
  BY <1>2, TimeFacts DEF LinkAt
<1>7. \A s \in Scheds : HandsAt(s)
  BY <1>2 DEF HandsAt, DistLabels
<1> QED BY <1>1, <1>4, <1>5, <1>6, <1>7 DEF TimerInv, Link

(* Every step of channels, ALTs and timers keeps the invariant. *)
LEMMA TimerInvStep == ASSUME OneChannel, TimerInv, [TimerNext]_tvars PROVE TimerInv'
<1>1. NodeInv'
  BY OneRuns, NodeStep DEF TimerInv
<1> SUFFICES AltInv' /\ Link'
  BY <1>1 DEF TimerInv
<1>2. CASE Tick \/ UNCHANGED tvars
  BY <1>2, TickKeeps
<1>3. ASSUME NEW s \in Scheds, TimerStep(s) PROVE AltInv' /\ Link'
  <2>1. CASE AltStep(s)
    BY <2>1, AltStepKeeps
  <2>2. CASE WalkDone(s) \/ WalkTrigger(s) \/ WalkEnqueue(s)
    BY <2>2, LookKeeps, WalkTriggerKeeps, WalkEnqueueKeeps
  <2>3. CASE WalkTin(s) \/ WalkAlt(s) \/ WalkDead(s)
    BY <2>3, WalkTinKeeps, WalkAltKeeps, WalkDeadKeeps
  <2>4. CASE WalkSwap(s) \/ WalkClean(s)
    BY <2>4, WalkSwapKeeps, WalkCleanKeeps
  <2>5. ASSUME NEW p \in Procs,
               \/ Ldtimer(s, p)
               \/ \E d \in TinDelays : TinPast(s, p, d) \/ \E n \in Nodes : Tin(s, p, d, n)
               \/ \E a \in Alts[p] : Talt(s, p, a)
        PROVE  AltInv' /\ Link'
    BY <2>5, LdtimerKeeps, TinKeeps, TaltKeeps
  <2>6. ASSUME NEW p \in Procs, EnbtReady(s, p) \/ Enbt(s, p) PROVE AltInv' /\ Link'
    BY <2>6, EnbtReadyKeeps, EnbtKeeps
  <2>7. ASSUME NEW p \in Procs,
               \/ TaltWtReady(s, p) \/ (\E n \in Nodes : TaltWt(s, p, n))
               \/ TaltWtCas(s, p) \/ TaltWtClear(s, p)
        PROVE  AltInv' /\ Link'
    BY <2>7, TaltWtReadyKeeps, TaltWtKeeps, TaltSleepsKeeps, TaltFailsKeeps, TaltWtClearKeeps
  <2>8. ASSUME NEW p \in Procs,
               DistNoNode(s, p) \/ Dist(s, p) \/ DistSwap(s, p) \/ DistSync(s, p) \/ DistDec(s, p)
        PROVE  AltInv' /\ Link'
    BY <2>8, DistNoNodeKeeps, DistKeeps, DistSwapKeeps, DistSyncKeeps, DistDecKeeps
  <2> QED BY <1>3, <2>1, <2>2, <2>3, <2>4, <2>5, <2>6, <2>7, <2>8 DEF TimerStep
<1>4. ASSUME NEW s \in Scheds, CheckTimerQueue(s) PROVE AltInv' /\ Link'
  BY <1>4, LookKeeps
<1>5. ASSUME NEW s \in Scheds, SyncTq(s) \/ IdleClean(s) PROVE AltInv' /\ Link'
  BY <1>5, CleanKeeps DEF SyncTq, IdleClean
<1>6. ASSUME NEW s \in Scheds, NEW p \in Procs, TimerResume(s, p) PROVE AltInv' /\ Link'
  BY <1>6, ResumeKeeps
<1> QED BY <1>2, <1>3, <1>4, <1>5, <1>6 DEF TimerNext

(* What holds in every state of channels, ALTs and timers together.        *)
THEOREM TimerInvariance ==
  ASSUME OneChannel
  PROVE  TimerSpec => []TimerInv
<1>1. TimerInit => TimerInv
  BY InitTimer
<1>2. TimerInv /\ [TimerNext]_tvars => TimerInv'
  BY TimerInvStep
<1> QED BY <1>1, <1>2, PTL DEF TimerSpec

(* A process is never on two run queues, or running and on a run queue,    *)
(* with timers: of the walk that finds a timeout, the partner that writes  *)
(* to a channel and the disabling, only one makes an ALT runnable, and TIN *)
(* is woken once.                                                          *)
THEOREM ScheduledOnceWithTimers ==
  ASSUME OneChannel
  PROVE  TimerSpec => []NeverScheduledTwice
<1>1. TimerInv => NeverScheduledTwice
  BY OnceUse DEF TimerInv, AltInv
<1> QED BY <1>1, TimerInvariance, PTL

(* The word at Wptr[-4] is an ALT state for as long as a partner is going  *)
(* to trigger it, although the walk may select a timer guard meanwhile.    *)
THEOREM StateWordKeptWithTimers ==
  ASSUME OneChannel
  PROVE  TimerSpec => []StateWordNotReused
<1>1. TimerInv => StateWordNotReused
  BY WordUse DEF TimerInv, AltInv
<1> QED BY <1>1, TimerInvariance, PTL

(* Nodes are recycled only when nobody has them any more.                  *)
THEOREM NodesNotReused ==
  ASSUME OneChannel
  PROVE  TimerSpec => []NodeNotReused
<1>1. TimerInv => NodeNotReused
  BY NodeUse DEF TimerInv
<1> QED BY <1>1, TimerInvariance, PTL

(* The reference of the node of an ALT, as it is counted: the node is in a *)
(* queue or in the hands of a walk, or the disabling has taken the         *)
(* workspace out of it; TALTWT counts it late.                             *)
LEMMA NodeRefIs ==
  ASSUME TimerInv, NEW p \in Procs
  PROVE  \E g, h, i, j \in {0, 1} :
           /\ g = Cardinality({n \in Nodes : Queued(n) /\ node[n].wptr = AltPtr(p)})
           /\ h = Cardinality({s \in Scheds : pc[s] = "walk_swap" /\ node[tn[s]].wptr = AltPtr(p)})
           /\ i = By(p, {"dist_sync", "dist_dec"}) /\ j = By(p, {"taltwt_cas"})
           /\ NodeRef(p) = g + h + i - j
<1> DEFINE InQueue == {n \in Nodes : Queued(n) /\ node[n].wptr = AltPtr(p)}
           InWalk  == {s \in Scheds : pc[s] = "walk_swap" /\ node[tn[s]].wptr = AltPtr(p)}
           Late    == Runs(p, {"taltwt_cas"})
           Taken   == Runs(p, {"dist_sync", "dist_dec"})
           Counted == /\ Cardinality(InQueue) \in {0, 1} /\ Cardinality(InWalk) \in {0, 1}
                      /\ NodeRef(p) = Cardinality(InQueue) + Cardinality(InWalk)
                                        + (IF Taken THEN 1 ELSE 0) - (IF Late THEN 1 ELSE 0)
<1>1. NodeInv /\ Link /\ OneRunner /\ \A s \in Scheds : HandsAt(s) /\ CasAt(s)
  BY NowTypes
<1>2. By(p, {"dist_sync", "dist_dec"}) = (IF Taken THEN 1 ELSE 0) /\ By(p, {"taltwt_cas"}) = (IF Late THEN 1 ELSE 0)
  BY ByIs DEF TimerInv, AltInv
<1>3. Late => HasNode(p) /\ ~Taken
  <2> SUFFICES ASSUME NEW s \in Scheds, cur[s] = p, pc[s] = "taltwt_cas" PROVE HasNode(p) /\ ~Taken
    BY DEF Runs
  <2>1. HasNode(p)
    BY <1>1 DEF HandsAt, CasAt, HasNode
  <2>2. \A t \in Scheds : cur[t] = p => t = s
    BY <1>1 DEF OneRunner
  <2> QED BY <2>1, <2>2 DEF Runs
<1>4. \A s \in Scheds : pc[s] = "walk_swap" =>
        /\ tn[s] \in Nodes /\ node[tn[s]].dirty
        /\ \A t \in Scheds : ~Has(tq[t], tn[s]) /\ (Walks(t, tn[s]) => t = s)
  BY <1>1, WalkFacts DEF WalkLabels
<1>5. \A n : Queued(n) <=> \E t \in Scheds : Has(tq[t], n)
  BY DEF Queued, Has
<1>6. ASSUME ~HasNode(p) PROVE Counted
  <2>1. InQueue = {} /\ InWalk = {}
    BY <1>4, <1>6 DEF HasNode
  <2>2. Cardinality(InQueue) = 0 /\ Cardinality(InWalk) = 0
    BY <2>1, FS_EmptySet
  <2> HIDE DEF InQueue, InWalk
  <2>3. NodeRef(p) = (IF Taken THEN 1 ELSE 0)
    BY <1>6 DEF NodeRef
  <2> QED BY <1>3, <1>6, <2>2, <2>3
<1>7. ASSUME NEW n \in Nodes, node[n].wptr = AltPtr(p) PROVE Counted
  <2>1. /\ \A m \in Nodes : node[m].wptr = AltPtr(p) => m = n
        /\ Live(n) /\ ~OfTin(n) /\ Somewhere(n)
        /\ \A s \in Scheds : cur[s] = p /\ pc[s] \in DistLabels => Disables(s, n)
        /\ \A s \in Scheds : Disables(s, n) => cur[s] = p
    BY <1>7, OwnNode
  <2>2. HasNode(p)
    BY <1>7 DEF HasNode
  <2>3. \A t \in Scheds : Has(tq[t], n) => node[n].dirty
    BY <1>1, <2>1 DEF NodeInv, NodeAt, QueueAt
  <2>4. CASE Taken
    <3>1. PICK s \in Scheds : cur[s] = p /\ pc[s] \in {"dist_sync", "dist_dec"}
      BY <2>4 DEF Runs
    <3>2. Disables(s, n)
      BY <2>1, <3>1 DEF DistLabels
    <3>3. ~node[n].dirty
      BY <1>1, <2>1, <3>1, <3>2 DEF Link, OwnerAt
    <3>4. InQueue = {} /\ InWalk = {}
      BY <1>4, <1>5, <2>1, <2>3, <3>3
    <3>5. Cardinality(InQueue) = 0 /\ Cardinality(InWalk) = 0
      BY <3>4, FS_EmptySet
    <3> HIDE DEF InQueue, InWalk
    <3>6. NodeRef(p) = 1
      BY <2>4 DEF NodeRef
    <3> QED BY <1>3, <2>4, <3>5, <3>6
  <2>5. CASE ~Taken
    <3>1. NodeRef(p) = 1 - (IF Late THEN 1 ELSE 0)
      BY <2>2, <2>5 DEF NodeRef
    <3>2. \A s \in Scheds : Disables(s, n) => pc[s] # "dist_dec"
      BY <2>1, <2>5 DEF Runs
    <3>3. Queued(n) \/ \E s \in Scheds : tn[s] = n /\ pc[s] = "walk_swap"
      BY <1>5, <2>1, <3>2 DEF Somewhere, Disables, DistLabels
    <3>4. CASE Queued(n)
      <4>1. InQueue = {n} /\ InWalk = {}
        BY <1>4, <1>5, <1>7, <2>1, <3>4
      <4>2. Cardinality(InQueue) = 1 /\ Cardinality(InWalk) = 0
        BY <4>1, FS_EmptySet, FS_Singleton
      <4> HIDE DEF InQueue, InWalk
      <4> QED BY <2>5, <3>1, <4>2
    <3>5. ASSUME NEW s \in Scheds, tn[s] = n, pc[s] = "walk_swap" PROVE Counted
      <4>1. InQueue = {}
        BY <1>4, <1>5, <2>1, <3>5
      <4>2. InWalk = {s}
        BY <1>4, <1>7, <2>1, <3>5 DEF Walks, WalkLabels
      <4>3. Cardinality(InQueue) = 0 /\ Cardinality(InWalk) = 1
        BY <4>1, <4>2, FS_EmptySet, FS_Singleton
      <4> HIDE DEF InQueue, InWalk
      <4> QED BY <2>5, <3>1, <4>3
    <3> QED BY <3>3, <3>4, <3>5
  <2> QED BY <2>4, <2>5
<1>8. Counted
  BY <1>6, <1>7 DEF HasNode
<1> QED BY <1>2, <1>8

(* Every reference counted: the partners' and the walks'. *)
LEMMA TriggersAre ==
  ASSUME NEW p \in Procs
  PROVE  /\ Cardinality({s \in Scheds : pc[s] = "trigger" /\ tgt[s] = p}) \in Nat
         /\ Cardinality({s \in Scheds : pc[s] = "walk_trigger" /\ tgt[s] = p}) \in Nat
         /\ Cardinality(Triggers(p)) = Cardinality({s \in Scheds : pc[s] = "trigger" /\ tgt[s] = p})
                                         + Cardinality({s \in Scheds : pc[s] = "walk_trigger" /\ tgt[s] = p})
<1> DEFINE S == {s \in Scheds : pc[s] = "trigger" /\ tgt[s] = p}
           T == {s \in Scheds : pc[s] = "walk_trigger" /\ tgt[s] = p}
<1>1. IsFiniteSet(S) /\ IsFiniteSet(T)
  BY AltAssumption, FS_Subset
<1>2. S \cap T = {} /\ Triggers(p) = S \cup T
  BY DEF Triggers
<1> HIDE DEF S, T
<1>3. Cardinality(S) \in Nat /\ Cardinality(T) \in Nat /\ Cardinality(S \cap T) = 0
  BY <1>1, <1>2, FS_CardinalityType, FS_EmptySet
<1>4. Cardinality(S \cup T) = Cardinality(S) + Cardinality(T) - Cardinality(S \cap T)
  BY <1>1, FS_Union
<1> QED BY <1>2, <1>3, <1>4 DEF S, T

(* The reference count of an ALT with timer guards is exact: the node that *)
(* TALTWT puts in a timer queue holds a reference, which the walk passes   *)
(* on to trigger_alt_guard and the disabling gives back, whoever has the   *)
(* workspace out of the node.                                              *)
THEOREM TimerReferencesExact ==
  ASSUME OneChannel
  PROVE  TimerSpec => []TimerReferencesCounted
<1>1. ASSUME TimerInv, NEW p \in Procs, InAlt(p) PROVE state[p].n = AltReferences(p) + TimerReferences(p)
  <2>1. PICK tm : tm = TimersNow /\ IInv(tm)
    BY <1>1 DEF TimerInv, AltInv
  <2>2. CountAt(tm, p) /\ tm.refs[p] = NodeRef(p) /\ NodeRef(p) \in Nat
    BY <2>1 DEF IInv, FlowAt, TimersNow, NodeRef
  <2>3. PICK a \in Nat, b \in Nat : a = Cardinality(InChans(p)) /\ b = Cardinality(Triggers(p))
    BY RefsFacts
  <2>4. PICK x \in {0, 1} : x = IF Runs(p, {"disc_dec"}) THEN 1 ELSE 0
    OBVIOUS
  <2>5. PICK y \in {0, 1} : y = IF Runs(p, {"enbc_inc", "enbc_restore"}) THEN 1 ELSE 0
    OBVIOUS
  <2>6. PICK f \in Nat : f = NodeRef(p)
    BY <2>2
  <2>7. state[p].n = 1 + (a + b) + f + x - y
    BY <1>1, <2>2, <2>3, <2>4, <2>5, <2>6 DEF CountAt, Refs
  <2>8. By(p, {"disc_dec"}) = x /\ By(p, {"enbc_inc", "enbc_restore"}) = y
    BY <2>1, <2>4, <2>5, ByIs
  <2>9. PICK d \in Nat, e \in Nat :
          /\ d = Cardinality({s \in Scheds : pc[s] = "trigger" /\ tgt[s] = p})
          /\ e = Cardinality({s \in Scheds : pc[s] = "walk_trigger" /\ tgt[s] = p})
          /\ b = d + e
    BY <2>3, TriggersAre
  <2>10. AltReferences(p) = 1 + a + d + x - y
    BY <2>3, <2>8, <2>9 DEF AltReferences, InChans
  <2>11. TimerReferences(p) = f + e
    <3>1. PICK g \in {0, 1}, h \in {0, 1}, i \in {0, 1}, j \in {0, 1} :
            /\ g = Cardinality({n \in Nodes : Queued(n) /\ node[n].wptr = AltPtr(p)})
            /\ h = Cardinality({s \in Scheds : pc[s] = "walk_swap" /\ node[tn[s]].wptr = AltPtr(p)})
            /\ i = By(p, {"dist_sync", "dist_dec"}) /\ j = By(p, {"taltwt_cas"})
            /\ NodeRef(p) = g + h + i - j
      BY <1>1, NodeRefIs
    <3> QED BY <2>6, <2>9, <3>1 DEF TimerReferences
  <2> QED BY <2>7, <2>9, <2>10, <2>11
<1>2. TimerInv => TimerReferencesCounted
  BY <1>1 DEF TimerReferencesCounted
<1> QED BY <1>2, TimerInvariance, PTL
=============================================================================
