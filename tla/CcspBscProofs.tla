---------------------------- MODULE CcspBscProofs ----------------------------
(***************************************************************************)
(* Blocking system calls, for any number of processes, threads and kills:  *)
(* a call returns once, and the counters `pending', `running' and          *)
(* `waiting' say what they are read for.                                   *)
(*                                                                         *)
(* The inductive invariant says where a process is (Placed), which threads *)
(* a kill can be about to cancel (Aimed), and who joins whom (Joined).     *)
(* The properties that count are stated over sets in it: Cardinality comes *)
(* back only where a set gains or loses one element.                       *)
(***************************************************************************)
EXTENDS CcspBsc, FiniteSetTheorems, TLAPS

Labels == Region \cup Dying \cup {"none", "look", "wait", "plain", "enter", "clean", "count"}

(* Types without the bounds of the counters, which Counted implies. *)
Types ==
  /\ queue \in Seq(Procs)
  /\ waiting \in Nat /\ running \in Nat /\ pending \in Nat
  /\ reap \in Threads \cup {NoThread}
  /\ killable \in [Procs -> BOOLEAN]
  /\ word \in [Procs -> {Free, Killed, Over, "job"}]
  /\ pc \in [Threads -> Labels]
  /\ job \in [Threads -> Procs \cup {NoProc}]
  /\ victim \in [Threads -> Threads \cup {NoThread}]
  /\ doomed \in SUBSET Threads
  /\ resets \in [Procs -> Nat] /\ wiped \in [Procs -> BOOLEAN]
  /\ runs \in [Procs -> Nat] /\ number \in Pools /\ exited \in BOOLEAN

(* A process runs, or is queued once, or is served by one thread. *)
InQueue(p) == \E i \in 1..Len(queue) : queue[i] = p
Placed ==
  /\ \A p \in Procs : runs[p] \in {0, 1}
  /\ \A i, j \in 1..Len(queue) : queue[i] = queue[j] => i = j
  /\ \A i \in 1..Len(queue) : runs[queue[i]] = 0
  /\ \A t \in Threads :
       /\ Serving(t) => job[t] \in Procs /\ runs[job[t]] = 0 /\ ~InQueue(job[t])
       /\ ~Serving(t) => job[t] = NoProc
  /\ \A t, u \in Threads : Serving(t) /\ Serving(u) /\ job[t] = job[u] => t = u
  /\ \A p \in Procs : runs[p] = 0 => InQueue(p) \/ \E t \in Threads : job[t] = p

(* KilledWhileInRegion in two parts: where the pointers and the kills      *)
(* lead, and why a call that is being made may have lost its pointer.      *)
Hit ==
  /\ \A p \in Procs : word[p] = "job" =>
       \E t \in Threads : job[t] = p /\ pc[t] \in Region
  /\ \A t \in doomed : pc[t] \in Region \cup Dying \cup {"none"}
Explained ==
  \A t \in Threads : pc[t] \in Region /\ word[job[t]] # "job" =>
    wiped[job[t]] \/ t \in doomed

(* A kill that is about to cancel a thread that is still making its call   *)
(* has taken the job out of the word.                                      *)
Aimed == \A t \in doomed : pc[t] \in Region => word[job[t]] # "job"

(* A thread that has left is to be joined by one other, or by the next to  *)
(* leave.                                                                  *)
Gone == {"leave", "join", "zombie"}
Joined ==
  /\ reap # NoThread => pc[reap] \in Gone
  /\ \A u \in Threads :
       /\ pc[u] = "join" => victim[u] # NoThread
       /\ victim[u] # NoThread =>
            pc[u] \in {"leave", "join"} /\ pc[victim[u]] \in Gone /\ victim[u] # reap
  /\ \A u, v \in Threads : victim[u] = victim[v] /\ victim[u] # NoThread => u = v
  /\ \A t \in Threads : pc[t] \in Gone => reap = t \/ \E u \in Threads : victim[u] = t

Live == {t \in Threads : pc[t] \notin {"none", "join", "zombie"}}
Called == {p \in Procs : runs[p] = 0}
Counting == {t \in Threads : pc[t] \in {"count", "die_count"}}
Counted ==
  /\ running = Cardinality(Live) /\ running <= IF number = 0 THEN MaxRunning ELSE 1
  /\ pending = Cardinality(Called) + Cardinality(Counting)
  /\ Cardinality(Waiting) <= waiting /\ waiting <= Cardinality(Waiting) + MaxMissed

IInv == Types /\ Placed /\ Hit /\ Explained /\ Aimed /\ Joined /\ Counted

-----------------------------------------------------------------------------
(* A set that gains or loses at most one element. *)
LEMMA CardStep ==
  ASSUME NEW S, NEW T, NEW x, IsFiniteSet(S), S \ {x} = T \ {x}
  PROVE  Cardinality(T) = Cardinality(S) + (IF x \in T THEN 1 ELSE 0)
                                         - (IF x \in S THEN 1 ELSE 0)
<1> DEFINE R == S \ {x}
<1>1. IsFiniteSet(R) /\ Cardinality(S) \in Nat /\ Cardinality(R) \in Nat
  BY FS_RemoveElement, FS_CardinalityType
<1>2. Cardinality(R) = Cardinality(S) - (IF x \in S THEN 1 ELSE 0)
  BY <1>1, FS_RemoveElement
<1>3. CASE x \in T
  <2>1. T = R \cup {x} /\ x \notin R
    BY <1>3
  <2>2. Cardinality(R \cup {x}) = Cardinality(R) + 1
    BY <1>1, <2>1, FS_AddElement
  <2> QED BY <1>1, <1>2, <1>3, <2>1, <2>2
<1>4. CASE x \notin T
  <2>1. T = R
    BY <1>4
  <2> QED BY <1>1, <1>2, <1>4, <2>1
<1> QED BY <1>3, <1>4

(* The sets that are counted are finite. *)
LEMMA FiniteParts ==
  /\ IsFiniteSet(Live) /\ IsFiniteSet(Called) /\ IsFiniteSet(Counting) /\ IsFiniteSet(Waiting)
  /\ Cardinality(Live) \in Nat /\ Cardinality(Called) \in Nat
  /\ Cardinality(Counting) \in Nat /\ Cardinality(Waiting) \in Nat
<1>1. /\ Live \in SUBSET Threads /\ Called \in SUBSET Procs
      /\ Counting \in SUBSET Threads /\ Waiting \in SUBSET Threads
  BY DEF Live, Called, Counting, Waiting
<1>2. IsFiniteSet(Threads) /\ IsFiniteSet(Procs)
  BY BscAssumption
<1>3. IsFiniteSet(Live) /\ IsFiniteSet(Called) /\ IsFiniteSet(Counting) /\ IsFiniteSet(Waiting)
  BY <1>1, <1>2, FS_Subset
<1> QED BY <1>3, FS_CardinalityType

(* What a step of one thread does to the numbers of threads. *)
LEMMA PcCounts ==
  ASSUME Types, NEW t \in Threads, NEW l \in Labels, pc' = [pc EXCEPT ![t] = l]
  PROVE  /\ Cardinality(Live') =
              Cardinality(Live) + (IF l \in {"none", "join", "zombie"} THEN 0 ELSE 1)
                                - (IF pc[t] \in {"none", "join", "zombie"} THEN 0 ELSE 1)
         /\ Cardinality(Counting') =
              Cardinality(Counting) + (IF l \in {"count", "die_count"} THEN 1 ELSE 0)
                                    - (IF pc[t] \in {"count", "die_count"} THEN 1 ELSE 0)
         /\ Cardinality(Waiting') =
              Cardinality(Waiting) + (IF l = "wait" THEN 1 ELSE 0)
                                   - (IF pc[t] = "wait" THEN 1 ELSE 0)
<1>1. pc'[t] = l /\ \A u \in Threads : u # t => pc'[u] = pc[u]
  BY DEF Types
<1>2. /\ Live \ {t} = Live' \ {t}
      /\ t \in Live' <=> l \notin {"none", "join", "zombie"}
      /\ t \in Live <=> pc[t] \notin {"none", "join", "zombie"}
  BY <1>1 DEF Live
<1>3. /\ Counting \ {t} = Counting' \ {t}
      /\ t \in Counting' <=> l \in {"count", "die_count"}
      /\ t \in Counting <=> pc[t] \in {"count", "die_count"}
  BY <1>1 DEF Counting
<1>4. /\ Waiting \ {t} = Waiting' \ {t}
      /\ t \in Waiting' <=> l = "wait"
      /\ t \in Waiting <=> pc[t] = "wait"
  BY <1>1 DEF Waiting
<1>5. Cardinality(Live') = Cardinality(Live) + (IF t \in Live' THEN 1 ELSE 0)
                                             - (IF t \in Live THEN 1 ELSE 0)
  BY <1>2, FiniteParts, CardStep
<1>6. Cardinality(Counting') = Cardinality(Counting) + (IF t \in Counting' THEN 1 ELSE 0)
                                                     - (IF t \in Counting THEN 1 ELSE 0)
  BY <1>3, FiniteParts, CardStep
<1>7. Cardinality(Waiting') = Cardinality(Waiting) + (IF t \in Waiting' THEN 1 ELSE 0)
                                                   - (IF t \in Waiting THEN 1 ELSE 0)
  BY <1>4, FiniteParts, CardStep
<1> QED BY <1>2, <1>3, <1>4, <1>5, <1>6, <1>7

(* What making p runnable, or taking it off its scheduler, does to Called. *)
LEMMA CalledCount ==
  ASSUME Types, NEW p \in Procs, NEW n \in Nat, runs' = [runs EXCEPT ![p] = n]
  PROVE  Cardinality(Called') = Cardinality(Called) + (IF n = 0 THEN 1 ELSE 0)
                                                    - (IF runs[p] = 0 THEN 1 ELSE 0)
<1>1. runs'[p] = n /\ \A q \in Procs : q # p => runs'[q] = runs[q]
  BY DEF Types
<1>2. /\ Called \ {p} = Called' \ {p}
      /\ p \in Called' <=> n = 0
      /\ p \in Called <=> runs[p] = 0
  BY <1>1 DEF Called
<1>3. Cardinality(Called') = Cardinality(Called) + (IF p \in Called' THEN 1 ELSE 0)
                                                 - (IF p \in Called THEN 1 ELSE 0)
  BY <1>2, FiniteParts, CardStep
<1> QED BY <1>2, <1>3

(* Placed does not care what a serving thread does as long as it serves. *)
LEMMA PlacedKept ==
  ASSUME Types, Placed, UNCHANGED <<queue, job, runs>>,
         \A t \in Threads : Serving(t)' <=> Serving(t)
  PROVE  Placed'
BY DEF Types, Placed, InQueue

(* Threads come to their end in Exit, Leave and Join only. *)
LEMMA JoinedKept ==
  ASSUME Types, Joined, UNCHANGED <<reap, victim>>,
         \A t \in Threads : pc'[t] = pc[t] \/ (pc[t] \notin Gone /\ pc'[t] \notin Gone)
  PROVE  Joined'
<1>1. \A t \in Threads : (pc'[t] \in Gone <=> pc[t] \in Gone)
                         /\ (pc[t] \in Gone => pc'[t] = pc[t])
  OBVIOUS
<1>2. reap' # NoThread => pc'[reap'] \in Gone
  BY <1>1 DEF Types, Joined
<1>3. ASSUME NEW u \in Threads
      PROVE  /\ pc'[u] = "join" => victim'[u] # NoThread
             /\ victim'[u] # NoThread =>
                  /\ pc'[u] \in {"leave", "join"}
                  /\ pc'[victim'[u]] \in Gone /\ victim'[u] # reap'
  <2>1. pc'[u] = "join" => pc[u] = "join"
    BY <1>1 DEF Gone
  <2>2. pc[u] \in {"leave", "join"} => pc'[u] = pc[u]
    BY <1>1 DEF Gone
  <2>3. victim[u] # NoThread /\ pc[victim[u]] \in Gone => pc'[victim[u]] \in Gone
    BY <1>1 DEF Types
  <2> QED BY <2>1, <2>2, <2>3 DEF Joined
<1> QED BY <1>1, <1>2, <1>3 DEF Joined

(* A step that leaves the numbers of threads alone. *)
LEMMA CountedKept ==
  ASSUME Types, Counted, UNCHANGED <<running, pending, waiting, number, runs>>,
         NEW t \in Threads, NEW l \in Labels, pc' = [pc EXCEPT ![t] = l],
         pc[t] \notin {"none", "join", "zombie", "count", "die_count", "wait"},
         l \notin {"none", "join", "zombie", "count", "die_count", "wait"}
  PROVE  Counted'
<1>1. /\ Cardinality(Live') = Cardinality(Live) + 1 - 1
      /\ Cardinality(Counting') = Cardinality(Counting) + 0 - 0
      /\ Cardinality(Waiting') = Cardinality(Waiting) + 0 - 0
  BY PcCounts
<1>2. Called' = Called
  BY DEF Called
<1> QED BY <1>1, <1>2, FiniteParts DEF Counted, Types

(* Threads that stay in the region keep the reason why their pointer is    *)
(* gone.                                                                   *)
LEMMA ExplainedKept ==
  ASSUME Explained, UNCHANGED doomed,
         \A t \in Threads : pc'[t] \in Region =>
           /\ pc[t] \in Region /\ job'[t] = job[t]
           /\ word'[job[t]] = word[job[t]] /\ wiped'[job[t]] = wiped[job[t]]
  PROVE  Explained'
BY DEF Explained

(* A step that does not bring a thread into the region or out of it, and   *)
(* does not start a thread that is about to be cancelled.                  *)
LEMMA AimedKept ==
  ASSUME Types, Hit, Explained, Aimed, UNCHANGED <<word, doomed, wiped, job>>,
         \A t \in Threads :
           /\ pc[t] \in Region \/ pc'[t] \in Region => pc'[t] = pc[t]
           /\ pc[t] \in Dying \cup {"none"} /\ t \notin Unused => pc'[t] \in Dying \cup {"none"}
  PROVE  Hit' /\ Explained' /\ Aimed'
<1>1. \A p \in Procs : word'[p] = "job" => \E t \in Threads : job'[t] = p /\ pc'[t] \in Region
  BY DEF Hit
<1>2. ASSUME NEW t \in doomed'
      PROVE  /\ pc'[t] \in Region \cup Dying \cup {"none"}
             /\ pc'[t] \in Region => word'[job'[t]] # "job"
  <2>1. t \in doomed /\ t \in Threads /\ t \notin Unused
    BY <1>2 DEF Types, Unused
  <2>2. pc[t] \in Region \cup Dying \cup {"none"}
    BY <2>1 DEF Hit
  <2>3. pc'[t] \in Region => pc[t] \in Region
    BY <2>1
  <2> QED BY <2>1, <2>2, <2>3 DEF Aimed
<1>3. Explained'
  BY ExplainedKept
<1> QED BY <1>1, <1>2, <1>3 DEF Hit, Aimed

(* The process of a new call goes from its scheduler to the queue. *)
LEMMA EnqueuePlaced ==
  ASSUME Types, Placed, NEW p \in Procs, NEW x \in BOOLEAN, Enqueue(p, x),
         \A t \in Threads : Serving(t)' <=> Serving(t)
  PROVE  Placed'
<1>1. /\ queue' \in Seq(Procs) /\ Len(queue) \in Nat /\ Len(queue') = Len(queue) + 1
      /\ \A i \in 1..Len(queue) : queue'[i] = queue[i]
      /\ queue'[Len(queue')] = p
  BY DEF Types, Enqueue
<1>2. \A i \in 1..Len(queue') : i \in 1..Len(queue) \/ i = Len(queue')
  BY <1>1
<1>3. \A i \in 1..Len(queue) : i \in 1..Len(queue') /\ queue[i] \in Procs
  BY <1>1 DEF Types
<1>4. runs[p] = 1 /\ runs'[p] = 0 /\ \A q \in Procs : q # p => runs'[q] = runs[q]
  BY DEF Types, Placed, Enqueue
<1>5. \A i \in 1..Len(queue) : queue[i] # p
  BY <1>4 DEF Placed
<1>6. \A t \in Threads : job'[t] = job[t] /\ job[t] # p
  BY <1>4, BscAssumption DEF Placed, Enqueue
<1>7. \A q \in Procs : InQueue(q)' <=> InQueue(q) \/ q = p
  <2>1. Len(queue') \in 1..Len(queue')
    BY <1>1
  <2> QED BY <1>1, <1>2, <1>3, <2>1 DEF InQueue
<1>8. \A q \in Procs : runs'[q] \in {0, 1}
  BY <1>4 DEF Placed
<1>9. \A i, j \in 1..Len(queue') : queue'[i] = queue'[j] => i = j
  BY <1>1, <1>2, <1>5 DEF Placed
<1>10. \A i \in 1..Len(queue') : runs'[queue'[i]] = 0
  BY <1>1, <1>2, <1>3, <1>4, <1>5 DEF Placed
<1>11. ASSUME NEW t \in Threads
       PROVE  /\ Serving(t)' => job'[t] \in Procs /\ runs'[job'[t]] = 0 /\ ~InQueue(job[t])'
              /\ ~Serving(t)' => job'[t] = NoProc
  BY <1>4, <1>6, <1>7 DEF Placed
<1>12. \A t, u \in Threads : Serving(t)' /\ Serving(u)' /\ job'[t] = job'[u] => t = u
  BY <1>6 DEF Placed
<1>13. \A q \in Procs : runs'[q] = 0 => InQueue(q)' \/ \E t \in Threads : job'[t] = q
  BY <1>4, <1>6, <1>7 DEF Placed
<1> QED BY <1>8, <1>9, <1>10, <1>11, <1>12, <1>13 DEF Placed

(* `pending' is raised before the process is queued. *)
LEMMA EnqueueCalled ==
  ASSUME Types, Placed, NEW p \in Procs, NEW x \in BOOLEAN, Enqueue(p, x)
  PROVE  Cardinality(Called') = Cardinality(Called) + 1 /\ pending' = pending + 1
<1>1. runs[p] = 1 /\ runs[p] - 1 = 0
  BY DEF Placed, Enqueue
<1>2. runs' = [runs EXCEPT ![p] = 0]
  BY <1>1 DEF Enqueue
<1>3. Cardinality(Called') = Cardinality(Called) + 1 - 0
  BY <1>1, <1>2, CalledCount
<1> QED BY <1>3, FiniteParts DEF Enqueue

-----------------------------------------------------------------------------
(* bsyscall_dispatch. *)
LEMMA SignalStep ==
  ASSUME IInv, NEW p \in Procs, NEW x \in BOOLEAN, Signal(p, x), UNCHANGED number
  PROVE  IInv'
<1> USE DEF IInv
<1>1. Enqueue(p, x) /\ waiting > 0 /\ waiting' = waiting - 1 /\ UNCHANGED <<running, exited>>
  BY DEF Signal
<1>2. \/ pc' = pc /\ Waiting = {}
      \/ \E t \in Waiting : pc' = [pc EXCEPT ![t] = "look"]
  BY DEF Signal
<1>3. pc' \in [Threads -> Labels]
  BY <1>2 DEF Types, Waiting, Labels
<1>4. \A t \in Threads : pc'[t] = pc[t] \/ (pc[t] = "wait" /\ pc'[t] = "look")
  BY <1>2 DEF Types, Waiting
<1>5. Types'
  BY <1>1, <1>3 DEF Types, Enqueue, killVars
<1>6. Placed'
  <2>1. \A t \in Threads : Serving(t)' <=> Serving(t)
    BY <1>4 DEF Serving, Region
  <2> QED BY <1>1, <2>1, EnqueuePlaced
<1>7. Hit' /\ Explained' /\ Aimed'
  <2>1. \A t \in Threads :
          /\ pc[t] \in Region \/ pc'[t] \in Region => pc'[t] = pc[t]
          /\ pc[t] \in Dying \cup {"none"} => pc'[t] = pc[t]
    BY <1>4 DEF Region, Dying
  <2> QED BY <1>1, <2>1, AimedKept DEF Enqueue, killVars
<1>8. Joined'
  <2>1. \A t \in Threads : pc'[t] = pc[t] \/ (pc[t] \notin Gone /\ pc'[t] \notin Gone)
    BY <1>4 DEF Gone
  <2> QED BY <1>1, <2>1, JoinedKept DEF Enqueue, killVars
<1>9. Counted'
  <2>1. Cardinality(Called') = Cardinality(Called) + 1 /\ pending' = pending + 1
    BY <1>1, EnqueueCalled
  <2>2. CASE pc' = pc /\ Waiting = {}
    <3>1. Live' = Live /\ Counting' = Counting /\ Waiting' = Waiting
      BY <2>2 DEF Live, Counting, Waiting
    <3>2. Cardinality(Waiting) = 0
      BY <2>2, FS_EmptySet
    <3> QED BY <1>1, <2>1, <3>1, <3>2, FiniteParts, BscAssumption DEF Counted, Types
  <2>3. ASSUME NEW t \in Waiting, pc' = [pc EXCEPT ![t] = "look"] PROVE Counted'
    <3>0. t \in Threads /\ pc[t] = "wait" /\ "look" \in Labels
      BY DEF Waiting, Labels
    <3>1. /\ Cardinality(Live') = Cardinality(Live) + 1 - 1
          /\ Cardinality(Counting') = Cardinality(Counting) + 0 - 0
          /\ Cardinality(Waiting') = Cardinality(Waiting) + 0 - 1
      BY <2>3, <3>0, PcCounts
    <3>2. /\ Cardinality(Waiting') = Cardinality(Waiting) - 1
          /\ Cardinality(Live') = Cardinality(Live)
          /\ Cardinality(Counting') = Cardinality(Counting)
      BY <3>1, FiniteParts
    <3>3. /\ running' = Cardinality(Live')
          /\ running' <= IF number' = 0 THEN MaxRunning ELSE 1
      BY <1>1, <3>2 DEF Counted
    <3>4. pending' = Cardinality(Called') + Cardinality(Counting')
      BY <2>1, <3>2, FiniteParts DEF Counted
    <3>5. /\ Cardinality(Waiting') <= waiting'
          /\ waiting' <= Cardinality(Waiting') + MaxMissed
      BY <1>1, <3>2, FiniteParts, BscAssumption DEF Counted, Types
    <3> QED BY <3>3, <3>4, <3>5 DEF Counted
  <2> QED BY <1>2, <2>2, <2>3
<1> QED BY <1>5, <1>6, <1>7, <1>8, <1>9

(* A call is queued and a thread is started for it. *)
LEMMA StartThreadStep ==
  ASSUME IInv, NEW p \in Procs, NEW x \in BOOLEAN, NEW t \in Threads,
         StartThread(p, x, t), UNCHANGED number
  PROVE  IInv'
<1> USE DEF IInv
<1>1. /\ Enqueue(p, x) /\ UNCHANGED <<waiting, exited>> /\ MayStart
      /\ t \in Unused /\ pc' = [pc EXCEPT ![t] = "look"]
      /\ running' = IF number = 0 THEN running + 1 ELSE 1
  BY DEF StartThread
<1>2. pc[t] = "none" /\ pc'[t] = "look" /\ \A u \in Threads : u # t => pc'[u] = pc[u]
  BY <1>1 DEF Unused, Types
<1>3. running' = running + 1 /\ running' <= IF number = 0 THEN MaxRunning ELSE 1
  BY <1>1, BscAssumption DEF MayStart, Types
<1>4. Types'
  BY <1>1, <1>3 DEF Types, Enqueue, Labels, killVars
<1>5. Placed'
  <2>1. \A u \in Threads : Serving(u)' <=> Serving(u)
    BY <1>2 DEF Serving, Region
  <2> QED BY <1>1, <2>1, EnqueuePlaced
<1>6. Hit' /\ Explained' /\ Aimed'
  <2>1. \A u \in Threads :
          /\ pc[u] \in Region \/ pc'[u] \in Region => pc'[u] = pc[u]
          /\ pc[u] \in Dying \cup {"none"} /\ u \notin Unused => pc'[u] = pc[u]
    BY <1>1, <1>2 DEF Region, Dying
  <2> QED BY <1>1, <2>1, AimedKept DEF Enqueue, killVars
<1>7. Joined'
  <2>1. \A u \in Threads : pc'[u] = pc[u] \/ (pc[u] \notin Gone /\ pc'[u] \notin Gone)
    BY <1>2 DEF Gone
  <2> QED BY <1>1, <2>1, JoinedKept DEF Enqueue, killVars
<1>8. Counted'
  <2>1. Cardinality(Called') = Cardinality(Called) + 1 /\ pending' = pending + 1
    BY <1>1, EnqueueCalled
  <2>2. /\ Cardinality(Live') = Cardinality(Live) + 1 - 0
        /\ Cardinality(Counting') = Cardinality(Counting) + 0 - 0
        /\ Cardinality(Waiting') = Cardinality(Waiting) + 0 - 0
    BY <1>1, <1>2, PcCounts DEF Labels
  <2>3. /\ Cardinality(Waiting') = Cardinality(Waiting)
        /\ Cardinality(Live') = Cardinality(Live) + 1
        /\ Cardinality(Counting') = Cardinality(Counting)
    BY <2>2, FiniteParts
  <2>4. pending' = Cardinality(Called') + Cardinality(Counting')
    BY <2>1, <2>3, FiniteParts DEF Counted
  <2> QED BY <1>1, <1>3, <2>3, <2>4 DEF Counted
<1> QED BY <1>4, <1>5, <1>6, <1>7, <1>8

(* A call is queued, and left to the threads there are. *)
LEMMA QueuedOnlyStep ==
  ASSUME IInv, NEW p \in Procs, NEW x \in BOOLEAN,
         StartFails(p, x) \/ LeaveQueued(p, x), UNCHANGED number
  PROVE  IInv'
<1> USE DEF IInv
<1>1. Enqueue(p, x) /\ UNCHANGED <<waiting, running, pc>> /\ exited' \in BOOLEAN
  BY DEF StartFails, LeaveQueued, Types
<1>2. Types'
  BY <1>1 DEF Types, Enqueue, killVars
<1>3. Placed'
  BY <1>1, EnqueuePlaced DEF Serving
<1>4. Hit' /\ Explained' /\ Aimed'
  BY <1>1, AimedKept DEF Enqueue, killVars
<1>5. Joined'
  BY <1>1, JoinedKept DEF Enqueue, killVars
<1>6. Counted'
  <2>1. Cardinality(Called') = Cardinality(Called) + 1 /\ pending' = pending + 1
    BY <1>1, EnqueueCalled
  <2>2. Live' = Live /\ Counting' = Counting /\ Waiting' = Waiting
    BY <1>1 DEF Live, Counting, Waiting
  <2> QED BY <1>1, <2>1, <2>2, FiniteParts DEF Counted, Types
<1> QED BY <1>2, <1>3, <1>4, <1>5, <1>6

-----------------------------------------------------------------------------
(* bsc_thread: between two jobs. *)
LEMMA TakeStep ==
  ASSUME IInv, NEW t \in Threads, Take(t), UNCHANGED <<number, exited>>
  PROVE  IInv'
<1> USE DEF IInv
<1>0. PICK q \in Procs : q = queue[1] /\ queue # << >>
  BY DEF Take, Types
<1> DEFINE l == IF killable[q] THEN "enter" ELSE "plain"
<1>1. /\ pc[t] = "look" /\ queue # << >> /\ queue' = Tail(queue)
      /\ job' = [job EXCEPT ![t] = q] /\ pc' = [pc EXCEPT ![t] = l]
      /\ UNCHANGED <<waiting, running, reap, victim, pending, killable, word, doomed, resets,
                     wiped, runs>>
  BY <1>0 DEF Take, Types, killVars
<1>2. /\ Len(queue) \in Nat /\ 1 \in 1..Len(queue) /\ q = queue[1]
      /\ queue' \in Seq(Procs) /\ Len(queue') = Len(queue) - 1
      /\ \A i \in 1..Len(queue') : queue'[i] = queue[i + 1] /\ i + 1 \in 1..Len(queue)
      /\ \A i \in 1..Len(queue) :
           i = 1 \/ (i - 1 \in 1..Len(queue') /\ queue'[i - 1] = queue[i])
  BY <1>0, <1>1 DEF Types
<1>3. l \in {"enter", "plain"} /\ l \in Labels
  BY DEF Labels
<1>4. pc'[t] = l /\ \A u \in Threads : u # t => pc'[u] = pc[u]
  BY <1>1 DEF Types
<1>5. Types'
  BY <1>1, <1>2, <1>3 DEF Types
<1>6. Placed'
  <2>1. Serving(t)' /\ ~Serving(t) /\ \A u \in Threads : u # t => (Serving(u)' <=> Serving(u))
    BY <1>1, <1>3, <1>4 DEF Serving, Region
  <2>2. job'[t] = q /\ job[t] = NoProc /\ \A u \in Threads : u # t => job'[u] = job[u]
    BY <1>1, <2>1 DEF Types, Placed
  <2>3. InQueue(q) /\ ~InQueue(q)' /\ \A p \in Procs : p # q => (InQueue(p)' <=> InQueue(p))
    <3>1. InQueue(q)
      BY <1>2 DEF InQueue
    <3>2. ~InQueue(q)'
      <4>1. \A i \in 1..Len(queue') : i + 1 # 1
        BY <1>2
      <4>2. \A i \in 1..Len(queue') : queue'[i] # q
        BY <1>2, <4>1 DEF Placed
      <4> QED BY <1>2, <4>2 DEF InQueue
    <3>3. ASSUME NEW p \in Procs, p # q PROVE InQueue(p)' <=> InQueue(p)
      <4>1. ASSUME InQueue(p) PROVE InQueue(p)'
        <5>1. PICK i \in 1..Len(queue) : queue[i] = p
          BY <4>1 DEF InQueue
        <5>2. i - 1 \in 1..Len(queue') /\ queue'[i - 1] = queue[i]
          BY <1>2, <3>3, <5>1
        <5> QED BY <5>1, <5>2 DEF InQueue
      <4>2. ASSUME InQueue(p)' PROVE InQueue(p)
        <5>1. PICK i \in 1..Len(queue') : queue'[i] = p
          BY <4>2 DEF InQueue
        <5>2. i + 1 \in 1..Len(queue) /\ queue[i + 1] = p
          BY <1>2, <5>1
        <5> QED BY <5>2 DEF InQueue
      <4> QED BY <4>1, <4>2
    <3> QED BY <3>1, <3>2, <3>3
  <2>4. \A u \in Threads : job[u] # q
    BY <1>2, <2>3, BscAssumption DEF Placed
  <2>5. \A i, j \in 1..Len(queue') : queue'[i] = queue'[j] => i = j
    BY <1>2 DEF Placed
  <2>6. \A i \in 1..Len(queue') : runs'[queue'[i]] = 0
    BY <1>1, <1>2 DEF Placed
  <2>7. ASSUME NEW u \in Threads
        PROVE  /\ Serving(u)' => job'[u] \in Procs /\ runs'[job'[u]] = 0 /\ ~InQueue(job[u])'
               /\ ~Serving(u)' => job'[u] = NoProc
    <3>1. CASE u = t
      <4>1. ~InQueue(job[t])'
        BY <2>2, <2>3 DEF InQueue
      <4>2. runs[q] = 0
        BY <1>2 DEF Placed
      <4> QED BY <1>1, <1>2, <2>1, <2>2, <3>1, <4>1, <4>2
    <3>2. CASE u # t
      BY <1>1, <2>1, <2>2, <2>3, <2>4, <3>2 DEF Placed, InQueue
    <3> QED BY <3>1, <3>2
  <2>8. \A u, v \in Threads : Serving(u)' /\ Serving(v)' /\ job'[u] = job'[v] => u = v
    BY <2>1, <2>2, <2>4 DEF Placed
  <2>9. \A p \in Procs : runs'[p] = 0 => InQueue(p)' \/ \E u \in Threads : job'[u] = p
    BY <1>1, <1>2, <2>2, <2>3, BscAssumption DEF Placed
  <2>10. \A p \in Procs : runs'[p] \in {0, 1}
    BY <1>1 DEF Placed
  <2> QED BY <2>5, <2>6, <2>7, <2>8, <2>9, <2>10 DEF Placed
<1>7. Hit' /\ Explained' /\ Aimed'
  <2>1. \A u \in Threads : u # t => pc'[u] = pc[u] /\ job'[u] = job[u]
    BY <1>1, <1>4 DEF Types
  <2>2. pc[t] \notin Region \cup Dying \cup {"none"} /\ pc'[t] \notin Region
    BY <1>1, <1>3, <1>4 DEF Region, Dying
  <2>3. t \notin doomed /\ doomed' = doomed
    BY <1>1, <2>2, BscAssumption DEF Hit
  <2>4. \A p \in Procs : word'[p] = "job" => \E u \in Threads : job'[u] = p /\ pc'[u] \in Region
    BY <1>1, <2>1, <2>2 DEF Hit
  <2>5. doomed \in SUBSET Threads
    BY DEF Types
  <2>6. Explained'
    BY <1>1, <2>1, <2>2, ExplainedKept
  <2> QED BY <1>1, <2>1, <2>3, <2>4, <2>5, <2>6 DEF Hit, Aimed
<1>8. Joined'
  <2>1. \A u \in Threads : pc'[u] = pc[u] \/ (pc[u] \notin Gone /\ pc'[u] \notin Gone)
    BY <1>1, <1>3, <1>4 DEF Gone
  <2> QED BY <1>1, <2>1, JoinedKept
<1>9. Counted'
  BY <1>1, <1>3, CountedKept
<1> QED BY <1>5, <1>6, <1>7, <1>8, <1>9

(* A step between "look" and "wait". *)
LEMMA IdleStep ==
  ASSUME IInv, NEW t \in Threads, UNCHANGED <<number, exited>>, Wait(t) \/ Wakeup(t)
  PROVE  IInv'
<1> USE DEF IInv
<1>1. UNCHANGED <<queue, running, reap, job, victim, pending, killable, word, doomed, resets,
                     wiped, runs>>
  BY DEF Wait, Wakeup, poolVars, killVars
<1>2. \/ /\ pc[t] = "look" /\ pc' = [pc EXCEPT ![t] = "wait"] /\ waiting' = waiting + 1
      \/ /\ pc[t] = "wait" /\ pc' = [pc EXCEPT ![t] = "look"] /\ waiting' = waiting
         /\ waiting - Cardinality(Waiting) < MaxMissed
  BY DEF Wait, Wakeup, poolVars, Missed
<1>3. /\ pc[t] \in {"look", "wait"} /\ pc'[t] \in {"look", "wait"}
      /\ \A u \in Threads : u # t => pc'[u] = pc[u]
  BY <1>2 DEF Types
<1>4. Types'
  <2>1. {"look", "wait"} \subseteq Labels
    BY DEF Labels
  <2>2. pc' \in [Threads -> Labels]
    BY <1>2, <2>1 DEF Types
  <2>3. waiting' \in Nat
    BY <1>2 DEF Types
  <2> QED BY <1>1, <2>2, <2>3 DEF Types
<1>5. Placed'
  <2>1. \A u \in Threads : Serving(u)' <=> Serving(u)
    BY <1>3 DEF Serving, Region
  <2> QED BY <1>1, <2>1, PlacedKept
<1>6. Hit' /\ Explained' /\ Aimed'
  <2>1. \A u \in Threads :
          /\ pc[u] \in Region \/ pc'[u] \in Region => pc'[u] = pc[u]
          /\ pc[u] \in Dying \cup {"none"} => pc'[u] = pc[u]
    BY <1>3 DEF Region, Dying
  <2> QED BY <1>1, <2>1, AimedKept
<1>7. Joined'
  <2>1. \A u \in Threads : pc'[u] = pc[u] \/ (pc[u] \notin Gone /\ pc'[u] \notin Gone)
    BY <1>3 DEF Gone
  <2> QED BY <1>1, <2>1, JoinedKept
<1>8. Counted'
  <2>1. Called' = Called
    BY <1>1 DEF Called
  <2>2. CASE pc[t] = "look"
    <3>1. /\ pc' = [pc EXCEPT ![t] = "wait"] /\ waiting' = waiting + 1
      BY <1>2, <2>2
    <3>2. /\ Cardinality(Live') = Cardinality(Live) + 1 - 1
          /\ Cardinality(Counting') = Cardinality(Counting) + 0 - 0
          /\ Cardinality(Waiting') = Cardinality(Waiting) + 1 - 0
      BY <2>2, <3>1, PcCounts DEF Labels
    <3>4. Cardinality(Live') = Cardinality(Live) /\ Cardinality(Counting') = Cardinality(Counting)
      BY <3>2, FiniteParts
    <3>5. /\ running' = Cardinality(Live')
          /\ running' <= IF number' = 0 THEN MaxRunning ELSE 1
      BY <1>1, <3>4 DEF Counted
    <3>6. pending' = Cardinality(Called') + Cardinality(Counting')
      BY <1>1, <2>1, <3>4 DEF Counted
    <3>7. /\ Cardinality(Waiting') <= waiting'
          /\ waiting' <= Cardinality(Waiting') + MaxMissed
      <4>1. /\ waiting \in Nat /\ Cardinality(Waiting) \in Nat /\ MaxMissed \in Nat
            /\ Cardinality(Waiting) <= waiting /\ waiting <= Cardinality(Waiting) + MaxMissed
        BY FiniteParts, BscAssumption DEF Counted, Types
      <4> QED BY <3>1, <3>2, <4>1
    <3> QED BY <3>5, <3>6, <3>7 DEF Counted
  <2>3. CASE pc[t] = "wait"
    <3>1. /\ pc' = [pc EXCEPT ![t] = "look"] /\ waiting' = waiting
      BY <1>2, <2>3
    <3>0. waiting - Cardinality(Waiting) < MaxMissed
      BY <1>2, <2>3
    <3>3. "look" \in Labels
      BY DEF Labels
    <3>2. /\ Cardinality(Live') = Cardinality(Live) + 1 - 1
          /\ Cardinality(Counting') = Cardinality(Counting) + 0 - 0
          /\ Cardinality(Waiting') = Cardinality(Waiting) + 0 - 1
      BY <2>3, <3>1, <3>3, PcCounts
    <3>4. Cardinality(Live') = Cardinality(Live) /\ Cardinality(Counting') = Cardinality(Counting)
      BY <3>2, FiniteParts
    <3>5. /\ running' = Cardinality(Live')
          /\ running' <= IF number' = 0 THEN MaxRunning ELSE 1
      BY <1>1, <3>4 DEF Counted
    <3>6. pending' = Cardinality(Called') + Cardinality(Counting')
      BY <1>1, <2>1, <3>4 DEF Counted
    <3>7. /\ Cardinality(Waiting') <= waiting'
          /\ waiting' <= Cardinality(Waiting') + MaxMissed
      <4>1. /\ waiting \in Nat /\ Cardinality(Waiting) \in Nat /\ MaxMissed \in Nat
            /\ Cardinality(Waiting) <= waiting /\ waiting <= Cardinality(Waiting) + MaxMissed
        BY FiniteParts, BscAssumption DEF Counted, Types
      <4> QED BY <3>0, <3>1, <3>2, <4>1
    <3> QED BY <3>5, <3>6, <3>7 DEF Counted
  <2> QED BY <1>3, <2>2, <2>3
<1> QED BY <1>4, <1>5, <1>6, <1>7, <1>8

-----------------------------------------------------------------------------
(* The call and the protocol on its word: the thread goes on serving. *)
LEMMA MoveKeeps ==
  ASSUME IInv, NEW t \in Threads, NEW l \in Region \cup {"clean", "die"}, Move(t, l),
         pc[t] \in Region \cup {"plain", "enter"}, UNCHANGED <<number, exited>>,
         word' \in [Procs -> {Free, Killed, Over, "job"}]
  PROVE  Types' /\ Placed' /\ Joined' /\ Counted'
<1> USE DEF IInv
<1>1. /\ pc' = [pc EXCEPT ![t] = l]
      /\ UNCHANGED <<queue, waiting, running, reap, job, victim, pending, killable, doomed, resets,
                     wiped, runs>>
  BY DEF Move, poolVars, killVars
<1>2. l \in Labels
  BY DEF Labels, Dying
<1>3. pc'[t] = l /\ \A u \in Threads : u # t => pc'[u] = pc[u]
  BY <1>1 DEF Types
<1>4. Types'
  BY <1>1, <1>2 DEF Types
<1>5. Placed'
  <2>1. \A u \in Threads : Serving(u)' <=> Serving(u)
    BY <1>3 DEF Serving, Region
  <2> QED BY <1>1, <2>1, PlacedKept
<1>6. Joined'
  <2>1. \A u \in Threads : pc'[u] = pc[u] \/ (pc[u] \notin Gone /\ pc'[u] \notin Gone)
    BY <1>3 DEF Gone, Region
  <2> QED BY <1>1, <2>1, JoinedKept
<1>7. Counted'
  <2>1. /\ l \notin {"none", "join", "zombie", "count", "die_count", "wait"}
        /\ pc[t] \notin {"none", "join", "zombie", "count", "die_count", "wait"}
    BY DEF Region
  <2> QED BY <1>1, <1>2, <2>1, CountedKept
<1> QED BY <1>4, <1>5, <1>6, <1>7

(* The job of a serving thread is served by no other. *)
LEMMA OneServer ==
  ASSUME IInv, NEW t \in Threads, Serving(t)
  PROVE  job[t] \in Procs /\ \A u \in Threads : job[u] = job[t] => u = t
BY BscAssumption DEF IInv, Placed

(* A call that cannot be killed is made. *)
LEMMA PlainStep ==
  ASSUME IInv, NEW t \in Threads, Plain(t), UNCHANGED <<number, exited>>
  PROVE  IInv'
<1>1. pc[t] = "plain" /\ Move(t, "clean") /\ UNCHANGED word
  BY DEF Plain
<1>2. Types' /\ Placed' /\ Joined' /\ Counted'
  BY <1>1, MoveKeeps DEF IInv, Types
<1>3. Hit' /\ Explained' /\ Aimed'
  <2>1. pc'[t] = "clean" /\ (\A u \in Threads : u # t => pc'[u] = pc[u]) /\ UNCHANGED <<doomed, wiped, job>>
    BY <1>1 DEF IInv, Move, Types, killVars
  <2>2. \A u \in Threads :
          /\ pc[u] \in Region \/ pc'[u] \in Region => pc'[u] = pc[u]
          /\ pc[u] \in Dying \cup {"none"} => pc'[u] = pc[u]
    BY <1>1, <2>1 DEF Region, Dying
  <2> QED BY <1>1, <2>1, <2>2, AimedKept DEF IInv
<1> QED BY <1>2, <1>3 DEF IInv

(* The thread puts its job into the word of a call that can be killed. *)
LEMMA EnterStep ==
  ASSUME IInv, NEW t \in Threads, Enter(t), UNCHANGED <<number, exited>>
  PROVE  IInv'
<1> DEFINE l == IF word[job[t]] \in {Free, Over} THEN "func" ELSE "late"
<1>1. pc[t] = "enter" /\ Move(t, l) /\ word' = [word EXCEPT ![job[t]] = "job"]
  BY DEF Enter
<1>2. l \in Region /\ Serving(t)
  BY <1>1 DEF Region, Serving
<1>3. job[t] \in Procs /\ \A u \in Threads : job[u] = job[t] => u = t
  BY <1>2, OneServer
<1>4. Types' /\ Placed' /\ Joined' /\ Counted'
  <2>1. word' \in [Procs -> {Free, Killed, Over, "job"}]
    BY <1>1 DEF IInv, Types
  <2> HIDE DEF l
  <2> QED BY <1>1, <1>2, <2>1, MoveKeeps
<1>5. /\ pc'[t] \in Region /\ (\A u \in Threads : u # t => pc'[u] = pc[u])
      /\ UNCHANGED <<doomed, wiped, job>>
      /\ \A p \in Procs : p # job[t] => word'[p] = word[p]
  BY <1>1, <1>2 DEF IInv, Move, Types, killVars
<1>6. t \notin doomed
  <2>1. pc[t] \notin Region \cup Dying \cup {"none"}
    BY <1>1 DEF Region, Dying
  <2> QED BY <2>1 DEF IInv, Hit
<1>7. \A p \in Procs : word'[p] = "job" => \E u \in Threads : job'[u] = p /\ pc'[u] \in Region
  BY <1>1, <1>3, <1>5 DEF IInv, Hit
<1>8. \A u \in doomed' : pc'[u] \in Region \cup Dying \cup {"none"}
  BY <1>5, <1>6 DEF IInv, Hit, Types
<1>9. ASSUME NEW u \in doomed', pc'[u] \in Region
      PROVE  word'[job'[u]] # "job"
  <2>1. u \in doomed /\ u \in Threads /\ u # t /\ pc[u] \in Region /\ job'[u] = job[u]
    BY <1>5, <1>6, <1>9 DEF IInv, Types
  <2>2. Serving(u)
    BY <2>1 DEF Serving
  <2>3. job[u] \in Procs /\ job[u] # job[t]
    BY <1>3, <2>1, <2>2, OneServer
  <2> QED BY <1>5, <1>9, <2>1, <2>3 DEF IInv, Aimed
<1>10. Explained'
  <2> SUFFICES ASSUME NEW u \in Threads, pc'[u] \in Region, word'[job'[u]] # "job"
               PROVE  wiped'[job'[u]] \/ u \in doomed'
    BY DEF Explained
  <2>1. word'[job[t]] = "job"
    BY <1>1, <1>3 DEF IInv, Types
  <2>2. u # t /\ pc[u] \in Region /\ job'[u] = job[u]
    BY <1>5, <2>1
  <2>3. job[u] \in Procs /\ job[u] # job[t]
    BY <1>3, <2>2, OneServer DEF Serving
  <2> QED BY <1>5, <2>2, <2>3 DEF IInv, Explained
<1> QED BY <1>4, <1>7, <1>8, <1>9, <1>10 DEF IInv, Hit, Aimed

(* The end of a call in the region: it is over unless a kill has taken it. *)
LEMMA ReturnStep ==
  ASSUME IInv, NEW t \in Threads, Func(t) \/ Late(t), UNCHANGED <<number, exited>>
  PROVE  IInv'
<1> DEFINE l == IF word[job[t]] = "job" THEN "clean" ELSE "die"
<1>1. pc[t] \in Region /\ Move(t, l)
  BY DEF Func, Late, Region
<1>2. Serving(t)
  BY <1>1 DEF Serving
<1>3. job[t] \in Procs /\ \A u \in Threads : job[u] = job[t] => u = t
  BY <1>2, OneServer
<1>4. \/ word' = [word EXCEPT ![job[t]] = Free] \/ word' = [word EXCEPT ![job[t]] = Over]
      \/ word' = word /\ word[job[t]] # "job"
  BY DEF Func, Late
<1>5. /\ word' \in [Procs -> {Free, Killed, Over, "job"}]
      /\ word'[job[t]] # "job" /\ \A p \in Procs : p # job[t] => word'[p] = word[p]
  BY <1>3, <1>4 DEF IInv, Types, Free, Over
<1>6. Types' /\ Placed' /\ Joined' /\ Counted'
  <2>1. l \in Region \cup {"clean", "die"}
    OBVIOUS
  <2> HIDE DEF l
  <2> QED BY <1>1, <1>5, <2>1, MoveKeeps
<1>7. /\ pc'[t] = l /\ (\A u \in Threads : u # t => pc'[u] = pc[u])
      /\ UNCHANGED <<doomed, wiped, job>>
  BY <1>1 DEF IInv, Move, Types, killVars
<1>8. \A p \in Procs : word'[p] = "job" => \E u \in Threads : job'[u] = p /\ pc'[u] \in Region
  BY <1>5, <1>7 DEF IInv, Hit
<1>9. ASSUME NEW u \in doomed'
      PROVE  /\ pc'[u] \in Region \cup Dying \cup {"none"}
             /\ pc'[u] \in Region => word'[job'[u]] # "job"
  <2>1. u \in doomed /\ u \in Threads /\ job'[u] = job[u]
    BY <1>7, <1>9 DEF IInv, Types
  <2>2. CASE u = t
    <3>1. word[job[t]] # "job"
      BY <1>1, <1>9, <2>1, <2>2 DEF IInv, Aimed
    <3>2. pc'[u] = "die"
      BY <1>7, <2>2, <3>1
    <3> QED BY <2>1, <3>2 DEF Dying, Region
  <2>3. CASE u # t
    <3>1. pc'[u] = pc[u] /\ pc[u] \in Region \cup Dying \cup {"none"}
      BY <1>7, <1>9, <2>1, <2>3 DEF IInv, Hit
    <3>2. ASSUME pc[u] \in Region PROVE word'[job[u]] # "job"
      <4>1. Serving(u)
        BY <3>2 DEF Serving
      <4>2. job[u] \in Procs /\ job[u] # job[t]
        BY <1>3, <2>1, <2>3, <4>1, OneServer
      <4> QED BY <1>5, <1>9, <2>1, <3>2, <4>2 DEF IInv, Aimed
    <3> QED BY <2>1, <3>1, <3>2
  <2> QED BY <2>2, <2>3
<1>10. Explained'
  <2>1. pc'[t] \notin Region
    BY <1>7 DEF Region
  <2>2. ASSUME NEW u \in Threads, pc'[u] \in Region
        PROVE  pc[u] \in Region /\ job[u] \in Procs /\ job[u] # job[t]
    <3>1. u # t /\ pc[u] \in Region
      BY <1>7, <2>1, <2>2
    <3> QED BY <1>3, <3>1, OneServer DEF Serving
  <2> QED BY <1>5, <1>7, <2>2, ExplainedKept DEF IInv
<1> QED BY <1>6, <1>8, <1>9, <1>10 DEF IInv, Hit, Aimed

-----------------------------------------------------------------------------
(* bsc_cleanup_job, in both of its halves. *)
LEMMA CleanStep ==
  ASSUME IInv, NEW t \in Threads, Clean(t), UNCHANGED <<number, exited>>
  PROVE  IInv'
<1>1. pc[t] \in {"clean", "die"} /\ Serving(t)
  BY DEF Clean, Serving
<1>2. PICK p \in Procs : p = job[t] /\ runs[p] = 0 /\ ~InQueue(p)
  BY <1>1 DEF IInv, Placed
<1>3. \A u \in Threads : job[u] = p => u = t
  BY <1>1, <1>2, OneServer
<1> DEFINE l == IF pc[t] = "clean" THEN "count" ELSE "die_count"
<1>4. /\ word' = IF killable[p] THEN [word EXCEPT ![p] = Free] ELSE word
      /\ runs' = [runs EXCEPT ![p] = 1]
      /\ job' = [job EXCEPT ![t] = NoProc] /\ killable' = [killable EXCEPT ![p] = FALSE]
      /\ pc' = [pc EXCEPT ![t] = l]
      /\ wiped' = [wiped EXCEPT ![p] = FALSE]
      /\ UNCHANGED <<queue, waiting, running, reap, victim, pending, doomed, resets>>
  <2>1. runs[p] + 1 = 1
    BY <1>2
  <2> QED BY <1>2, <2>1 DEF Clean, poolVars, killVars
<1>5. l \in {"count", "die_count"} /\ l \in Labels
  BY DEF Labels, Dying
<1>6. Types'
  BY <1>4, <1>5 DEF IInv, Types
<1>7. pc'[t] = l /\ \A u \in Threads : u # t => pc'[u] = pc[u]
  BY <1>4 DEF IInv, Types
<1>8. job'[t] = NoProc /\ \A u \in Threads : u # t => job'[u] = job[u]
  BY <1>4 DEF IInv, Types
<1>9. runs'[p] = 1 /\ \A q \in Procs : q # p => runs'[q] = runs[q]
  BY <1>4 DEF IInv, Types
<1>10. ~Serving(t)' /\ \A u \in Threads : u # t => (Serving(u)' <=> Serving(u))
  BY <1>5, <1>7 DEF Serving, Region
<1>11. Placed'
  <2>1. \A q : InQueue(q)' <=> InQueue(q)
    BY <1>4 DEF InQueue
  <2>2. \A i \in 1..Len(queue) : queue[i] # p /\ queue[i] \in Procs
    BY <1>2 DEF InQueue, IInv, Types
  <2>3. \A q \in Procs : runs'[q] \in {0, 1}
    BY <1>9 DEF IInv, Placed
  <2>4. \A i \in 1..Len(queue') : runs'[queue'[i]] = 0
    BY <1>4, <1>9, <2>2 DEF IInv, Placed
  <2>5. ASSUME NEW u \in Threads
        PROVE  /\ Serving(u)' => job'[u] \in Procs /\ runs'[job'[u]] = 0 /\ ~InQueue(job[u])'
               /\ ~Serving(u)' => job'[u] = NoProc
    <3>1. CASE u = t
      BY <1>8, <1>10, <3>1
    <3>2. CASE u # t
      <4>1. job[u] # p /\ job'[u] = job[u] /\ (Serving(u)' <=> Serving(u))
        BY <1>3, <1>8, <1>10, <3>2
      <4>2. InQueue(job[u])' <=> InQueue(job[u])
        BY <1>4, <4>1 DEF InQueue
      <4> QED BY <1>9, <4>1, <4>2 DEF IInv, Placed
    <3> QED BY <3>1, <3>2
  <2>6. \A u, v \in Threads : Serving(u)' /\ Serving(v)' /\ job'[u] = job'[v] => u = v
    BY <1>8, <1>10 DEF IInv, Placed
  <2>7. \A q \in Procs : runs'[q] = 0 => InQueue(q)' \/ \E u \in Threads : job'[u] = q
    BY <1>2, <1>8, <1>9, <2>1 DEF IInv, Placed
  <2>8. \A i, j \in 1..Len(queue') : queue'[i] = queue'[j] => i = j
    BY <1>4 DEF IInv, Placed
  <2> QED BY <2>3, <2>4, <2>5, <2>6, <2>7, <2>8 DEF Placed
<1>12. Hit' /\ Explained' /\ Aimed'
  <2>1. pc[t] \notin Region /\ pc'[t] \notin Region
    BY <1>1, <1>5, <1>7 DEF Region
  <2>2. word[p] # "job"
    BY <1>3, <2>1 DEF IInv, Hit
  <2>3. word'[p] # "job" /\ \A q \in Procs : q # p => word'[q] = word[q]
    BY <1>4, <2>2 DEF IInv, Types, Free
  <2>4. \A q \in Procs : word'[q] = "job" => \E u \in Threads : job'[u] = q /\ pc'[u] \in Region
    BY <1>7, <1>8, <2>1, <2>3 DEF IInv, Hit
  <2>5. ASSUME NEW u \in doomed'
        PROVE  /\ pc'[u] \in Region \cup Dying \cup {"none"}
               /\ pc'[u] \in Region => word'[job'[u]] # "job"
    <3>1. u \in doomed /\ u \in Threads
      BY <1>4, <2>5 DEF IInv, Types
    <3>2. pc[u] \in Region \cup Dying \cup {"none"}
      BY <2>5, <3>1 DEF IInv, Hit
    <3>3. CASE u = t
      <4>1. pc[t] = "die"
        BY <1>1, <3>2, <3>3 DEF Region, Dying
      <4>2. pc'[u] = "die_count"
        BY <1>7, <3>3, <4>1
      <4> QED BY <3>1, <4>2 DEF Region, Dying
    <3>4. CASE u # t
      <4>1. pc'[u] = pc[u] /\ job'[u] = job[u] /\ job[u] # p
        BY <1>3, <1>7, <1>8, <3>1, <3>4
      <4>2. ASSUME pc[u] \in Region PROVE word'[job[u]] # "job"
        <5>1. job[u] \in Procs
          BY <3>1, <4>2, OneServer DEF Serving
        <5>2. word[job[u]] # "job"
          BY <2>5, <3>1, <4>2 DEF IInv, Aimed
        <5> QED BY <2>3, <4>1, <5>1, <5>2
      <4> QED BY <3>1, <3>2, <4>1, <4>2
    <3> QED BY <3>3, <3>4
  <2>6. Explained'
    <3>1. ASSUME NEW u \in Threads, pc'[u] \in Region
          PROVE  pc[u] \in Region /\ job'[u] = job[u] /\ job[u] \in Procs /\ job[u] # p
      <4>1. u # t /\ pc[u] \in Region /\ job'[u] = job[u]
        BY <1>7, <1>8, <2>1, <3>1
      <4> QED BY <1>3, <4>1, OneServer DEF Serving
    <3>2. \A q \in Procs : q # p => wiped'[q] = wiped[q]
      BY <1>4 DEF IInv, Types
    <3> QED BY <1>4, <2>3, <3>1, <3>2, ExplainedKept DEF IInv
  <2> QED BY <2>4, <2>5, <2>6 DEF Hit, Aimed
<1>13. Joined'
  <2>1. \A u \in Threads : pc'[u] = pc[u] \/ (pc[u] \notin Gone /\ pc'[u] \notin Gone)
    BY <1>1, <1>5, <1>7 DEF Gone
  <2> QED BY <1>4, <2>1, JoinedKept DEF IInv
<1>14. Counted'
  <2>1. Cardinality(Called') = Cardinality(Called) + 0 - 1
    BY <1>2, <1>4, CalledCount DEF IInv
  <2>2. /\ Cardinality(Live') = Cardinality(Live) + 1 - 1
        /\ Cardinality(Counting') = Cardinality(Counting) + 1 - 0
        /\ Cardinality(Waiting') = Cardinality(Waiting) + 0 - 0
    <3> HIDE DEF l
    <3> QED BY <1>1, <1>4, <1>5, PcCounts DEF IInv
  <2>3. /\ running' = Cardinality(Live') /\ Cardinality(Waiting') = Cardinality(Waiting)
        /\ pending' = Cardinality(Called') + Cardinality(Counting')
    BY <1>4, <2>1, <2>2, FiniteParts DEF IInv, Counted
  <2> QED BY <1>4, <2>3 DEF IInv, Counted
<1> QED BY <1>6, <1>11, <1>12, <1>13, <1>14 DEF IInv

(* The thread counts the answer it has given. *)
LEMMA CountStep ==
  ASSUME IInv, NEW t \in Threads, Count(t), UNCHANGED <<number, exited>>
  PROVE  IInv'
<1> DEFINE l == IF pc[t] = "count" THEN "look" ELSE "exit"
<1>1. /\ pc[t] \in {"count", "die_count"} /\ pc' = [pc EXCEPT ![t] = l]
      /\ pending' = pending - 1
      /\ UNCHANGED <<queue, waiting, running, reap, job, victim, killable, word, doomed, resets,
                     wiped, runs>>
  BY DEF Count, poolVars, killVars
<1>2. l \in {"look", "exit"} /\ l \in Labels
  BY DEF Labels, Dying
<1>3. pc'[t] = l /\ \A u \in Threads : u # t => pc'[u] = pc[u]
  BY <1>1 DEF IInv, Types
<1>4. Counted' /\ pending' \in Nat
  <2>1. /\ Cardinality(Live') = Cardinality(Live) + 1 - 1
        /\ Cardinality(Counting') = Cardinality(Counting) + 0 - 1
        /\ Cardinality(Waiting') = Cardinality(Waiting) + 0 - 0
    <3> HIDE DEF l
    <3> QED BY <1>1, <1>2, PcCounts DEF IInv
  <2>2. Called' = Called
    BY <1>1 DEF Called
  <2>3. Cardinality(Counting) > 0
    <3>1. t \in Counting
      BY <1>1 DEF Counting
    <3>2. Counting # {}
      BY <3>1
    <3> QED BY <3>2, FiniteParts, FS_EmptySet
  <2>4. /\ running' = Cardinality(Live') /\ Cardinality(Waiting') = Cardinality(Waiting)
        /\ pending' = Cardinality(Called') + Cardinality(Counting') /\ pending' \in Nat
    BY <1>1, <2>1, <2>2, <2>3, FiniteParts DEF IInv, Counted
  <2> QED BY <1>1, <2>4 DEF IInv, Counted
<1>5. Types'
  BY <1>1, <1>2, <1>4 DEF IInv, Types
<1>6. Placed'
  <2>1. \A u \in Threads : Serving(u)' <=> Serving(u)
    BY <1>1, <1>2, <1>3 DEF Serving, Region
  <2> QED BY <1>1, <2>1, PlacedKept DEF IInv
<1>7. Hit' /\ Explained' /\ Aimed'
  <2>1. \A u \in Threads :
          /\ pc[u] \in Region \/ pc'[u] \in Region => pc'[u] = pc[u]
          /\ pc[u] \in Dying \cup {"none"} => pc'[u] \in Dying \cup {"none"}
    BY <1>1, <1>2, <1>3 DEF Region, Dying
  <2> QED BY <1>1, <2>1, AimedKept DEF IInv
<1>8. Joined'
  <2>1. \A u \in Threads : pc'[u] = pc[u] \/ (pc[u] \notin Gone /\ pc'[u] \notin Gone)
    BY <1>1, <1>2, <1>3 DEF Gone
  <2> QED BY <1>1, <2>1, JoinedKept DEF IInv
<1> QED BY <1>4, <1>5, <1>6, <1>7, <1>8 DEF IInv

-----------------------------------------------------------------------------
(* The end of a thread.  Nothing but the joining and `running' changes. *)
LEMMA EndKeeps ==
  ASSUME IInv, UNCHANGED <<queue, waiting, job, pending, killable, word, doomed, resets, wiped>>,
         UNCHANGED <<runs, number, exited>>,
         pc' \in [Threads -> Labels], running' \in Nat, reap' \in Threads \cup {NoThread},
         victim' \in [Threads -> Threads \cup {NoThread}],
         \A u \in Threads :
           pc'[u] = pc[u] \/ (pc[u] \in Gone \cup {"exit"} /\ pc'[u] \in Gone \cup {"none"})
  PROVE  /\ Types' /\ Placed' /\ Hit' /\ Explained' /\ Aimed'
         /\ Called' = Called /\ Counting' = Counting /\ Waiting' = Waiting
<1>1. Types'
  BY DEF IInv, Types
<1>2. Placed'
  <2>1. \A u \in Threads : Serving(u)' <=> Serving(u)
    BY DEF Serving, Region, Gone
  <2> QED BY <2>1, PlacedKept DEF IInv
<1>3. Hit' /\ Explained' /\ Aimed'
  <2>1. \A u \in Threads :
          /\ pc[u] \in Region \/ pc'[u] \in Region => pc'[u] = pc[u]
          /\ pc[u] \in Dying \cup {"none"} => pc'[u] \in Dying \cup {"none"}
    BY DEF Region, Dying, Gone
  <2> QED BY <2>1, AimedKept DEF IInv
<1>4. Called' = Called /\ Counting' = Counting /\ Waiting' = Waiting
  BY DEF Called, Counting, Waiting, Gone
<1> QED BY <1>1, <1>2, <1>3, <1>4

(* A dying thread leaves itself to be joined, and takes the one before. *)
LEMMA ExitStep ==
  ASSUME IInv, NEW t \in Threads, Exit(t), UNCHANGED <<number, exited>>
  PROVE  IInv'
<1>1. /\ pc[t] = "exit" /\ victim' = [victim EXCEPT ![t] = reap] /\ reap' = t
      /\ pc' = [pc EXCEPT ![t] = "leave"]
      /\ UNCHANGED <<queue, waiting, running, job, pending, killable, word, doomed, resets,
                     wiped, runs>>
  BY DEF Exit, killVars
<1>2. /\ pc'[t] = "leave" /\ (\A u \in Threads : u # t => pc'[u] = pc[u])
      /\ victim'[t] = reap /\ (\A u \in Threads : u # t => victim'[u] = victim[u])
  BY <1>1 DEF IInv, Types
<1>3. "leave" \in Labels
  BY DEF Labels, Dying
<1>4. /\ Types' /\ Placed' /\ Hit' /\ Explained' /\ Aimed'
      /\ Called' = Called /\ Counting' = Counting /\ Waiting' = Waiting
  <2>1. /\ pc' \in [Threads -> Labels] /\ running' \in Nat /\ reap' \in Threads \cup {NoThread}
        /\ victim' \in [Threads -> Threads \cup {NoThread}]
    BY <1>1, <1>3 DEF IInv, Types
  <2>2. \A u \in Threads :
          pc'[u] = pc[u] \/ (pc[u] \in Gone \cup {"exit"} /\ pc'[u] \in Gone \cup {"none"})
    BY <1>1, <1>2 DEF Gone
  <2> QED BY <1>1, <2>1, <2>2, EndKeeps
<1>5. Joined'
  <2>1. t # NoThread /\ pc[t] \notin Gone /\ pc'[t] \in Gone
    BY <1>1, <1>2, BscAssumption DEF Gone
  <2>2. reap # t /\ \A u \in Threads : victim[u] # t
    BY <2>1 DEF IInv, Joined
  <2>3. \A u \in Threads : pc[u] \in Gone => pc'[u] = pc[u] /\ u # t
    BY <1>2, <2>1
  <2>4. ASSUME NEW u \in Threads
        PROVE  /\ pc'[u] = "join" => victim'[u] # NoThread
               /\ victim'[u] # NoThread =>
                    /\ pc'[u] \in {"leave", "join"}
                    /\ pc'[victim'[u]] \in Gone /\ victim'[u] # reap'
    <3>1. CASE u = t
      <4>1. reap # NoThread => reap \in Threads /\ pc[reap] \in Gone
        BY DEF IInv, Types, Joined
      <4>2. reap # NoThread => pc'[reap] \in Gone
        BY <2>3, <4>1
      <4> QED BY <1>1, <1>2, <2>2, <3>1, <4>2
    <3>2. CASE u # t
      <4>1. victim[u] # NoThread => victim[u] \in Threads /\ pc[victim[u]] \in Gone
        BY DEF IInv, Types, Joined
      <4>2. victim[u] # NoThread => pc'[victim[u]] \in Gone
        BY <2>3, <4>1
      <4> QED BY <1>1, <1>2, <2>2, <3>2, <4>2 DEF IInv, Joined
    <3> QED BY <3>1, <3>2
  <2>5. \A u, v \in Threads : victim'[u] = victim'[v] /\ victim'[u] # NoThread => u = v
    BY <1>2 DEF IInv, Joined
  <2>6. \A u \in Threads : pc'[u] \in Gone => reap' = u \/ \E v \in Threads : victim'[v] = u
    <3>1. ASSUME NEW u \in Threads, pc'[u] \in Gone, u # t
          PROVE  \E v \in Threads : victim'[v] = u
      <4>1. reap = u \/ \E v \in Threads : victim[v] = u
        BY <1>2, <3>1 DEF IInv, Joined
      <4>2. ASSUME NEW v \in Threads, victim[v] = u PROVE v # t
        <5>1. victim[v] # NoThread
          BY <4>2, BscAssumption
        <5> QED BY <1>1, <4>2, <5>1 DEF IInv, Joined
      <4> QED BY <1>2, <4>1, <4>2
    <3> QED BY <1>1, <3>1
  <2> QED BY <1>1, <2>1, <2>4, <2>5, <2>6 DEF Joined
<1>6. Counted'
  <2>1. Live' = Live
    BY <1>1, <1>2 DEF Live
  <2> QED BY <1>1, <1>4, <2>1 DEF IInv, Counted
<1> QED BY <1>4, <1>5, <1>6 DEF IInv

(* It uncounts itself. *)
LEMMA LeaveStep ==
  ASSUME IInv, NEW t \in Threads, Leave(t), UNCHANGED <<number, exited>>
  PROVE  IInv'
<1> DEFINE l == IF victim[t] = NoThread THEN "zombie" ELSE "join"
<1>1. /\ pc[t] = "leave" /\ running' = running - 1 /\ pc' = [pc EXCEPT ![t] = l]
      /\ UNCHANGED <<queue, waiting, reap, job, victim, pending, killable, word, doomed, resets,
                     wiped, runs>>
  BY DEF Leave, killVars
<1>2. l \in {"zombie", "join"} /\ l \in Labels /\ (l = "join" <=> victim[t] # NoThread)
  BY DEF Labels, Dying
<1>3. pc'[t] = l /\ \A u \in Threads : u # t => pc'[u] = pc[u]
  BY <1>1 DEF IInv, Types
<1> HIDE DEF l
<1>4. Cardinality(Live') = Cardinality(Live) + 0 - 1
  BY <1>1, <1>2, PcCounts DEF IInv
<1>5. running > 0
  <2>1. t \in Live
    BY <1>1 DEF Live
  <2>2. Live # {}
    BY <2>1
  <2> QED BY <2>2, FiniteParts, FS_EmptySet DEF IInv, Counted
<1>6. running' \in Nat /\ running' = Cardinality(Live')
      /\ running' <= IF number' = 0 THEN MaxRunning ELSE 1
  BY <1>1, <1>4, <1>5, BscAssumption DEF IInv, Counted, Types
<1>7. /\ Types' /\ Placed' /\ Hit' /\ Explained' /\ Aimed'
      /\ Called' = Called /\ Counting' = Counting /\ Waiting' = Waiting
  <2>1. /\ pc' \in [Threads -> Labels] /\ reap' \in Threads \cup {NoThread}
        /\ victim' \in [Threads -> Threads \cup {NoThread}]
    BY <1>1, <1>2 DEF IInv, Types
  <2>2. \A u \in Threads :
          pc'[u] = pc[u] \/ (pc[u] \in Gone \cup {"exit"} /\ pc'[u] \in Gone \cup {"none"})
    BY <1>1, <1>2, <1>3 DEF Gone
  <2> QED BY <1>1, <1>6, <2>1, <2>2, EndKeeps
<1>8. Joined'
  <2>1. \A u \in Threads : pc'[u] \in Gone <=> pc[u] \in Gone
    BY <1>1, <1>2, <1>3 DEF Gone
  <2>2. reap' # NoThread => pc'[reap'] \in Gone
    BY <1>1, <2>1 DEF IInv, Types, Joined
  <2>3. ASSUME NEW u \in Threads
        PROVE  /\ pc'[u] = "join" => victim'[u] # NoThread
               /\ victim'[u] # NoThread =>
                    /\ pc'[u] \in {"leave", "join"}
                    /\ pc'[victim'[u]] \in Gone /\ victim'[u] # reap'
    <3>1. victim[u] # NoThread => pc'[victim[u]] \in Gone
      BY <2>1 DEF IInv, Types, Joined
    <3> QED BY <1>1, <1>2, <1>3, <3>1 DEF IInv, Joined
  <2>4. \A u \in Threads : pc'[u] \in Gone => reap' = u \/ \E v \in Threads : victim'[v] = u
    BY <1>1, <2>1 DEF IInv, Joined
  <2>5. \A u, v \in Threads : victim'[u] = victim'[v] /\ victim'[u] # NoThread => u = v
    BY <1>1 DEF IInv, Joined
  <2> QED BY <2>2, <2>3, <2>4, <2>5 DEF Joined
<1>9. Counted'
  BY <1>1, <1>6, <1>7 DEF IInv, Counted
<1> QED BY <1>7, <1>8, <1>9 DEF IInv

(* It joins the one before. *)
LEMMA JoinStep ==
  ASSUME IInv, NEW t \in Threads, Join(t), UNCHANGED <<number, exited>>
  PROVE  IInv'
<1>1. PICK v \in Threads : v = victim[t] /\ v # reap
  BY DEF Join, IInv, Joined, Types
<1>2. /\ pc[t] = "join" /\ pc[v] = "zombie" /\ t # v
      /\ pc' = [pc EXCEPT ![t] = "zombie", ![v] = "none"]
      /\ victim' = [victim EXCEPT ![t] = NoThread]
      /\ UNCHANGED <<queue, waiting, running, reap, job, pending, killable, word, doomed, resets,
                     wiped, runs>>
  BY <1>1 DEF Join, poolVars, killVars
<1>3. /\ pc'[t] = "zombie" /\ pc'[v] = "none"
      /\ \A u \in Threads : u # t /\ u # v => pc'[u] = pc[u]
  BY <1>2 DEF IInv, Types
<1>4. victim'[t] = NoThread /\ \A u \in Threads : u # t => victim'[u] = victim[u]
  BY <1>2 DEF IInv, Types
<1>5. /\ Types' /\ Placed' /\ Hit' /\ Explained' /\ Aimed'
      /\ Called' = Called /\ Counting' = Counting /\ Waiting' = Waiting
  <2>1. "zombie" \in Labels /\ "none" \in Labels
    BY DEF Labels, Dying
  <2>2. /\ pc' \in [Threads -> Labels] /\ reap' \in Threads \cup {NoThread}
        /\ running' \in Nat /\ victim' \in [Threads -> Threads \cup {NoThread}]
    BY <1>2, <2>1 DEF IInv, Types
  <2>3. \A u \in Threads :
          pc'[u] = pc[u] \/ (pc[u] \in Gone \cup {"exit"} /\ pc'[u] \in Gone \cup {"none"})
    BY <1>2, <1>3 DEF Gone
  <2> QED BY <1>2, <2>2, <2>3, EndKeeps
<1>6. Joined'
  <2>1. v # NoThread /\ t # NoThread
    BY BscAssumption
  <2>2. \A u \in Threads : u # t => victim[u] # v
    BY <1>1, <2>1 DEF IInv, Joined
  <2>3. \A u \in Threads : u # v => (pc'[u] \in Gone <=> pc[u] \in Gone)
    BY <1>2, <1>3 DEF Gone
  <2>4. reap' # NoThread => pc'[reap'] \in Gone
    BY <1>1, <1>2, <2>3 DEF IInv, Types, Joined
  <2>5. ASSUME NEW u \in Threads
        PROVE  /\ pc'[u] = "join" => victim'[u] # NoThread
               /\ victim'[u] # NoThread =>
                    /\ pc'[u] \in {"leave", "join"}
                    /\ pc'[victim'[u]] \in Gone /\ victim'[u] # reap'
    <3>1. CASE u = t
      BY <1>3, <1>4, <3>1
    <3>2. CASE u # t
      <4>1. victim[u] # NoThread => pc'[victim[u]] \in Gone
        BY <2>2, <2>3, <3>2 DEF IInv, Types, Joined
      <4>2. victim[u] # NoThread => u # v
        BY <1>2 DEF IInv, Joined
      <4>3. victim'[u] = victim[u] /\ (victim[u] # NoThread => pc'[u] = pc[u])
        BY <1>3, <1>4, <3>2, <4>2
      <4>4. victim[u] # NoThread => pc[u] \in {"leave", "join"} /\ victim[u] # reap'
        BY <1>2, <4>2 DEF IInv, Joined
      <4>5. pc'[u] = "join" => victim[u] # NoThread
        BY <1>3, <3>2 DEF IInv, Joined
      <4> QED BY <4>1, <4>3, <4>4, <4>5
    <3> QED BY <3>1, <3>2
  <2>6. \A u, w \in Threads : victim'[u] = victim'[w] /\ victim'[u] # NoThread => u = w
    BY <1>4 DEF IInv, Joined
  <2>7. ASSUME NEW u \in Threads, pc'[u] \in Gone
        PROVE  reap' = u \/ \E w \in Threads : victim'[w] = u
    <3>1. u # v /\ pc[u] \in Gone
      BY <1>3, <2>3, <2>7 DEF Gone
    <3>2. reap = u \/ \E w \in Threads : victim[w] = u
      BY <3>1 DEF IInv, Joined
    <3> QED BY <1>1, <1>2, <1>4, <3>1, <3>2
  <2> QED BY <2>4, <2>5, <2>6, <2>7 DEF Joined
<1>7. Counted'
  <2>1. Live' = Live
    BY <1>2, <1>3 DEF Live
  <2> QED BY <1>2, <1>5, <2>1 DEF IInv, Counted
<1> QED BY <1>5, <1>6, <1>7 DEF IInv

-----------------------------------------------------------------------------
(* bsyscall_kill. *)
LEMMA KillSwapStep ==
  ASSUME IInv, NEW p \in Procs, KillSwap(p)
  PROVE  IInv'
<1>1. /\ word' = [word EXCEPT ![p] = Killed]
      /\ resets' = IF word[p] = Over THEN [resets EXCEPT ![p] = @ + 1] ELSE resets
      /\ UNCHANGED <<queue, waiting, running, reap, pc, job, victim, pending, killable, runs,
                     wiped, number, exited>>
  BY DEF KillSwap, poolVars, threadVars
<1>2. /\ word' \in [Procs -> {Free, Killed, Over, "job"}]
      /\ word'[p] # "job" /\ \A q \in Procs : q # p => word'[q] = word[q]
  BY <1>1 DEF IInv, Types, Killed
<1>3. \/ doomed' = doomed /\ word[p] # "job"
      \/ \E t \in Threads : /\ job[t] = p /\ pc[t] \in Region
                            /\ doomed' = doomed \cup {t}
  <2>1. CASE word[p] = "job"
    <3>1. PICK t \in Threads : job[t] = p /\ pc[t] \in Region
      BY <2>1 DEF IInv, Hit
    <3>2. \A u \in Threads : job[u] = p => u = t
      BY <3>1, OneServer DEF Serving
    <3>3. {u \in Threads : job[u] = p} = {t}
      BY <3>1, <3>2
    <3> QED BY <2>1, <3>1, <3>3 DEF KillSwap
  <2>2. CASE word[p] # "job"
    BY <2>2 DEF KillSwap
  <2> QED BY <2>1, <2>2
<1>4. Types'
  <2>1. doomed' \in SUBSET Threads /\ doomed \subseteq doomed'
    BY <1>3 DEF IInv, Types
  <2>2. resets' \in [Procs -> Nat]
    BY <1>1 DEF IInv, Types
  <2> QED BY <1>1, <1>2, <2>1, <2>2 DEF IInv, Types
<1>5. Placed'
  BY <1>1, PlacedKept DEF IInv, Serving
<1>6. Joined'
  BY <1>1, JoinedKept DEF IInv
<1>7. Counted'
  <2>1. Live' = Live /\ Called' = Called /\ Counting' = Counting /\ Waiting' = Waiting
    BY <1>1 DEF Live, Called, Counting, Waiting
  <2> QED BY <1>1, <2>1 DEF IInv, Counted
<1>8. \A q \in Procs : word'[q] = "job" => \E t \in Threads : job'[t] = q /\ pc'[t] \in Region
  BY <1>1, <1>2 DEF IInv, Hit
<1>9. ASSUME NEW u \in doomed'
      PROVE  /\ pc'[u] \in Region \cup Dying \cup {"none"}
             /\ pc'[u] \in Region => word'[job'[u]] # "job"
  <2>1. CASE u \in doomed
    <3>1. u \in Threads /\ pc[u] \in Region \cup Dying \cup {"none"}
      BY <2>1 DEF IInv, Types, Hit
    <3>2. ASSUME pc[u] \in Region PROVE word'[job[u]] # "job"
      <4>1. job[u] \in Procs
        BY <3>1, <3>2, OneServer DEF Serving
      <4>2. word[job[u]] # "job"
        BY <2>1, <3>2 DEF IInv, Aimed
      <4> QED BY <1>2, <4>1, <4>2
    <3> QED BY <1>1, <3>1, <3>2
  <2>2. CASE u \notin doomed
    <3>1. job[u] = p /\ pc[u] \in Region
      BY <1>3, <1>9, <2>2
    <3> QED BY <1>1, <1>2, <3>1
  <2> QED BY <2>1, <2>2
<1>10. Explained'
  <2> SUFFICES ASSUME NEW t \in Threads, pc[t] \in Region, word'[job[t]] # "job"
               PROVE  wiped[job[t]] \/ t \in doomed'
    BY <1>1 DEF Explained
  <2>1. job[t] \in Procs /\ \A u \in Threads : job[u] = job[t] => u = t
    BY OneServer DEF Serving
  <2>2. CASE word[job[t]] # "job"
    BY <1>3, <2>2 DEF IInv, Explained
  <2>3. CASE word[job[t]] = "job"
    <3>1. job[t] = p
      BY <1>2, <2>1, <2>3
    <3> QED BY <1>3, <2>1, <2>3, <3>1
  <2> QED BY <2>2, <2>3
<1> QED BY <1>4, <1>5, <1>6, <1>7, <1>8, <1>9, <1>10 DEF IInv, Hit, Aimed

(* The second write to the word may wipe the pointer of the next call. *)
LEMMA KillResetStep ==
  ASSUME IInv, NEW p \in Procs, KillReset(p)
  PROVE  IInv'
<1>1. /\ word' = [word EXCEPT ![p] = Free]
      /\ wiped' = IF word[p] = "job" THEN [wiped EXCEPT ![p] = TRUE] ELSE wiped
      /\ resets[p] > 0 /\ resets' = [resets EXCEPT ![p] = @ - 1]
      /\ UNCHANGED <<queue, waiting, running, reap, pc, job, victim, pending, killable, doomed,
                     runs, number, exited>>
  BY DEF KillReset, poolVars, threadVars
<1>2. word'[p] # "job" /\ \A q \in Procs : q # p => word'[q] = word[q] /\ wiped'[q] = wiped[q]
  BY <1>1 DEF IInv, Types, Free
<1>3. Types'
  <2>1. word' \in [Procs -> {Free, Killed, Over, "job"}] /\ wiped' \in [Procs -> BOOLEAN]
    BY <1>1 DEF IInv, Types
  <2>2. resets' \in [Procs -> Nat]
    BY <1>1 DEF IInv, Types
  <2> QED BY <1>1, <2>1, <2>2 DEF IInv, Types
<1>4. Placed'
  BY <1>1, PlacedKept DEF IInv, Serving
<1>5. Joined'
  BY <1>1, JoinedKept DEF IInv
<1>6. Counted'
  <2>1. Live' = Live /\ Called' = Called /\ Counting' = Counting /\ Waiting' = Waiting
    BY <1>1 DEF Live, Called, Counting, Waiting
  <2> QED BY <1>1, <2>1 DEF IInv, Counted
<1>7. Hit'
  BY <1>1, <1>2 DEF IInv, Hit
<1>8. ASSUME NEW t \in Threads, pc[t] \in Region
      PROVE  /\ job[t] \in Procs
             /\ word'[job[t]] = "job" => word[job[t]] = "job"
             /\ word'[job[t]] # "job" => word[job[t]] # "job" \/ wiped'[job[t]]
             /\ wiped[job[t]] => wiped'[job[t]]
  <2>1. job[t] \in Procs
    BY <1>8, OneServer DEF Serving
  <2>2. word[p] = "job" => wiped'[p] = TRUE
    BY <1>1 DEF IInv, Types
  <2>3. word[p] # "job" => wiped'[p] = wiped[p]
    BY <1>1
  <2> QED BY <1>2, <2>1, <2>2, <2>3
<1>9. Explained'
  BY <1>1, <1>8 DEF IInv, Explained
<1>10. Aimed'
  BY <1>1, <1>8 DEF IInv, Types, Aimed
<1> QED BY <1>3, <1>4, <1>5, <1>6, <1>7, <1>9, <1>10 DEF IInv

(* The cancellation finds its thread in the region or on its way out. *)
LEMMA CancelStep ==
  ASSUME IInv, NEW t \in Threads, Cancel(t)
  PROVE  IInv'
<1>1. t \in doomed
  BY DEF Cancel
<1>2. pc[t] \in Region \cup Dying \cup {"none"}
  BY <1>1 DEF IInv, Hit
<1> DEFINE l == IF pc[t] \in Region THEN "die" ELSE pc[t]
<1>3. /\ pc' = [pc EXCEPT ![t] = l] /\ doomed' = doomed \ {t}
      /\ UNCHANGED <<queue, waiting, running, reap, job, victim, pending, killable, word, resets,
                     wiped, runs, number, exited>>
  <2>1. CASE pc[t] \in Region
    <3>1. pc[t] \notin Dying \cup {"none"}
      BY <2>1 DEF Region, Dying
    <3> QED BY <1>1, <2>1, <3>1 DEF Cancel, poolVars
  <2>2. CASE pc[t] \notin Region
    BY <1>1, <1>2, <2>2 DEF Cancel, poolVars
  <2> QED BY <2>1, <2>2
<1>4. l \in Labels
  BY DEF IInv, Types, Labels, Dying
<1>5. /\ pc'[t] = l /\ (\A u \in Threads : u # t => pc'[u] = pc[u])
      /\ pc[t] \in Region => l = "die"
      /\ pc[t] \notin Region => pc' = pc
  BY <1>3 DEF IInv, Types
<1>6. doomed' \subseteq doomed /\ \A u \in doomed : u # t => u \in doomed'
  BY <1>3
<1>7. Types'
  BY <1>3, <1>4 DEF IInv, Types
<1>8. Placed'
  <2>1. \A u \in Threads : Serving(u)' <=> Serving(u)
    BY <1>5 DEF Serving
  <2> QED BY <1>3, <2>1, PlacedKept DEF IInv
<1>9. Joined'
  <2>1. \A u \in Threads : pc'[u] = pc[u] \/ (pc[u] \notin Gone /\ pc'[u] \notin Gone)
    BY <1>5 DEF Gone, Region
  <2> QED BY <1>3, <2>1, JoinedKept DEF IInv
<1>10. Counted'
  <2>1. CASE pc[t] \in Region
    <3>1. /\ pc[t] \notin {"none", "join", "zombie", "count", "die_count", "wait"}
          /\ l \notin {"none", "join", "zombie", "count", "die_count", "wait"}
      BY <1>5, <2>1 DEF Region
    <3> HIDE DEF l
    <3> QED BY <1>3, <1>4, <3>1, CountedKept DEF IInv
  <2>2. CASE pc[t] \notin Region
    <3>1. Live' = Live /\ Called' = Called /\ Counting' = Counting /\ Waiting' = Waiting
      BY <1>3, <1>5, <2>2 DEF Live, Called, Counting, Waiting
    <3> QED BY <1>3, <3>1 DEF IInv, Counted
  <2> QED BY <2>1, <2>2
<1>11. ASSUME NEW p \in Procs, word'[p] = "job"
       PROVE  \E u \in Threads : job'[u] = p /\ pc'[u] \in Region
  <2>1. PICK u \in Threads : job[u] = p /\ pc[u] \in Region
    BY <1>3, <1>11 DEF IInv, Hit
  <2>2. u # t
    BY <1>1, <1>3, <1>11, <2>1, BscAssumption DEF IInv, Aimed
  <2> QED BY <1>3, <1>5, <2>1, <2>2
<1>12. ASSUME NEW u \in doomed'
       PROVE  /\ pc'[u] \in Region \cup Dying \cup {"none"}
              /\ pc'[u] \in Region => word'[job'[u]] # "job"
  <2>1. u \in doomed /\ u \in Threads /\ pc[u] \in Region \cup Dying \cup {"none"}
    BY <1>6, <1>12 DEF IInv, Types, Hit
  <2>2. pc'[u] = pc[u] \/ pc'[u] = "die"
    BY <1>5, <2>1
  <2>3. "die" \in Dying /\ "die" \notin Region
    BY DEF Dying, Region
  <2> QED BY <1>3, <1>12, <2>1, <2>2, <2>3 DEF IInv, Aimed
<1>13. Explained'
  <2> SUFFICES ASSUME NEW u \in Threads, pc'[u] \in Region, word[job[u]] # "job"
               PROVE  wiped[job[u]] \/ u \in doomed'
    BY <1>3 DEF Explained
  <2>1. u # t
    BY <1>5 DEF Region
  <2>2. pc[u] \in Region
    BY <1>5, <2>1
  <2>3. wiped[job[u]] \/ u \in doomed
    BY <2>2 DEF IInv, Explained
  <2> QED BY <1>1, <1>6, <2>1, <2>3
<1> QED BY <1>7, <1>8, <1>9, <1>10, <1>11, <1>12, <1>13 DEF IInv, Hit, Aimed

-----------------------------------------------------------------------------
(* At first every process runs, and there is no thread. *)
LEMMA InitIInv == Init => IInv
<1> SUFFICES ASSUME Init PROVE IInv
  OBVIOUS
<1>1. Types
  <2>1. "none" \in Labels
    BY DEF Labels
  <2>2. /\ killable \in [Procs -> BOOLEAN] /\ word \in [Procs -> {Free, Killed, Over, "job"}]
        /\ pc \in [Threads -> Labels] /\ job \in [Threads -> Procs \cup {NoProc}]
        /\ victim \in [Threads -> Threads \cup {NoThread}]
        /\ doomed \in SUBSET Threads /\ runs \in [Procs -> Nat]
        /\ resets \in [Procs -> Nat] /\ wiped \in [Procs -> BOOLEAN]
    BY <2>1 DEF Init
  <2>3. /\ queue \in Seq(Procs) /\ reap \in Threads \cup {NoThread}
        /\ waiting \in Nat /\ running \in Nat /\ pending \in Nat
    BY DEF Init
  <2>4. number \in Pools /\ exited \in BOOLEAN
    BY DEF Init
  <2> QED BY <2>2, <2>3, <2>4 DEF Types
<1>2. Placed
  <2>1. Len(queue) = 0
    BY DEF Init
  <2>2. \A t \in Threads : ~Serving(t) /\ job[t] = NoProc
    BY DEF Init, Serving, Region
  <2>3. \A p \in Procs : runs[p] = 1
    BY DEF Init
  <2> QED BY <2>1, <2>2, <2>3 DEF Placed, InQueue
<1>3. Hit /\ Explained /\ Aimed
  BY DEF Init, Hit, Explained, Aimed, Free, Region
<1>4. Joined
  <2>1. reap = NoThread /\ \A t \in Threads : pc[t] = "none" /\ victim[t] = NoThread
    BY DEF Init
  <2> QED BY <2>1 DEF Joined, Gone
<1>5. Counted
  <2>1. Live = {} /\ Called = {} /\ Counting = {} /\ Waiting = {}
    BY DEF Init, Live, Called, Counting, Waiting
  <2>2. Cardinality({}) = 0
    BY FS_EmptySet
  <2> QED BY <2>1, <2>2, BscAssumption DEF Init, Counted
<1> QED BY <1>1, <1>2, <1>3, <1>4, <1>5 DEF IInv

(* Every step of a process, a thread or a kill keeps the invariant. *)
LEMMA NextIInv == IInv /\ [Next]_vars => IInv'
<1> SUFFICES ASSUME IInv, [Next]_vars PROVE IInv'
  OBVIOUS
<1>1. ASSUME NEW p \in Procs, NEW x \in BOOLEAN, Dispatch(p, x) PROVE IInv'
  BY <1>1, SignalStep, StartThreadStep, QueuedOnlyStep DEF Dispatch
<1>2. ASSUME NEW t \in Threads, ThreadStep(t) PROVE IInv'
  <2>1. UNCHANGED <<number, exited>>
    BY <1>2 DEF ThreadStep
  <2> QED BY <1>2, <2>1, TakeStep, IdleStep, PlainStep, EnterStep, ReturnStep, CleanStep,
             CountStep, ExitStep, LeaveStep, JoinStep DEF ThreadStep
<1>3. ASSUME NEW t \in Threads, Wakeup(t) PROVE IInv'
  <2>1. UNCHANGED <<number, exited>>
    BY <1>3 DEF Wakeup
  <2> QED BY <1>3, <2>1, IdleStep
<1>4. ASSUME \/ \E t \in Threads : Cancel(t)
             \/ \E p \in Procs : KillSwap(p) \/ KillReset(p)
      PROVE  IInv'
  BY <1>4, CancelStep, KillResetStep, KillSwapStep
<1>5. CASE UNCHANGED vars
  <2>1. /\ UNCHANGED <<queue, waiting, running, reap, pc, job, victim, pending, killable>>
        /\ UNCHANGED <<word, doomed, resets, wiped, runs, number, exited>>
    BY <1>5 DEF vars, poolVars, threadVars, killVars
  <2>2. Types' /\ Hit' /\ Explained' /\ Aimed'
    BY <2>1 DEF IInv, Types, Hit, Explained, Aimed
  <2>3. Placed'
    BY <2>1, PlacedKept DEF IInv, Serving
  <2>4. Joined'
    BY <2>1, JoinedKept DEF IInv
  <2>5. Counted'
    BY <2>1 DEF IInv, Counted, Live, Called, Counting, Waiting
  <2> QED BY <2>2, <2>3, <2>4, <2>5 DEF IInv
<1> QED BY <1>1, <1>2, <1>3, <1>4, <1>5 DEF Next

(* The inductive invariant holds in every reachable state, for any number  *)
(* of calls, threads and kills.                                            *)
THEOREM Invariance == Spec => []IInv
BY InitIInv, NextIInv, PTL DEF Spec

-----------------------------------------------------------------------------
(* Every variable has its type in every reachable state; no counter of the *)
(* pool goes below zero or beyond the threads and calls there are.         *)
THEOREM TypeCorrect == Spec => []TypeOK
<1>1. IInv => TypeOK
  <2> SUFFICES ASSUME IInv PROVE TypeOK
    OBVIOUS
  <2>1. /\ Live \in SUBSET Threads /\ Called \in SUBSET Procs
        /\ Counting \in SUBSET Threads /\ Waiting \in SUBSET Threads
    BY DEF Live, Called, Counting, Waiting
  <2>2. /\ Cardinality(Live) <= Cardinality(Threads)
        /\ Cardinality(Called) <= Cardinality(Procs)
        /\ Cardinality(Counting) <= Cardinality(Threads)
        /\ Cardinality(Waiting) <= Cardinality(Threads)
        /\ Cardinality(Threads) \in Nat /\ Cardinality(Procs) \in Nat
    BY <2>1, FS_Subset, FS_CardinalityType, BscAssumption
  <2>3. /\ waiting \in 0..(Cardinality(Threads) + MaxMissed)
        /\ running \in 0..Cardinality(Threads)
        /\ pending \in 0..(2 * Cardinality(Threads) + Cardinality(Procs))
    <3>1. waiting \in 0..(Cardinality(Threads) + MaxMissed)
      BY <2>2, FiniteParts, BscAssumption DEF IInv, Types, Counted
    <3>2. running \in 0..Cardinality(Threads)
      BY <2>2, FiniteParts DEF IInv, Types, Counted
    <3>3. pending \in 0..(2 * Cardinality(Threads) + Cardinality(Procs))
      BY <2>2, FiniteParts DEF IInv, Types, Counted
    <3> QED BY <3>1, <3>2, <3>3
  <2> QED BY <2>3 DEF IInv, Types, TypeOK, Labels
<1> QED BY <1>1, Invariance, PTL

(* bsc_cleanup_job runs once for every call: neither a kill nor a late     *)
(* cancellation makes a process runnable twice, or not at all.             *)
THEOREM CallReturnsOnce == Spec => []ReturnsOnce
<1>1. IInv => ReturnsOnce
  <2> SUFFICES ASSUME IInv, NEW p \in Procs
               PROVE  runs[p] + Cardinality({i \in DOMAIN queue : queue[i] = p})
                      + Cardinality({t \in Threads : Serving(t) /\ job[t] = p}) = 1
    BY DEF ReturnsOnce
  <2> DEFINE Q == {i \in DOMAIN queue : queue[i] = p}
             S == {t \in Threads : Serving(t) /\ job[t] = p}
  <2>1. DOMAIN queue = 1..Len(queue)
    BY DEF IInv, Types
  <2>2. Cardinality({}) = 0 /\ \A x : Cardinality({x}) = 1
    BY FS_EmptySet, FS_Singleton
  <2>3. CASE runs[p] = 1
    <3>1. Q = {} /\ S = {}
      BY <2>1, <2>3 DEF IInv, Placed
    <3> QED BY <2>2, <2>3, <3>1
  <2>4. CASE runs[p] = 0 /\ InQueue(p)
    <3>1. PICK i \in 1..Len(queue) : queue[i] = p
      BY <2>4 DEF InQueue
    <3>2. Q = {i} /\ S = {}
      BY <2>1, <2>4, <3>1 DEF IInv, Placed
    <3>3. Cardinality(Q) = 1 /\ Cardinality(S) = 0
      BY <2>2, <3>2
    <3> QED BY <2>4, <3>3
  <2>5. CASE runs[p] = 0 /\ ~InQueue(p)
    <3>1. PICK t \in Threads : job[t] = p
      BY <2>5 DEF IInv, Placed
    <3>2. Serving(t)
      BY <3>1, BscAssumption DEF IInv, Placed
    <3>3. Q = {} /\ S = {t}
      BY <2>1, <2>5, <3>1, <3>2 DEF IInv, Placed, InQueue
    <3>4. Cardinality(Q) = 0 /\ Cardinality(S) = 1
      BY <2>2, <3>3
    <3> QED BY <2>5, <3>4
  <2> QED BY <2>3, <2>4, <2>5 DEF IInv, Placed
<1> QED BY <1>1, Invariance, PTL

(* The counter the deadlock check of the schedulers reads is the number of *)
(* calls that are not answered and of answers that are not counted yet.    *)
THEOREM PendingExact == Spec => []PendingCoversCalls
<1>1. IInv => PendingCoversCalls
  BY DEF IInv, Counted, Called, Counting, PendingCoversCalls
<1> QED BY <1>1, Invariance, PTL

(* `running' counts the threads of a pool, never more than its limit, and  *)
(* every thread that left is joined by one other or left for the next.     *)
THEOREM ThreadsJoined == Spec => []ThreadsAccounted
<1>1. IInv => ThreadsAccounted
  <2> SUFFICES ASSUME IInv PROVE ThreadsAccounted
    OBVIOUS
  <2>1. /\ running = Cardinality({t \in Threads : pc[t] \notin {"none", "join", "zombie"}})
        /\ running <= IF number = 0 THEN MaxRunning ELSE 1
    BY DEF IInv, Counted, Live
  <2>2. ASSUME NEW t \in Threads, pc[t] \in {"leave", "join", "zombie"}
        PROVE  (IF reap = t THEN 1 ELSE 0) + Cardinality({u \in Threads : victim[u] = t}) = 1
    <3> DEFINE U == {u \in Threads : victim[u] = t}
    <3>1. t # NoThread /\ Cardinality({}) = 0 /\ \A x : Cardinality({x}) = 1
      BY BscAssumption, FS_EmptySet, FS_Singleton
    <3>2. CASE reap = t
      <4>1. U = {}
        BY <3>1, <3>2 DEF IInv, Joined
      <4> QED BY <3>1, <3>2, <4>1
    <3>3. CASE reap # t
      <4>1. PICK u \in Threads : victim[u] = t
        BY <2>2, <3>3 DEF IInv, Joined, Gone
      <4>2. U = {u}
        BY <3>1, <4>1 DEF IInv, Joined
      <4>3. Cardinality(U) = 1
        BY <3>1, <4>2
      <4> QED BY <3>3, <4>3
    <3> QED BY <3>2, <3>3
  <2> QED BY <2>1, <2>2 DEF ThreadsAccounted
<1> QED BY <1>1, Invariance, PTL

(* A kill cancels a thread only while it makes the call the kill took out  *)
(* of the word, or on its way out: never one that waits, looks for a job   *)
(* or makes the call of another process.  And a call that is being made    *)
(* has lost its pointer only to a kill that is about to cancel its thread, *)
(* or to the late second write of a kill that was meant for an earlier     *)
(* call of its process.                                                    *)
THEOREM KillHitsItsCall == Spec => []KilledWhileInRegion
<1>1. IInv => KilledWhileInRegion
  BY DEF IInv, Hit, Explained, KilledWhileInRegion
<1> QED BY <1>1, Invariance, PTL
=============================================================================
