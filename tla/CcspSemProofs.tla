---------------------------- MODULE CcspSemProofs ----------------------------
(***************************************************************************)
(* The CCSP semaphore is a FIFO lock for any number of schedulers and      *)
(* processes: type correctness, mutual exclusion, no double scheduling,    *)
(* and that CcspSem implements Semaphore.                                  *)
(*                                                                         *)
(* None of these is inductive.  The inductive invariant says where the     *)
(* right to dequeue is (Token), how far the half-done enqueues have got    *)
(* (Chain, Pending, Dequeuing) and where each process is (Running,         *)
(* RunQueued, Granting, Control).                                          *)
(***************************************************************************)
EXTENDS CcspSem, TLAPS

(* Bit 0 of bptr, a holder, or one scheduler in sem_dequeue: never two. *)
Token ==
  /\ \A s \in Scheds : HasToken(s) => low = 0 /\ Holders = {}
  /\ \A s, t \in Scheds : HasToken(s) /\ HasToken(t) => s = t
  /\ low = 1 => Holders = {}
  /\ \A p, r \in Holders : p = r

(* What fptr, bptr and the links say, once written, agrees with queue. *)
Chain ==
  /\ \A i, j \in 1..Len(queue) : queue[i] = queue[j] => i = j
  /\ queue = << >> => bptr = NotProcess
  /\ queue # << >> => bptr = queue[Len(queue)]
  /\ fptr # NotProcess => queue # << >> /\ fptr = queue[1]
  /\ \A i \in 1..Len(queue) :
       link[queue[i]] # NotProcess => i < Len(queue) /\ link[queue[i]] = queue[i + 1]

(* A scheduler between the swap of sem_claim and its store: the word it is *)
(* going to write is still empty, and only it is going to write it.        *)
PendingAt(s, i) ==
  /\ me[s] = queue[i]
  /\ i = 1 => val[s] = NotProcess /\ fptr = NotProcess
  /\ i > 1 => val[s] = queue[i - 1] /\ link[queue[i - 1]] = NotProcess

Pending ==
  /\ \A s \in Scheds :
       pc[s] = "claim_link" => \E i \in 1..Len(queue) : PendingAt(s, i)
  /\ \A s, t \in Scheds :
       pc[s] = "claim_link" /\ pc[t] = "claim_link" /\ me[s] = me[t] => s = t

(* The local variables of sem_dequeue. *)
Dequeuing ==
  \A s \in Scheds :
    /\ pc[s] \in {"deq_bptr", "deq_clear", "deq_link", "deq_advance"} =>
         front[s] # NotProcess /\ front[s] = fptr
    /\ pc[s] \in {"deq_link", "deq_advance"} => Len(queue) > 1
    /\ pc[s] = "deq_advance" => next[s] # NotProcess /\ next[s] = link[front[s]]
    /\ pc[s] \in {"deq_cas", "deq_restore"} =>
         /\ queue # << >> /\ front[s] = queue[1] /\ fptr = NotProcess
         /\ \A t \in Scheds : pc[t] = "claim_link" => me[t] # queue[1]

(* A process is run by one scheduler, or on one run queue, or waiting, or  *)
(* about to be put on a run queue by one scheduler.                        *)
Running ==
  /\ \A s, t \in Scheds : cur[s] = cur[t] /\ cur[s] # NotProcess => s = t
  /\ \A s \in Scheds : cur[s] # NotProcess => queued[cur[s]] = 0 /\ cur[s] \notin Waiting

RunQueued == \A p \in Procs : queued[p] <= 1 /\ (queued[p] = 1 => p \notin Waiting)

Granting ==
  \A s \in Scheds : pc[s] = "grant" =>
    /\ front[s] \in Holders /\ queued[front[s]] = 0
    /\ \A t \in Scheds : cur[t] # front[s] /\ (pc[t] = "grant" => t = s)

(* Where a scheduler is in the kernel and what its process is doing. *)
Control ==
  /\ \A p \in Waiting : iptr[p] = "held"
  /\ \A s \in Scheds :
       /\ pc[s] \in {"sched", "claim_link", "claim_tclr"} => cur[s] = NotProcess
       /\ pc[s] \in {"user", "claim_cas", "claim_push", "release_cas"} => cur[s] # NotProcess
       /\ pc[s] = "claim_push" => link[cur[s]] = NotProcess
       /\ pc[s] = "release_cas" => iptr[cur[s]] = "held"
       /\ cur[s] # NotProcess /\ pc[s] \notin {"user", "release_cas"} => iptr[cur[s]] = "main"

IInv == /\ TypeOK /\ Token /\ Chain /\ Pending /\ Dequeuing
        /\ Running /\ RunQueued /\ Granting /\ Control /\ NeverLost

(* Every position of the queue holds a waiting process. *)
LEMMA WaitingTypes ==
  ASSUME TypeOK
  PROVE  /\ Waiting \subseteq Procs
         /\ \A i \in 1..Len(queue) : queue[i] \in Waiting /\ queue[i] \in Procs
BY DEF TypeOK, Waiting

(* Enqueuing keeps every position and adds a last one. *)
LEMMA QueueAppend ==
  ASSUME TypeOK, NEW p \in Procs, queue' = Append(queue, p)
  PROVE  /\ queue' \in Seq(Procs) /\ Len(queue') = Len(queue) + 1
         /\ \A i \in 1..Len(queue) : queue'[i] = queue[i]
         /\ queue'[Len(queue')] = p
BY DEF TypeOK

(* A queue that is not empty has a first and a last position. *)
LEMMA QueueNonempty ==
  ASSUME TypeOK, queue # << >>
  PROVE  Len(queue) \in Nat /\ 1 \in 1..Len(queue) /\ Len(queue) \in 1..Len(queue)
BY DEF TypeOK

(* Dequeuing shifts every position by one. *)
LEMMA QueueTail ==
  ASSUME TypeOK, queue # << >>, queue' = Tail(queue)
  PROVE  /\ queue' \in Seq(Procs) /\ Len(queue') = Len(queue) - 1
         /\ \A i \in 1..Len(queue') : queue'[i] = queue[i + 1]
BY DEF TypeOK

(* Enqueuing adds one waiting process. *)
LEMMA WaitingAppend ==
  ASSUME TypeOK, NEW p \in Procs, queue' = Append(queue, p)
  PROVE  Waiting' = Waiting \cup {p}
<1>1. \A i \in 1..Len(queue) : i \in 1..Len(queue') /\ queue'[i] = queue[i]
  BY QueueAppend DEF TypeOK
<1>2. Len(queue') \in 1..Len(queue') /\ queue'[Len(queue')] = p
  BY QueueAppend DEF TypeOK
<1>3. \A i \in 1..Len(queue') : i \in 1..Len(queue) \/ i = Len(queue')
  BY QueueAppend DEF TypeOK
<1> QED BY <1>1, <1>2, <1>3 DEF Waiting

(* Dequeuing removes the first waiting process, and only it. *)
LEMMA WaitingTail ==
  ASSUME TypeOK, Chain, queue # << >>, queue' = Tail(queue)
  PROVE  Waiting' = Waiting \ {queue[1]}
<1>1. \A i \in 1..Len(queue') :
        i + 1 \in 1..Len(queue) /\ queue'[i] = queue[i + 1] /\ queue[i + 1] # queue[1]
  BY QueueTail DEF TypeOK, Chain
<1>2. \A i \in 1..Len(queue) : i = 1 \/ (i - 1 \in 1..Len(queue') /\ queue'[i - 1] = queue[i])
  BY QueueTail DEF TypeOK
<1> QED BY <1>1, <1>2 DEF Waiting

(* Pending survives a step that only empties words and ends no enqueue. *)
LEMMA PendingKept ==
  ASSUME TypeOK, Pending, UNCHANGED <<queue, me, val>>,
         fptr = NotProcess => fptr' = NotProcess,
         \A i \in 1..Len(queue) : link[queue[i]] = NotProcess => link'[queue[i]] = NotProcess,
         \A t \in Scheds : pc'[t] = "claim_link" => pc[t] = "claim_link"
  PROVE  Pending'
<1>1. ASSUME NEW t \in Scheds, pc'[t] = "claim_link"
      PROVE  \E i \in 1..Len(queue') : PendingAt(t, i)'
  <2>1. PICK i \in 1..Len(queue) : PendingAt(t, i)
    BY <1>1 DEF Pending
  <2>2. i > 1 => i - 1 \in 1..Len(queue)
    BY DEF TypeOK
  <2>3. PendingAt(t, i)'
    BY <2>1, <2>2 DEF PendingAt
  <2> QED BY <2>3
<1> QED BY <1>1 DEF Pending

(* The first read of sem_claim decides between fast and slow path only.     *)
LEMMA ClaimStep ==
  ASSUME IInv, NEW s \in Scheds, NEW p \in Procs, Claim(s, p)
  PROVE  IInv' /\ [Abs!Next]_(Abs!vars)
<1> USE NotProcessAssumption DEF Claim, Goto, InKernel, semVars, localVars, word, At, SetLink
<1>w. Waiting' = Waiting
  BY DEF Waiting
<1>h. Holders' = Holders
  BY <1>w DEF Holders
<1>t. \A t \in Scheds : HasToken(t)' => HasToken(t)
  BY DEF IInv, TypeOK, HasToken
<1>1. TypeOK'
  BY DEF IInv, TypeOK, Dequeuing, Labels
<1>2. Token'
  BY <1>h, <1>t DEF IInv, Token
<1>3. Chain'
  BY WaitingTypes DEF IInv, TypeOK, Chain, Dequeuing, Control, Running, Granting
<1>4. Pending'
  BY PendingKept, WaitingTypes DEF IInv, TypeOK, Running, Granting, Control
<1>5. Dequeuing'
  BY WaitingTypes DEF IInv, TypeOK, Dequeuing, Chain, Pending, PendingAt, Token, HasToken, Control, Running, Granting
<1>6. Running'
  BY <1>w DEF IInv, TypeOK, Running, RunQueued, Granting, Control
<1>7. RunQueued'
  BY <1>w DEF IInv, TypeOK, Running, RunQueued, Granting, Control
<1>8. Granting'
  BY <1>w, <1>h DEF IInv, TypeOK, Running, RunQueued, Granting, Token, HasToken, Control, Dequeuing
<1>9. Control'
  BY <1>w, WaitingTypes DEF IInv, TypeOK, Running, RunQueued, Granting, Control
<1>10. NeverLost'
  BY <1>h DEF IInv, TypeOK, NeverLost, HasToken
<1>11. [Abs!Next]_(Abs!vars)
  BY <1>h DEF Abs!vars
<1> QED BY <1>1, <1>2, <1>3, <1>4, <1>5, <1>6, <1>7, <1>8, <1>9, <1>10, <1>11 DEF IInv

(* The fast path acquires a semaphore that nobody holds or waits for.       *)
LEMMA ClaimCasStep ==
  ASSUME IInv, NEW s \in Scheds, NEW p \in Procs, ClaimCas(s, p)
  PROVE  IInv' /\ [Abs!Next]_(Abs!vars)
<1> USE NotProcessAssumption DEF ClaimCas, Goto, InKernel, semVars, localVars, word, SetLink, SetWord, SetIptr, IsFree
<1>w. Waiting' = Waiting
  BY DEF Waiting
<1>h. IF IsFree THEN Holders' = {p} ELSE Holders' = Holders
  <2>1. CASE IsFree
    <3>1. Holders = {} /\ p \notin Waiting
      BY <2>1 DEF IInv, Token, Running
    <3> QED BY <2>1, <3>1, <1>w DEF Holders, IInv, TypeOK
  <2>2. CASE ~IsFree
    BY <2>2, <1>w DEF Holders
  <2> QED BY <2>1, <2>2
<1>t. \A t \in Scheds : HasToken(t)' => HasToken(t)
  BY DEF IInv, TypeOK, HasToken
<1>e. IsFree => queue = << >>
  BY QueueNonempty, WaitingTypes DEF IInv, Chain
<1>1. TypeOK'
  <2>1. pc[s] \in Labels /\ pc' \in [Scheds -> Labels]
    BY DEF IInv, TypeOK, Labels
  <2> QED BY <2>1 DEF IInv, TypeOK, Dequeuing
<1>2. Token'
  <2>1. CASE IsFree
    BY <2>1, <1>h, <1>t DEF IInv, Token
  <2>2. CASE ~IsFree
    BY <2>2, <1>h, <1>t DEF IInv, Token
  <2> QED BY <2>1, <2>2
<1>3. Chain'
  BY WaitingTypes DEF IInv, TypeOK, Chain, Dequeuing, Control, Running, Granting
<1>4. Pending'
  BY PendingKept, WaitingTypes DEF IInv, TypeOK, Running, Granting, Control
<1>5. Dequeuing'
  BY WaitingTypes DEF IInv, TypeOK, Dequeuing, Chain, Pending, PendingAt, Token, HasToken, Control, Running, Granting
<1>6. Running'
  BY <1>w DEF IInv, TypeOK, Running, RunQueued, Granting, Control
<1>7. RunQueued'
  BY <1>w DEF IInv, TypeOK, Running, RunQueued, Granting, Control
<1>8. Granting'
  BY <1>w, <1>h DEF IInv, TypeOK, Running, RunQueued, Granting, Token, HasToken, Control, Dequeuing
<1>9. Control'
  <2>1. \A t \in Scheds : t # s => cur[t] # p
    BY DEF IInv, Running
  <2>2. p \notin Waiting
    BY DEF IInv, Running
  <2>3. CASE IsFree
    BY <2>1, <2>3, <1>w, WaitingTypes DEF IInv, TypeOK, Control
  <2>4. CASE ~IsFree
    BY <2>1, <2>4, <1>w DEF IInv, TypeOK, Control
  <2> QED BY <2>3, <2>4
<1>10. NeverLost'
  BY <1>h DEF IInv, TypeOK, NeverLost, HasToken
<1>11. [Abs!Next]_(Abs!vars)
  <2>1. CASE IsFree
    BY <2>1, <1>h, <1>e DEF IInv, Token, Abs!Next, Abs!Acquire
  <2>2. CASE ~IsFree
    BY <2>2, <1>h DEF Abs!vars
  <2> QED BY <2>1, <2>2
<1> QED BY <1>1, <1>2, <1>3, <1>4, <1>5, <1>6, <1>7, <1>8, <1>9, <1>10, <1>11 DEF IInv

(* The swap into bptr appends the process to the queue, its store pending.  *)
LEMMA ClaimPushStep ==
  ASSUME IInv, NEW s \in Scheds, NEW p \in Procs, ClaimPush(s, p)
  PROVE  IInv' /\ [Abs!Next]_(Abs!vars)
<1> USE NotProcessAssumption DEF ClaimPush, Goto, InKernel, semVars, localVars, word, SetWord, SetIptr
<1>w. p \notin Waiting /\ Waiting' = Waiting \cup {p}
  BY WaitingAppend DEF IInv, Running
<1>h. Holders' = Holders
  BY <1>w DEF Holders, IInv, Control, TypeOK
<1>t. \A t \in Scheds : HasToken(t)' => HasToken(t) \/ (t = s /\ low = 1)
  BY DEF IInv, TypeOK, HasToken
<1>1. TypeOK'
  BY QueueAppend DEF IInv, TypeOK, Labels
<1>2. Token'
  BY <1>h, <1>t DEF IInv, Token, HasToken, TypeOK
<1>3. Chain'
  <2>1. /\ Len(queue') = Len(queue) + 1 /\ queue'[Len(queue')] = p
        /\ \A i \in 1..Len(queue) : queue'[i] = queue[i] /\ queue[i] # p
    BY <1>w, QueueAppend, WaitingTypes DEF IInv
  <2>2. \A i \in 1..Len(queue') : i \in 1..Len(queue) \/ (i = Len(queue') /\ queue'[i] = p)
    BY <2>1 DEF IInv, TypeOK
  <2>3. \A i, j \in 1..Len(queue') : queue'[i] = queue'[j] => i = j
    BY <2>1, <2>2 DEF IInv, Chain
  <2>4. link[p] = NotProcess
    BY DEF IInv, Control
  <2>5. \A i \in 1..Len(queue') : link'[queue'[i]] # NotProcess =>
          i < Len(queue') /\ link'[queue'[i]] = queue'[i + 1]
    <3> SUFFICES ASSUME NEW i \in 1..Len(queue), link[queue[i]] # NotProcess
                 PROVE  i < Len(queue') /\ link[queue[i]] = queue'[i + 1]
      BY SMTT(30), <2>1, <2>2, <2>4
    <3>1. i < Len(queue) /\ link[queue[i]] = queue[i + 1]
      BY DEF IInv, Chain
    <3>2. i + 1 \in 1..Len(queue)
      BY <3>1 DEF IInv, TypeOK
    <3> QED BY <2>1, <3>1, <3>2 DEF IInv, TypeOK
  <2>6. fptr' # NotProcess => queue' # << >> /\ fptr' = queue'[1]
    <3>1. queue # << >> => 1 \in 1..Len(queue)
      BY DEF IInv, TypeOK
    <3> QED BY <2>1, <3>1 DEF IInv, Chain, TypeOK
  <2> QED BY SMTT(30), <2>1, <2>3, <2>5, <2>6 DEF Chain, IInv, TypeOK
<1>4. Pending'
  <2>1. /\ Len(queue') = Len(queue) + 1 /\ queue'[Len(queue')] = p
        /\ Len(queue') \in Nat /\ Len(queue') \in 1..Len(queue')
        /\ \A i \in 1..Len(queue) : i \in 1..Len(queue') /\ queue'[i] = queue[i] /\ queue[i] # p
    BY <1>w, QueueAppend, WaitingTypes DEF IInv, TypeOK
  <2>2. ASSUME NEW k \in Nat, k = Len(queue')
        PROVE  PendingAt(s, k)'
    <3>a. me'[s] = p /\ val'[s] = bptr
      BY DEF IInv, TypeOK
    <3>1. CASE queue = << >>
      <4>1. Len(queue') = 1 /\ bptr = NotProcess /\ fptr = NotProcess
        BY <2>1, <3>1 DEF IInv, Chain
      <4> QED BY <2>1, <2>2, <3>a, <4>1 DEF PendingAt
    <3>2. CASE queue # << >>
      <4>1. /\ Len(queue) \in 1..Len(queue) /\ bptr = queue[Len(queue)]
            /\ link[queue[Len(queue)]] = NotProcess
        BY <3>2, QueueNonempty DEF IInv, Chain
      <4>2. Len(queue') - 1 = Len(queue) /\ Len(queue') > 1
        BY <2>1, <4>1 DEF IInv, TypeOK
      <4> QED BY <2>1, <2>2, <3>a, <4>1, <4>2 DEF PendingAt
    <3> QED BY <3>1, <3>2
  <2>3. ASSUME NEW t \in Scheds, t # s, pc[t] = "claim_link"
        PROVE  \E i \in 1..Len(queue) : PendingAt(t, i)' /\ me[t] = queue[i]
    <3>1. me'[t] = me[t] /\ val'[t] = val[t]
      BY <2>3 DEF IInv, TypeOK
    <3>2. PICK i \in 1..Len(queue) : PendingAt(t, i)
      BY <2>3 DEF IInv, Pending
    <3>3. i > 1 => i - 1 \in 1..Len(queue)
      BY DEF IInv, TypeOK
    <3>4. PendingAt(t, i)'
      BY <2>1, <3>1, <3>2, <3>3 DEF PendingAt
    <3> QED BY <3>2, <3>4 DEF PendingAt
  <2>4. me'[s] = p /\ \A t \in Scheds : t # s => me'[t] = me[t] /\ pc'[t] = pc[t]
    BY DEF IInv, TypeOK
  <2>5. \A t \in Scheds : t # s /\ pc[t] = "claim_link" => me[t] # p
    BY <2>1, <2>3
  <2>6. \A t \in Scheds : pc'[t] = "claim_link" => \E i \in 1..Len(queue') : PendingAt(t, i)'
    <3> TAKE t \in Scheds
    <3> HAVE pc'[t] = "claim_link"
    <3>1. CASE t = s
      BY <2>1, <2>2, <3>1
    <3>2. CASE t # s
      <4>1. PICK i \in 1..Len(queue) : PendingAt(t, i)'
        BY <2>3, <2>4, <3>2
      <4> QED BY <2>1, <4>1
    <3> QED BY <3>1, <3>2
  <2> QED BY <2>4, <2>5, <2>6 DEF IInv, Pending
<1>5. Dequeuing'
  <2>1. Len(queue') = Len(queue) + 1 /\ (queue # << >> => queue'[1] = queue[1] /\ queue[1] # p /\ queue' # << >>)
    BY <1>w, QueueAppend, WaitingTypes DEF IInv, TypeOK
  <2> QED BY <2>1 DEF IInv, TypeOK, Dequeuing
<1>6. Running'
  BY <1>w DEF IInv, TypeOK, Running
<1>7. RunQueued'
  <2>1. queued[p] = 0 /\ UNCHANGED queued
    BY DEF IInv, Running
  <2> QED BY <2>1, <1>w DEF IInv, RunQueued
<1>8. Granting'
  <2>1. \A t \in Scheds : pc'[t] = "grant" => pc[t] = "grant"
    BY DEF IInv, TypeOK
  <2>2. \A t \in Scheds : cur'[t] = cur[t] \/ cur'[t] = NotProcess
    BY DEF IInv, TypeOK
  <2>3. NotProcess \notin Holders
    BY DEF Holders
  <2> QED BY <2>1, <2>2, <2>3, <1>h DEF IInv, Granting
<1>9. Control'
  BY <1>w, WaitingTypes DEF IInv, TypeOK, Running, RunQueued, Granting, Control
<1>10. NeverLost'
  BY <1>h DEF IInv, TypeOK, NeverLost, HasToken
<1>11. [Abs!Next]_(Abs!vars)
  <2>1. p \notin Holders /\ \A i \in 1..Len(queue) : queue[i] # p
    BY <1>w, WaitingTypes DEF IInv, Control, Holders
  <2> QED BY <2>1, <1>h DEF Abs!Next, Abs!Wait
<1> QED BY <1>1, <1>2, <1>3, <1>4, <1>5, <1>6, <1>7, <1>8, <1>9, <1>10, <1>11 DEF IInv

(* The store after the swap completes the chain where it was broken.        *)
LEMMA ClaimLinkStep ==
  ASSUME IInv, NEW s \in Scheds, ClaimLink(s)
  PROVE  IInv' /\ [Abs!Next]_(Abs!vars)
<1> USE NotProcessAssumption DEF ClaimLink, Goto, InKernel, semVars, localVars, word, SetLink
<1>w. Waiting' = Waiting
  BY DEF Waiting
<1>h. Holders' = Holders
  BY <1>w DEF Holders
<1>t. \A t \in Scheds : HasToken(t)' => HasToken(t)
  BY DEF IInv, TypeOK, HasToken
<1>1. TypeOK'
  BY DEF IInv, TypeOK, Labels
<1>2. Token'
  BY <1>h, <1>t DEF IInv, Token
<1>3. Chain'
  <2>1. PICK i \in 1..Len(queue) : PendingAt(s, i)
    BY DEF IInv, Pending
  <2>2. CASE i = 1
    BY <2>1, <2>2 DEF IInv, TypeOK, Chain, PendingAt
  <2>3. CASE i > 1
    <3>1. link' = [link EXCEPT ![queue[i - 1]] = queue[i]] /\ UNCHANGED fptr
      BY <2>1, <2>3, WaitingTypes DEF IInv, TypeOK, PendingAt
    <3>2. ASSUME NEW j \in 1..Len(queue), link'[queue[j]] # NotProcess
          PROVE  j < Len(queue) /\ link'[queue[j]] = queue[j + 1]
      <4>1. CASE j = i - 1
        BY <2>3, <3>1, <3>2, <4>1, WaitingTypes DEF IInv, TypeOK
      <4>2. CASE j # i - 1
        <5>1. queue[j] # queue[i - 1]
          BY <2>3, <4>2 DEF IInv, TypeOK, Chain
        <5>2. link'[queue[j]] = link[queue[j]]
          BY <3>1, <5>1, WaitingTypes DEF IInv, TypeOK
        <5> QED BY <3>2, <5>2 DEF IInv, Chain
      <4> QED BY <4>1, <4>2
    <3> QED BY <3>1, <3>2 DEF IInv, Chain
  <2> QED BY <2>2, <2>3
<1>4. Pending'
  <2>1. PICK i \in 1..Len(queue) : PendingAt(s, i)
    BY DEF IInv, Pending
  <2>2. ASSUME NEW t \in Scheds, pc'[t] = "claim_link"
        PROVE  \E j \in 1..Len(queue') : PendingAt(t, j)'
    <3>1. t # s /\ pc[t] = "claim_link" /\ me'[t] = me[t] /\ val'[t] = val[t]
      BY <2>2 DEF IInv, TypeOK
    <3>2. PICK j \in 1..Len(queue) : PendingAt(t, j)
      BY <3>1 DEF IInv, Pending
    <3>3. i # j
      BY <2>1, <3>1, <3>2 DEF IInv, Pending, PendingAt
    <3>4. j = 1 => fptr' = fptr
      BY <2>1, <3>3, WaitingTypes DEF IInv, TypeOK, PendingAt
    <3>5. j > 1 => link'[queue[j - 1]] = link[queue[j - 1]]
      <4> SUFFICES ASSUME j > 1, val[s] # NotProcess
                   PROVE  queue[j - 1] # val[s]
        BY WaitingTypes DEF IInv, TypeOK
      <4>1. i > 1 /\ val[s] = queue[i - 1]
        BY <2>1 DEF PendingAt
      <4>2. i - 1 \in 1..Len(queue) /\ j - 1 \in 1..Len(queue) /\ i - 1 # j - 1
        BY <3>3, <4>1 DEF IInv, TypeOK
      <4> QED BY <4>1, <4>2 DEF IInv, Chain
    <3>6. PendingAt(t, j)'
      BY <3>1, <3>2, <3>4, <3>5 DEF PendingAt
    <3> QED BY <3>6
  <2>3. \A t \in Scheds : pc'[t] = "claim_link" => t # s /\ pc[t] = "claim_link" /\ me'[t] = me[t]
    BY DEF IInv, TypeOK
  <2> QED BY <2>2, <2>3 DEF IInv, Pending
<1>5. Dequeuing'
  BY SMTT(30), WaitingTypes DEF IInv, TypeOK, Dequeuing, Chain, Pending, PendingAt, Token, HasToken, Control, Running, Granting
<1>6. Running'
  BY <1>w DEF IInv, TypeOK, Running, RunQueued, Granting, Control
<1>7. RunQueued'
  BY <1>w DEF IInv, TypeOK, Running, RunQueued, Granting, Control
<1>8. Granting'
  BY <1>w, <1>h DEF IInv, TypeOK, Running, RunQueued, Granting, Token, HasToken, Control, Dequeuing
<1>9. Control'
  <2>1. PICK i \in 1..Len(queue) : PendingAt(s, i)
    BY DEF IInv, Pending
  <2>2. \A t \in Scheds : cur[t] # NotProcess => cur[t] # val[s]
    BY <2>1, WaitingTypes DEF IInv, TypeOK, Running, PendingAt
  <2> QED BY <1>w, <2>2 DEF IInv, TypeOK, Control
<1>10. NeverLost'
  BY <1>h DEF IInv, TypeOK, NeverLost, HasToken
<1>11. [Abs!Next]_(Abs!vars)
  BY <1>h DEF Abs!vars
<1> QED BY <1>1, <1>2, <1>3, <1>4, <1>5, <1>6, <1>7, <1>8, <1>9, <1>10, <1>11 DEF IInv

(* An enqueuer that finds bit 0 set takes over the right to dequeue.        *)
LEMMA ClaimTestClearStep ==
  ASSUME IInv, NEW s \in Scheds, ClaimTestClear(s)
  PROVE  IInv' /\ [Abs!Next]_(Abs!vars)
<1> USE NotProcessAssumption DEF ClaimTestClear, Goto, InKernel, Leave, Forget, localVars, semVars, word, SetWord
<1>w. Waiting' = Waiting
  BY DEF Waiting
<1>h. Holders' = Holders
  BY <1>w DEF Holders
<1>t. \A t \in Scheds : HasToken(t)' => HasToken(t) \/ (t = s /\ low = 1)
  BY DEF IInv, TypeOK, HasToken
<1>1. TypeOK'
  <2>1. pc[s] \in Labels /\ pc' \in [Scheds -> Labels]
    BY DEF IInv, TypeOK, Labels
  <2> QED BY <2>1 DEF IInv, TypeOK, Dequeuing
<1>2. Token'
  <2>1. CASE low = 1
    BY <2>1, <1>h, <1>t DEF IInv, Token
  <2>2. CASE low # 1
    BY <2>2, <1>h, <1>t DEF IInv, Token
  <2> QED BY <2>1, <2>2
<1>3. Chain'
  BY WaitingTypes DEF IInv, TypeOK, Chain, Dequeuing, Control, Running, Granting
<1>4. Pending'
  BY PendingKept, WaitingTypes DEF IInv, TypeOK, Running, Granting, Control
<1>5. Dequeuing'
  BY WaitingTypes DEF IInv, TypeOK, Dequeuing, Chain, Pending, PendingAt, Token, HasToken, Control, Running, Granting
<1>6. Running'
  BY <1>w DEF IInv, TypeOK, Running, RunQueued, Granting, Control
<1>7. RunQueued'
  BY <1>w DEF IInv, TypeOK, Running, RunQueued, Granting, Control
<1>8. Granting'
  BY SMTT(30), <1>w, <1>h DEF IInv, TypeOK, Running, RunQueued, Granting, Token, HasToken, Control, Dequeuing
<1>9. Control'
  BY <1>w, WaitingTypes DEF IInv, TypeOK, Running, RunQueued, Granting, Control
<1>10. NeverLost'
  BY <1>h DEF IInv, TypeOK, NeverLost, HasToken
<1>11. [Abs!Next]_(Abs!vars)
  BY <1>h DEF Abs!vars
<1> QED BY <1>1, <1>2, <1>3, <1>4, <1>5, <1>6, <1>7, <1>8, <1>9, <1>10, <1>11 DEF IInv

(* sem_release gives up the semaphore when it finds processes waiting.      *)
LEMMA ReleaseStep ==
  ASSUME IInv, NEW s \in Scheds, NEW p \in Procs, Release(s, p)
  PROVE  IInv' /\ [Abs!Next]_(Abs!vars)
<1> USE NotProcessAssumption DEF Release, Goto, InKernel, semVars, localVars, word, At, SetIptr, IsHeld
<1>w. Waiting' = Waiting
  BY DEF Waiting
<1>h. /\ Holders = {p}
     /\ IF IsHeld THEN Holders' = Holders ELSE Holders' = {}
  <2>1. Holders = {p}
    BY DEF IInv, Token, Running, Holders
  <2>2. CASE IsHeld
    BY <2>1, <2>2, <1>w DEF Holders
  <2>3. CASE ~IsHeld
    BY <2>1, <2>3, <1>w DEF Holders, IInv, TypeOK
  <2> QED BY <2>1, <2>2, <2>3
<1>t. \A t \in Scheds : HasToken(t)' => HasToken(t) \/ (t = s /\ ~IsHeld)
  BY DEF IInv, TypeOK, HasToken
<1>1. TypeOK'
  BY DEF IInv, TypeOK, Dequeuing, Labels
<1>2. Token'
  <2>1. CASE IsHeld
    BY <2>1, <1>h, <1>t DEF IInv, Token
  <2>2. CASE ~IsHeld
    BY <2>2, <1>h, <1>t DEF IInv, Token, TypeOK
  <2> QED BY <2>1, <2>2
<1>3. Chain'
  BY WaitingTypes DEF IInv, TypeOK, Chain, Dequeuing, Control, Running, Granting
<1>4. Pending'
  BY PendingKept, WaitingTypes DEF IInv, TypeOK, Running, Granting, Control
<1>5. Dequeuing'
  BY WaitingTypes DEF IInv, TypeOK, Dequeuing, Chain, Pending, PendingAt, Token, HasToken, Control, Running, Granting
<1>6. Running'
  BY <1>w DEF IInv, TypeOK, Running, RunQueued, Granting, Control
<1>7. RunQueued'
  BY <1>w DEF IInv, TypeOK, Running, RunQueued, Granting, Control
<1>8. Granting'
  BY <1>w, <1>h DEF IInv, TypeOK, Running, RunQueued, Granting, Token, HasToken, Control, Dequeuing
<1>9. Control'
  BY <1>w, WaitingTypes DEF IInv, TypeOK, Running, RunQueued, Granting, Control
<1>10. NeverLost'
  BY <1>h DEF IInv, TypeOK, NeverLost, HasToken
<1>11. [Abs!Next]_(Abs!vars)
  <2>1. CASE IsHeld
    BY <2>1, <1>h DEF Abs!vars
  <2>2. CASE ~IsHeld
    BY <2>2, <1>h DEF Abs!Next, Abs!Release
  <2> QED BY <2>1, <2>2
<1> QED BY <1>1, <1>2, <1>3, <1>4, <1>5, <1>6, <1>7, <1>8, <1>9, <1>10, <1>11 DEF IInv

(* sem_release frees the semaphore, or keeps the right to dequeue.          *)
LEMMA ReleaseCasStep ==
  ASSUME IInv, NEW s \in Scheds, NEW p \in Procs, ReleaseCas(s, p)
  PROVE  IInv' /\ [Abs!Next]_(Abs!vars)
<1> USE NotProcessAssumption DEF ReleaseCas, Goto, InKernel, semVars, localVars, word, SetIptr, SetWord, IsHeld
<1>w. Waiting' = Waiting
  BY DEF Waiting
<1>h. Holders = {p} /\ Holders' = {}
  <2>1. Holders = {p}
    BY DEF IInv, Token, Running, Holders, Control
  <2> QED BY <2>1, <1>w DEF Holders, IInv, TypeOK
<1>t. \A t \in Scheds : HasToken(t)' => HasToken(t) \/ (t = s /\ ~IsHeld)
  BY DEF IInv, TypeOK, HasToken
<1>1. TypeOK'
  BY DEF IInv, TypeOK, Dequeuing, Labels
<1>2. Token'
  <2>1. CASE IsHeld
    BY <2>1, <1>h, <1>t DEF IInv, Token
  <2>2. CASE ~IsHeld
    BY <2>2, <1>h, <1>t DEF IInv, Token, TypeOK
  <2> QED BY <2>1, <2>2
<1>3. Chain'
  BY WaitingTypes DEF IInv, TypeOK, Chain, Dequeuing, Control, Running, Granting
<1>4. Pending'
  BY PendingKept, WaitingTypes DEF IInv, TypeOK, Running, Granting, Control
<1>5. Dequeuing'
  BY WaitingTypes DEF IInv, TypeOK, Dequeuing, Chain, Pending, PendingAt, Token, HasToken, Control, Running, Granting
<1>6. Running'
  BY <1>w DEF IInv, TypeOK, Running, RunQueued, Granting, Control
<1>7. RunQueued'
  BY <1>w DEF IInv, TypeOK, Running, RunQueued, Granting, Control
<1>8. Granting'
  BY <1>w, <1>h DEF IInv, TypeOK, Running, RunQueued, Granting, Token, HasToken, Control, Dequeuing
<1>9. Control'
  BY <1>w, WaitingTypes DEF IInv, TypeOK, Running, RunQueued, Granting, Control
<1>10. NeverLost'
  BY <1>h DEF IInv, TypeOK, NeverLost, HasToken
<1>11. [Abs!Next]_(Abs!vars)
  BY <1>h DEF Abs!Next, Abs!Release
<1> QED BY <1>1, <1>2, <1>3, <1>4, <1>5, <1>6, <1>7, <1>8, <1>9, <1>10, <1>11 DEF IInv

(* sem_dequeue loads the front of the queue.                                *)
LEMMA DeqStep ==
  ASSUME IInv, NEW s \in Scheds, Deq(s)
  PROVE  IInv' /\ [Abs!Next]_(Abs!vars)
<1> USE NotProcessAssumption DEF Deq, Goto, InKernel, semVars, localVars, word, SetFront
<1>w. Waiting' = Waiting
  BY DEF Waiting
<1>h. Holders' = Holders
  BY <1>w DEF Holders
<1>t. \A t \in Scheds : HasToken(t)' => HasToken(t)
  BY DEF IInv, TypeOK, HasToken
<1>1. TypeOK'
  BY DEF IInv, TypeOK, Dequeuing, Labels
<1>2. Token'
  BY <1>h, <1>t DEF IInv, Token
<1>3. Chain'
  BY WaitingTypes DEF IInv, TypeOK, Chain, Dequeuing, Control, Running, Granting
<1>4. Pending'
  BY PendingKept, WaitingTypes DEF IInv, TypeOK, Running, Granting, Control
<1>5. Dequeuing'
  BY WaitingTypes DEF IInv, TypeOK, Dequeuing, Chain, Pending, PendingAt, Token, HasToken, Control, Running, Granting
<1>6. Running'
  BY <1>w DEF IInv, TypeOK, Running, RunQueued, Granting, Control
<1>7. RunQueued'
  BY <1>w DEF IInv, TypeOK, Running, RunQueued, Granting, Control
<1>8. Granting'
  BY <1>w, <1>h DEF IInv, TypeOK, Running, RunQueued, Granting, Token, HasToken, Control, Dequeuing
<1>9. Control'
  BY <1>w, WaitingTypes DEF IInv, TypeOK, Running, RunQueued, Granting, Control
<1>10. NeverLost'
  BY <1>h DEF IInv, TypeOK, NeverLost, HasToken
<1>11. [Abs!Next]_(Abs!vars)
  BY <1>h DEF Abs!vars
<1> QED BY <1>1, <1>2, <1>3, <1>4, <1>5, <1>6, <1>7, <1>8, <1>9, <1>10, <1>11 DEF IInv

(* If bptr is not the front, a second process waits from now on.            *)
LEMMA DeqBptrStep ==
  ASSUME IInv, NEW s \in Scheds, DeqBptr(s)
  PROVE  IInv' /\ [Abs!Next]_(Abs!vars)
<1> USE NotProcessAssumption DEF DeqBptr, Goto, InKernel, semVars, localVars, word
<1>w. Waiting' = Waiting
  BY DEF Waiting
<1>h. Holders' = Holders
  BY <1>w DEF Holders
<1>t. \A t \in Scheds : HasToken(t)' => HasToken(t)
  BY DEF IInv, TypeOK, HasToken
<1>1. TypeOK'
  BY DEF IInv, TypeOK, Dequeuing, Labels
<1>2. Token'
  BY <1>h, <1>t DEF IInv, Token
<1>3. Chain'
  BY WaitingTypes DEF IInv, TypeOK, Chain, Dequeuing, Control, Running, Granting
<1>4. Pending'
  BY PendingKept, WaitingTypes DEF IInv, TypeOK, Running, Granting, Control
<1>5. Dequeuing'
  BY WaitingTypes DEF IInv, TypeOK, Dequeuing, Chain, Pending, PendingAt, Token, HasToken, Control, Running, Granting
<1>6. Running'
  BY <1>w DEF IInv, TypeOK, Running, RunQueued, Granting, Control
<1>7. RunQueued'
  BY <1>w DEF IInv, TypeOK, Running, RunQueued, Granting, Control
<1>8. Granting'
  BY <1>w, <1>h DEF IInv, TypeOK, Running, RunQueued, Granting, Token, HasToken, Control, Dequeuing
<1>9. Control'
  BY <1>w, WaitingTypes DEF IInv, TypeOK, Running, RunQueued, Granting, Control
<1>10. NeverLost'
  BY <1>h DEF IInv, TypeOK, NeverLost, HasToken
<1>11. [Abs!Next]_(Abs!vars)
  BY <1>h DEF Abs!vars
<1> QED BY <1>1, <1>2, <1>3, <1>4, <1>5, <1>6, <1>7, <1>8, <1>9, <1>10, <1>11 DEF IInv

(* fptr is emptied while no enqueuer is about to write it.                  *)
LEMMA DeqClearStep ==
  ASSUME IInv, NEW s \in Scheds, DeqClear(s)
  PROVE  IInv' /\ [Abs!Next]_(Abs!vars)
<1> USE NotProcessAssumption DEF DeqClear, Goto, InKernel, semVars, localVars, word
<1>w. Waiting' = Waiting
  BY DEF Waiting
<1>h. Holders' = Holders
  BY <1>w DEF Holders
<1>t. \A t \in Scheds : HasToken(t)' => HasToken(t)
  BY DEF IInv, TypeOK, HasToken
<1>1. TypeOK'
  BY DEF IInv, TypeOK, Dequeuing, Labels
<1>2. Token'
  BY <1>h, <1>t DEF IInv, Token
<1>3. Chain'
  BY WaitingTypes DEF IInv, TypeOK, Chain, Dequeuing, Control, Running, Granting
<1>4. Pending'
  BY PendingKept, WaitingTypes DEF IInv, TypeOK, Running, Granting, Control
<1>5. Dequeuing'
  <2>1. queue # << >> /\ front[s] = queue[1]
    BY DEF IInv, Dequeuing, Chain
  <2>2. \A t \in Scheds : pc[t] = "claim_link" => me[t] # queue[1]
    <3> SUFFICES ASSUME NEW t \in Scheds, pc[t] = "claim_link"
                 PROVE  me[t] # queue[1]
      OBVIOUS
    <3>1. PICK i \in 1..Len(queue) : PendingAt(t, i)
      BY DEF IInv, Pending
    <3>2. i # 1
      BY <3>1 DEF IInv, Dequeuing, PendingAt
    <3> QED BY <2>1, <3>1, <3>2, QueueNonempty DEF IInv, Chain, PendingAt
  <2>3. \A t \in Scheds : t # s => ~HasToken(t) /\ pc'[t] = pc[t]
    BY DEF IInv, Token, HasToken, TypeOK
  <2> QED BY <2>1, <2>2, <2>3 DEF IInv, TypeOK, Dequeuing, HasToken
<1>6. Running'
  BY <1>w DEF IInv, TypeOK, Running, RunQueued, Granting, Control
<1>7. RunQueued'
  BY <1>w DEF IInv, TypeOK, Running, RunQueued, Granting, Control
<1>8. Granting'
  BY <1>w, <1>h DEF IInv, TypeOK, Running, RunQueued, Granting, Token, HasToken, Control, Dequeuing
<1>9. Control'
  BY <1>w, WaitingTypes DEF IInv, TypeOK, Running, RunQueued, Granting, Control
<1>10. NeverLost'
  BY <1>h DEF IInv, TypeOK, NeverLost, HasToken
<1>11. [Abs!Next]_(Abs!vars)
  BY <1>h DEF Abs!vars
<1> QED BY <1>1, <1>2, <1>3, <1>4, <1>5, <1>6, <1>7, <1>8, <1>9, <1>10, <1>11 DEF IInv

(* The compare-and-swap dequeues the only process, or nothing.              *)
LEMMA DeqCasStep ==
  ASSUME IInv, NEW s \in Scheds, DeqCas(s)
  PROVE  IInv' /\ [Abs!Next]_(Abs!vars)
<1> USE NotProcessAssumption DEF DeqCas, Goto, InKernel, semVars, localVars, word, SetWord
<1>w. IF bptr = front[s] /\ low = 0 THEN Waiting' = Waiting \ {queue[1]} ELSE Waiting' = Waiting
  <2>1. CASE bptr = front[s] /\ low = 0
    BY <2>1, WaitingTail DEF IInv, Dequeuing
  <2>2. CASE ~(bptr = front[s] /\ low = 0)
    BY <2>2 DEF Waiting
  <2> QED BY <2>1, <2>2
<1>h. /\ Holders = {} /\ front[s] \in Procs
     /\ IF bptr = front[s] /\ low = 0 THEN Holders' = {front[s]} ELSE Holders' = Holders
  <2>1. Holders = {} /\ front[s] = queue[1] /\ front[s] \in Waiting
    BY WaitingTypes DEF IInv, Token, HasToken, Dequeuing, TypeOK
  <2>2. CASE bptr = front[s] /\ low = 0
    BY <2>1, <2>2, <1>w, WaitingTypes DEF Holders, IInv, TypeOK, Control
  <2>3. CASE ~(bptr = front[s] /\ low = 0)
    BY <2>1, <2>3, <1>w, WaitingTypes DEF Holders, IInv
  <2> QED BY <2>1, <2>2, <2>3
<1>t. \A t \in Scheds : HasToken(t)' => t = s /\ ~(bptr = front[s] /\ low = 0)
  BY DEF IInv, Token, TypeOK, HasToken
<1>1. TypeOK'
  <2>1. CASE bptr = front[s] /\ low = 0
    BY <2>1, QueueTail DEF IInv, TypeOK, Labels, Dequeuing
  <2>2. CASE ~(bptr = front[s] /\ low = 0)
    BY <2>2 DEF IInv, TypeOK, Labels
  <2> QED BY <2>1, <2>2
<1>2. Token'
  <2>1. CASE bptr = front[s] /\ low = 0
    BY <2>1, <1>h, <1>t DEF IInv, Token
  <2>2. CASE ~(bptr = front[s] /\ low = 0)
    BY <2>2, <1>h, <1>t DEF IInv, Token, HasToken
  <2> QED BY <2>1, <2>2
<1>3. Chain'
  <2>1. CASE bptr = front[s] /\ low = 0
    <3>1. Len(queue) = 1
      <4>1. queue # << >> /\ queue[1] = queue[Len(queue)]
        BY <2>1 DEF IInv, Chain, Dequeuing
      <4> QED BY <4>1, QueueNonempty DEF IInv, Chain
    <3>2. queue' = << >>
      BY <2>1, <3>1, QueueTail DEF IInv, Dequeuing, TypeOK
    <3> QED BY <2>1, <3>2 DEF IInv, Chain, Dequeuing
  <2>2. CASE ~(bptr = front[s] /\ low = 0)
    BY <2>2 DEF IInv, Chain
  <2> QED BY <2>1, <2>2
<1>4. Pending'
  <2>1. CASE bptr = front[s] /\ low = 0
    <3>1. Len(queue) = 1
      <4>1. queue # << >> /\ queue[1] = queue[Len(queue)]
        BY <2>1 DEF IInv, Chain, Dequeuing
      <4> QED BY <4>1, QueueNonempty DEF IInv, Chain
    <3>2. \A t \in Scheds : pc[t] # "claim_link"
      BY <3>1 DEF IInv, Pending, PendingAt, Dequeuing
    <3> QED BY <3>2 DEF IInv, Pending, TypeOK
  <2>2. CASE ~(bptr = front[s] /\ low = 0)
    BY <2>2, PendingKept DEF IInv, TypeOK
  <2> QED BY <2>1, <2>2
<1>5. Dequeuing'
  <2>1. CASE bptr = front[s] /\ low = 0
    BY SMTT(30), <2>1 DEF IInv, Dequeuing, Token, HasToken, TypeOK
  <2>2. CASE ~(bptr = front[s] /\ low = 0)
    BY <2>2 DEF IInv, Dequeuing, TypeOK
  <2> QED BY <2>1, <2>2
<1>6. Running'
  BY <1>w DEF IInv, TypeOK, Running, RunQueued, Granting, Control
<1>7. RunQueued'
  BY <1>w DEF IInv, TypeOK, Running, RunQueued, Granting, Control
<1>8. Granting'
  <2>1. CASE bptr = front[s] /\ low = 0
    BY <2>1, <1>w, <1>h, WaitingTypes DEF IInv, TypeOK, Running, RunQueued, Granting, Dequeuing
  <2>2. CASE ~(bptr = front[s] /\ low = 0)
    BY <2>2, <1>w, <1>h DEF IInv, TypeOK, Granting
  <2> QED BY <2>1, <2>2
<1>9. Control'
  BY <1>w, WaitingTypes DEF IInv, TypeOK, Running, RunQueued, Granting, Control
<1>10. NeverLost'
  BY <1>h DEF IInv, TypeOK, NeverLost, HasToken
<1>11. [Abs!Next]_(Abs!vars)
  <2>1. CASE bptr = front[s] /\ low = 0
    <3>1. queue # << >> /\ Head(queue) = front[s]
      BY DEF IInv, Dequeuing, TypeOK
    <3> QED BY <2>1, <3>1, <1>h DEF Abs!Next, Abs!Grant
  <2>2. CASE ~(bptr = front[s] /\ low = 0)
    BY <2>2, <1>h DEF Abs!vars
  <2> QED BY <2>1, <2>2
<1> QED BY <1>1, <1>2, <1>3, <1>4, <1>5, <1>6, <1>7, <1>8, <1>9, <1>10, <1>11 DEF IInv

(* The front is put back before anybody could have written fptr.            *)
LEMMA DeqRestoreStep ==
  ASSUME IInv, NEW s \in Scheds, DeqRestore(s)
  PROVE  IInv' /\ [Abs!Next]_(Abs!vars)
<1> USE NotProcessAssumption DEF DeqRestore, Goto, InKernel, semVars, localVars, word
<1>w. Waiting' = Waiting
  BY DEF Waiting
<1>h. Holders' = Holders
  BY <1>w DEF Holders
<1>t. \A t \in Scheds : HasToken(t)' => HasToken(t)
  BY DEF IInv, TypeOK, HasToken
<1>1. TypeOK'
  BY DEF IInv, TypeOK, Dequeuing, Labels
<1>2. Token'
  BY <1>h, <1>t DEF IInv, Token
<1>3. Chain'
  BY WaitingTypes DEF IInv, TypeOK, Chain, Dequeuing, Control, Running, Granting
<1>4. Pending'
  <2>1. ASSUME NEW t \in Scheds, pc'[t] = "claim_link"
        PROVE  \E i \in 1..Len(queue') : PendingAt(t, i)'
    <3>1. pc[t] = "claim_link"
      BY <2>1 DEF IInv, TypeOK
    <3>2. PICK i \in 1..Len(queue) : PendingAt(t, i)
      BY <3>1 DEF IInv, Pending
    <3>3. i # 1
      BY <3>1, <3>2 DEF IInv, Dequeuing, PendingAt
    <3>4. PendingAt(t, i)'
      BY <3>2, <3>3 DEF PendingAt, IInv, TypeOK
    <3> QED BY <3>4
  <2> QED BY <2>1 DEF IInv, Pending, TypeOK
<1>5. Dequeuing'
  BY WaitingTypes DEF IInv, TypeOK, Dequeuing, Chain, Pending, PendingAt, Token, HasToken, Control, Running, Granting
<1>6. Running'
  BY <1>w DEF IInv, TypeOK, Running, RunQueued, Granting, Control
<1>7. RunQueued'
  BY <1>w DEF IInv, TypeOK, Running, RunQueued, Granting, Control
<1>8. Granting'
  BY <1>w, <1>h DEF IInv, TypeOK, Running, RunQueued, Granting, Token, HasToken, Control, Dequeuing
<1>9. Control'
  BY <1>w, WaitingTypes DEF IInv, TypeOK, Running, RunQueued, Granting, Control
<1>10. NeverLost'
  BY <1>h DEF IInv, TypeOK, NeverLost, HasToken
<1>11. [Abs!Next]_(Abs!vars)
  BY <1>h DEF Abs!vars
<1> QED BY <1>1, <1>2, <1>3, <1>4, <1>5, <1>6, <1>7, <1>8, <1>9, <1>10, <1>11 DEF IInv

(* A complete link is the second process of the queue.                      *)
LEMMA DeqLinkStep ==
  ASSUME IInv, NEW s \in Scheds, DeqLink(s)
  PROVE  IInv' /\ [Abs!Next]_(Abs!vars)
<1> USE NotProcessAssumption DEF DeqLink, Goto, InKernel, semVars, localVars, word
<1>w. Waiting' = Waiting
  BY DEF Waiting
<1>h. Holders' = Holders
  BY <1>w DEF Holders
<1>t. \A t \in Scheds : HasToken(t)' => HasToken(t)
  BY DEF IInv, TypeOK, HasToken
<1>1. TypeOK'
  BY DEF IInv, TypeOK, Dequeuing, Labels
<1>2. Token'
  BY <1>h, <1>t DEF IInv, Token
<1>3. Chain'
  BY WaitingTypes DEF IInv, TypeOK, Chain, Dequeuing, Control, Running, Granting
<1>4. Pending'
  BY PendingKept, WaitingTypes DEF IInv, TypeOK, Running, Granting, Control
<1>5. Dequeuing'
  BY WaitingTypes DEF IInv, TypeOK, Dequeuing, Chain, Pending, PendingAt, Token, HasToken, Control, Running, Granting
<1>6. Running'
  BY <1>w DEF IInv, TypeOK, Running, RunQueued, Granting, Control
<1>7. RunQueued'
  BY <1>w DEF IInv, TypeOK, Running, RunQueued, Granting, Control
<1>8. Granting'
  BY <1>w, <1>h DEF IInv, TypeOK, Running, RunQueued, Granting, Token, HasToken, Control, Dequeuing
<1>9. Control'
  BY <1>w, WaitingTypes DEF IInv, TypeOK, Running, RunQueued, Granting, Control
<1>10. NeverLost'
  BY <1>h DEF IInv, TypeOK, NeverLost, HasToken
<1>11. [Abs!Next]_(Abs!vars)
  BY <1>h DEF Abs!vars
<1> QED BY <1>1, <1>2, <1>3, <1>4, <1>5, <1>6, <1>7, <1>8, <1>9, <1>10, <1>11 DEF IInv

(* The second process becomes the front, and the first is dequeued.         *)
LEMMA DeqAdvanceStep ==
  ASSUME IInv, NEW s \in Scheds, DeqAdvance(s)
  PROVE  IInv' /\ [Abs!Next]_(Abs!vars)
<1> USE NotProcessAssumption DEF DeqAdvance, Goto, InKernel, semVars, localVars, word
<1>w. queue # << >> /\ front[s] = queue[1] /\ Waiting' = Waiting \ {queue[1]}
  <2>1. queue # << >> /\ front[s] = queue[1]
    BY DEF IInv, Dequeuing, Chain, TypeOK
  <2> QED BY <2>1, WaitingTail DEF IInv
<1>h. Holders = {} /\ Holders' = {front[s]} /\ front[s] \in Procs
  <2>1. Holders = {} /\ front[s] \in Waiting
    BY <1>w, WaitingTypes DEF IInv, Token, HasToken, TypeOK
  <2> QED BY <2>1, <1>w, WaitingTypes DEF Holders, IInv, TypeOK, Control
<1>t. \A t \in Scheds : ~HasToken(t)'
  BY DEF IInv, Token, TypeOK, HasToken
<1>1. TypeOK'
  BY <1>w, QueueTail DEF IInv, TypeOK, Labels
<1>2. Token'
  BY <1>h, <1>t DEF IInv, Token, HasToken
<1>3. Chain'
  <2>1. /\ Len(queue) > 1 /\ Len(queue') = Len(queue) - 1
        /\ \A i \in 1..Len(queue') : i + 1 \in 1..Len(queue) /\ queue'[i] = queue[i + 1]
    BY <1>w, QueueTail DEF IInv, Dequeuing, TypeOK
  <2>2. fptr' = queue'[1] /\ queue' # << >>
    <3>1. link[queue[1]] # NotProcess /\ fptr' = link[queue[1]]
      BY <1>w DEF IInv, Dequeuing
    <3>2. fptr' = queue[1 + 1]
      BY <3>1, <2>1 DEF IInv, Chain, TypeOK
    <3>3. Len(queue') \in Nat /\ 1 \in 1..Len(queue')
      BY <2>1 DEF IInv, TypeOK
    <3>4. queue'[1] = queue[1 + 1]
      BY <2>1, <3>3
    <3>5. queue' = << >> => Len(queue') = 0
      OBVIOUS
    <3> QED BY <3>2, <3>3, <3>4, <3>5
  <2>3. \A i, j \in 1..Len(queue') : queue'[i] = queue'[j] => i = j
    BY <2>1 DEF IInv, Chain, TypeOK
  <2>4. bptr' = queue'[Len(queue')]
    BY <2>1 DEF IInv, Chain, TypeOK
  <2>5. ASSUME NEW i \in 1..Len(queue'), link'[queue'[i]] # NotProcess
        PROVE  i < Len(queue') /\ link'[queue'[i]] = queue'[i + 1]
    <3>1. i + 1 \in 1..Len(queue) /\ link[queue[i + 1]] # NotProcess
      BY <2>1, <2>5
    <3>2. i + 1 < Len(queue) /\ link[queue[i + 1]] = queue[(i + 1) + 1]
      BY <3>1 DEF IInv, Chain
    <3>3. i < Len(queue') /\ i + 1 \in 1..Len(queue')
      BY <2>1, <3>2 DEF IInv, TypeOK
    <3> QED BY <2>1, <3>2, <3>3
  <2> QED BY <2>2, <2>3, <2>4, <2>5 DEF Chain
<1>4. Pending'
  <2>1. /\ Len(queue') = Len(queue) - 1
        /\ \A i \in 1..Len(queue') : queue'[i] = queue[i + 1]
    BY <1>w, QueueTail DEF IInv
  <2>2. ASSUME NEW t \in Scheds, pc'[t] = "claim_link"
        PROVE  \E i \in 1..Len(queue') : PendingAt(t, i)'
    <3>1. pc[t] = "claim_link" /\ me'[t] = me[t] /\ val'[t] = val[t]
      BY <2>2 DEF IInv, TypeOK
    <3>2. PICK i \in 1..Len(queue) : PendingAt(t, i)
      BY <3>1 DEF IInv, Pending
    <3>3. i # 1 /\ i # 2
      BY <3>2, <1>w DEF IInv, Dequeuing, PendingAt
    <3>4. i - 1 \in 1..Len(queue') /\ i - 2 \in 1..Len(queue')
      BY SMTT(30), <2>1, <3>3 DEF IInv, TypeOK
    <3>5. queue'[i - 1] = queue[i] /\ queue'[i - 2] = queue[i - 1]
      <4>1. (i - 1) + 1 = i /\ (i - 2) + 1 = i - 1
        OBVIOUS
      <4> QED BY <2>1, <3>4, <4>1
    <3>6. PendingAt(t, i - 1)'
      BY <3>1, <3>2, <3>3, <3>5 DEF PendingAt
    <3> QED BY <3>4, <3>6
  <2>3. \A t \in Scheds : pc'[t] = "claim_link" => pc[t] = "claim_link" /\ me'[t] = me[t]
    BY DEF IInv, TypeOK
  <2> QED BY <2>2, <2>3 DEF IInv, Pending
<1>5. Dequeuing'
  BY DEF IInv, Dequeuing, Token, HasToken, TypeOK
<1>6. Running'
  BY <1>w DEF IInv, TypeOK, Running, RunQueued, Granting, Control
<1>7. RunQueued'
  BY <1>w DEF IInv, TypeOK, Running, RunQueued, Granting, Control
<1>8. Granting'
  BY <1>w, <1>h, WaitingTypes DEF IInv, TypeOK, Running, RunQueued, Granting
<1>9. Control'
  BY <1>w, WaitingTypes DEF IInv, TypeOK, Running, RunQueued, Granting, Control
<1>10. NeverLost'
  BY <1>h DEF IInv, TypeOK, NeverLost, HasToken
<1>11. [Abs!Next]_(Abs!vars)
  <2>1. Head(queue) = front[s]
    BY <1>w DEF IInv, TypeOK
  <2> QED BY <2>1, <1>w, <1>h DEF Abs!Next, Abs!Grant
<1> QED BY <1>1, <1>2, <1>3, <1>4, <1>5, <1>6, <1>7, <1>8, <1>9, <1>10, <1>11 DEF IInv

(* The right to dequeue goes back into bit 0.                               *)
LEMMA DeqSetBitStep ==
  ASSUME IInv, NEW s \in Scheds, DeqSetBit(s)
  PROVE  IInv' /\ [Abs!Next]_(Abs!vars)
<1> USE NotProcessAssumption DEF DeqSetBit, Goto, InKernel, semVars, localVars, word, SetWord
<1>w. Waiting' = Waiting
  BY DEF Waiting
<1>h. Holders' = Holders
  BY <1>w DEF Holders
<1>t. \A t \in Scheds : HasToken(t)' => HasToken(t) /\ t # s
  BY DEF IInv, TypeOK, HasToken
<1>1. TypeOK'
  BY DEF IInv, TypeOK, Dequeuing, Labels
<1>2. Token'
  BY <1>h, <1>t DEF IInv, Token, HasToken, TypeOK
<1>3. Chain'
  BY WaitingTypes DEF IInv, TypeOK, Chain, Dequeuing, Control, Running, Granting
<1>4. Pending'
  BY PendingKept, WaitingTypes DEF IInv, TypeOK, Running, Granting, Control
<1>5. Dequeuing'
  BY WaitingTypes DEF IInv, TypeOK, Dequeuing, Chain, Pending, PendingAt, Token, HasToken, Control, Running, Granting
<1>6. Running'
  BY <1>w DEF IInv, TypeOK, Running, RunQueued, Granting, Control
<1>7. RunQueued'
  BY <1>w DEF IInv, TypeOK, Running, RunQueued, Granting, Control
<1>8. Granting'
  BY <1>w, <1>h DEF IInv, TypeOK, Running, RunQueued, Granting, Token, HasToken, Control, Dequeuing
<1>9. Control'
  BY <1>w, WaitingTypes DEF IInv, TypeOK, Running, RunQueued, Granting, Control
<1>10. NeverLost'
  BY <1>h DEF IInv, TypeOK, NeverLost, HasToken
<1>11. [Abs!Next]_(Abs!vars)
  BY <1>h DEF Abs!vars
<1> QED BY <1>1, <1>2, <1>3, <1>4, <1>5, <1>6, <1>7, <1>8, <1>9, <1>10, <1>11 DEF IInv

(* Looking again changes nothing shared.                                    *)
LEMMA DeqRetestStep ==
  ASSUME IInv, NEW s \in Scheds, DeqRetest(s)
  PROVE  IInv' /\ [Abs!Next]_(Abs!vars)
<1> USE NotProcessAssumption DEF DeqRetest, Goto, InKernel, Leave, Forget, localVars, semVars, word
<1>w. Waiting' = Waiting
  BY DEF Waiting
<1>h. Holders' = Holders
  BY <1>w DEF Holders
<1>t. \A t \in Scheds : HasToken(t)' => HasToken(t)
  BY DEF IInv, TypeOK, HasToken
<1>1. TypeOK'
  BY DEF IInv, TypeOK, Dequeuing, Labels
<1>2. Token'
  BY <1>h, <1>t DEF IInv, Token
<1>3. Chain'
  BY WaitingTypes DEF IInv, TypeOK, Chain, Dequeuing, Control, Running, Granting
<1>4. Pending'
  BY PendingKept, WaitingTypes DEF IInv, TypeOK, Running, Granting, Control
<1>5. Dequeuing'
  BY WaitingTypes DEF IInv, TypeOK, Dequeuing, Chain, Pending, PendingAt, Token, HasToken, Control, Running, Granting
<1>6. Running'
  BY <1>w DEF IInv, TypeOK, Running, RunQueued, Granting, Control
<1>7. RunQueued'
  BY <1>w DEF IInv, TypeOK, Running, RunQueued, Granting, Control
<1>8. Granting'
  <2>1. \A t \in Scheds : pc'[t] = "grant" => pc[t] = "grant" /\ front'[t] = front[t]
    BY DEF IInv, TypeOK
  <2> QED BY <2>1, <1>h DEF IInv, Granting
<1>9. Control'
  BY SMTT(30), <1>w, WaitingTypes DEF IInv, TypeOK, Running, RunQueued, Granting, Control
<1>10. NeverLost'
  BY <1>h DEF IInv, TypeOK, NeverLost, HasToken
<1>11. [Abs!Next]_(Abs!vars)
  BY <1>h DEF Abs!vars
<1> QED BY <1>1, <1>2, <1>3, <1>4, <1>5, <1>6, <1>7, <1>8, <1>9, <1>10, <1>11 DEF IInv

(* A dequeuer that finds bit 0 set takes the right to dequeue back.         *)
LEMMA DeqTestClearStep ==
  ASSUME IInv, NEW s \in Scheds, DeqTestClear(s)
  PROVE  IInv' /\ [Abs!Next]_(Abs!vars)
<1> USE NotProcessAssumption DEF DeqTestClear, Goto, InKernel, Leave, Forget, localVars, semVars, word, SetWord
<1>w. Waiting' = Waiting
  BY DEF Waiting
<1>h. Holders' = Holders
  BY <1>w DEF Holders
<1>t. \A t \in Scheds : HasToken(t)' => HasToken(t) \/ (t = s /\ low = 1)
  BY DEF IInv, TypeOK, HasToken
<1>1. TypeOK'
  <2>1. pc[s] \in Labels /\ pc' \in [Scheds -> Labels]
    BY DEF IInv, TypeOK, Labels
  <2> QED BY <2>1 DEF IInv, TypeOK, Dequeuing
<1>2. Token'
  <2>1. CASE low = 1
    BY <2>1, <1>h, <1>t DEF IInv, Token
  <2>2. CASE low # 1
    BY <2>2, <1>h, <1>t DEF IInv, Token
  <2> QED BY <2>1, <2>2
<1>3. Chain'
  BY WaitingTypes DEF IInv, TypeOK, Chain, Dequeuing, Control, Running, Granting
<1>4. Pending'
  BY PendingKept, WaitingTypes DEF IInv, TypeOK, Running, Granting, Control
<1>5. Dequeuing'
  BY WaitingTypes DEF IInv, TypeOK, Dequeuing, Chain, Pending, PendingAt, Token, HasToken, Control, Running, Granting
<1>6. Running'
  BY <1>w DEF IInv, TypeOK, Running, RunQueued, Granting, Control
<1>7. RunQueued'
  BY <1>w DEF IInv, TypeOK, Running, RunQueued, Granting, Control
<1>8. Granting'
  BY <1>w, <1>h DEF IInv, TypeOK, Running, RunQueued, Granting, Token, HasToken, Control, Dequeuing
<1>9. Control'
  <2>1. CASE low = 1
    BY SMTT(30), <2>1, <1>w DEF IInv, TypeOK, Running, Control
  <2>2. CASE low # 1
    <3>1. \A t \in Scheds : t # s => pc'[t] = pc[t]
      BY <2>2 DEF IInv, TypeOK
    <3>2. IF cur[s] = NotProcess THEN pc'[s] = "sched" ELSE pc'[s] = "user"
      BY <2>2 DEF IInv, TypeOK
    <3> QED BY <2>2, <3>1, <3>2, <1>w DEF IInv, Control
  <2> QED BY <2>1, <2>2
<1>10. NeverLost'
  BY <1>h DEF IInv, TypeOK, NeverLost, HasToken
<1>11. [Abs!Next]_(Abs!vars)
  BY <1>h DEF Abs!vars
<1> QED BY <1>1, <1>2, <1>3, <1>4, <1>5, <1>6, <1>7, <1>8, <1>9, <1>10, <1>11 DEF IInv

(* enqueue_process schedules the dequeued process, which was nowhere else.  *)
LEMMA GrantStep ==
  ASSUME IInv, NEW s \in Scheds, Grant(s)
  PROVE  IInv' /\ [Abs!Next]_(Abs!vars)
<1> USE NotProcessAssumption DEF Grant, Goto, InKernel, Leave, Forget, localVars, semVars, word, SetLink, EnqueueProcess
<1>w. Waiting' = Waiting
  BY DEF Waiting
<1>h. Holders' = Holders
  BY <1>w DEF Holders
<1>t. \A t \in Scheds : HasToken(t)' => HasToken(t)
  BY DEF IInv, TypeOK, HasToken
<1>1. TypeOK'
  BY DEF IInv, TypeOK, Labels, Granting, Holders
<1>2. Token'
  BY <1>h, <1>t DEF IInv, Token
<1>3. Chain'
  BY WaitingTypes DEF IInv, TypeOK, Chain, Dequeuing, Control, Running, Granting
<1>4. Pending'
  BY PendingKept, WaitingTypes DEF IInv, TypeOK, Running, Granting, Control
<1>5. Dequeuing'
  BY WaitingTypes DEF IInv, TypeOK, Dequeuing, Chain, Pending, PendingAt, Token, HasToken, Control, Running, Granting
<1>6. Running'
  BY <1>w DEF IInv, TypeOK, Running, Granting, Holders
<1>7. RunQueued'
  BY <1>w DEF IInv, TypeOK, RunQueued, Granting, Holders
<1>8. Granting'
  BY <1>w, <1>h DEF IInv, TypeOK, Running, Granting, Holders
<1>9. Control'
  BY <1>w, WaitingTypes DEF IInv, TypeOK, Running, RunQueued, Granting, Control
<1>10. NeverLost'
  BY <1>h DEF IInv, TypeOK, NeverLost, HasToken
<1>11. [Abs!Next]_(Abs!vars)
  BY <1>h DEF Abs!vars
<1> QED BY <1>1, <1>2, <1>3, <1>4, <1>5, <1>6, <1>7, <1>8, <1>9, <1>10, <1>11 DEF IInv

(* Y_pause moves a process from its scheduler to a run queue.               *)
LEMMA PauseStep ==
  ASSUME IInv, NEW s \in Scheds, NEW p \in Procs, Pause(s, p)
  PROVE  IInv' /\ [Abs!Next]_(Abs!vars)
<1> USE NotProcessAssumption DEF Pause, Goto, InKernel, semVars, localVars, word, EnqueueProcess, KernelScheduler
<1>w. Waiting' = Waiting
  BY DEF Waiting
<1>h. Holders' = Holders
  BY <1>w DEF Holders
<1>t. \A t \in Scheds : HasToken(t)' => HasToken(t)
  BY DEF IInv, TypeOK, HasToken
<1>1. TypeOK'
  BY DEF IInv, TypeOK, Dequeuing, Labels
<1>2. Token'
  BY <1>h, <1>t DEF IInv, Token
<1>3. Chain'
  BY WaitingTypes DEF IInv, TypeOK, Chain, Dequeuing, Control, Running, Granting
<1>4. Pending'
  BY PendingKept, WaitingTypes DEF IInv, TypeOK, Running, Granting, Control
<1>5. Dequeuing'
  BY WaitingTypes DEF IInv, TypeOK, Dequeuing, Chain, Pending, PendingAt, Token, HasToken, Control, Running, Granting
<1>6. Running'
  BY <1>w DEF IInv, TypeOK, Running, RunQueued, Granting, Control
<1>7. RunQueued'
  BY <1>w DEF IInv, TypeOK, Running, RunQueued, Granting, Control
<1>8. Granting'
  <2>1. \A t \in Scheds : pc'[t] = "grant" => pc[t] = "grant"
    BY DEF IInv, TypeOK
  <2>2. \A t \in Scheds : pc[t] = "grant" => front[t] # p /\ front[t] \in Procs
    BY DEF IInv, Granting, Holders
  <2>3. \A t \in Scheds : cur'[t] = cur[t] \/ cur'[t] = NotProcess
    BY DEF IInv, TypeOK
  <2> QED BY <2>1, <2>2, <2>3, <1>h DEF IInv, Granting, TypeOK
<1>9. Control'
  BY <1>w, WaitingTypes DEF IInv, TypeOK, Running, RunQueued, Granting, Control
<1>10. NeverLost'
  BY <1>h DEF IInv, TypeOK, NeverLost, HasToken
<1>11. [Abs!Next]_(Abs!vars)
  BY <1>h DEF Abs!vars
<1> QED BY <1>1, <1>2, <1>3, <1>4, <1>5, <1>6, <1>7, <1>8, <1>9, <1>10, <1>11 DEF IInv

(* kernel_scheduler moves a process from a run queue to a scheduler.        *)
LEMMA ResumeStep ==
  ASSUME IInv, NEW s \in Scheds, NEW p \in Procs, Resume(s, p)
  PROVE  IInv' /\ [Abs!Next]_(Abs!vars)
<1> USE NotProcessAssumption DEF Resume, Goto, InKernel, semVars, localVars, word, Dispatch
<1>w. Waiting' = Waiting
  BY DEF Waiting
<1>h. Holders' = Holders
  BY <1>w DEF Holders
<1>t. \A t \in Scheds : HasToken(t)' => HasToken(t)
  BY DEF IInv, TypeOK, HasToken
<1>1. TypeOK'
  BY DEF IInv, TypeOK, Dequeuing, Labels
<1>2. Token'
  BY <1>h, <1>t DEF IInv, Token
<1>3. Chain'
  BY WaitingTypes DEF IInv, TypeOK, Chain, Dequeuing, Control, Running, Granting
<1>4. Pending'
  BY PendingKept, WaitingTypes DEF IInv, TypeOK, Running, Granting, Control
<1>5. Dequeuing'
  BY WaitingTypes DEF IInv, TypeOK, Dequeuing, Chain, Pending, PendingAt, Token, HasToken, Control, Running, Granting
<1>6. Running'
  BY <1>w DEF IInv, TypeOK, Running, RunQueued, Granting, Control
<1>7. RunQueued'
  BY <1>w DEF IInv, TypeOK, Running, RunQueued, Granting, Control
<1>8. Granting'
  BY <1>w, <1>h DEF IInv, TypeOK, Running, RunQueued, Granting, Token, HasToken, Control, Dequeuing
<1>9. Control'
  BY <1>w, WaitingTypes DEF IInv, TypeOK, Running, RunQueued, Granting, Control
<1>10. NeverLost'
  BY <1>h DEF IInv, TypeOK, NeverLost, HasToken
<1>11. [Abs!Next]_(Abs!vars)
  BY <1>h DEF Abs!vars
<1> QED BY <1>1, <1>2, <1>3, <1>4, <1>5, <1>6, <1>7, <1>8, <1>9, <1>10, <1>11 DEF IInv

-----------------------------------------------------------------------------
(* sem_init, with every process on a run queue, satisfies the invariant. *)
LEMMA InitIInv == Init => IInv
BY NotProcessAssumption DEF Init, SchedInit, IInv, TypeOK, Labels, Token, HasToken,
   Holders, Waiting, Chain, Pending, Dequeuing, Running, RunQueued, Granting, Control, NeverLost

(* A step of the kernel preserves the invariant and is a step of Semaphore. *)
LEMMA NextStep ==
  ASSUME IInv, [Next]_vars
  PROVE  IInv' /\ [Abs!Next]_(Abs!vars)
<1>1. CASE UNCHANGED vars
  <2>1. UNCHANGED <<Waiting, Holders>>
    BY <1>1 DEF vars, schedVars, semVars, word, localVars, Waiting, Holders
  <2>2. IInv'
    BY <1>1, <2>1 DEF vars, schedVars, semVars, word, localVars, IInv, TypeOK, Token, HasToken,
       Chain, Pending, PendingAt, Dequeuing, Running, RunQueued, Granting, Control, NeverLost
  <2> QED BY <1>1, <2>1, <2>2 DEF vars, Abs!vars
<1>2. ASSUME NEW s \in Scheds, Call(s)
      PROVE  IInv' /\ [Abs!Next]_(Abs!vars)
  <2>1. CASE \E p \in Procs : \/ Claim(s, p) \/ ClaimCas(s, p) \/ ClaimPush(s, p)
                              \/ Release(s, p) \/ ReleaseCas(s, p)
    BY <2>1, ClaimStep, ClaimCasStep, ClaimPushStep, ReleaseStep, ReleaseCasStep
  <2>2. CASE ClaimLink(s) \/ ClaimTestClear(s) \/ Grant(s)
    BY <2>2, ClaimLinkStep, ClaimTestClearStep, GrantStep
  <2>3. CASE \/ Deq(s) \/ DeqBptr(s) \/ DeqClear(s) \/ DeqCas(s) \/ DeqRestore(s)
             \/ DeqLink(s) \/ DeqAdvance(s)
             \/ DeqSetBit(s) \/ DeqRetest(s) \/ DeqTestClear(s)
    BY <2>3, DeqStep, DeqBptrStep, DeqClearStep, DeqCasStep, DeqRestoreStep, DeqLinkStep,
       DeqAdvanceStep, DeqSetBitStep, DeqRetestStep, DeqTestClearStep
  <2> QED BY <1>2, <2>1, <2>2, <2>3 DEF Call
<1>3. ASSUME NEW s \in Scheds, NEW p \in Procs, Pause(s, p) \/ Resume(s, p)
      PROVE  IInv' /\ [Abs!Next]_(Abs!vars)
  BY <1>3, PauseStep, ResumeStep
<1> QED BY <1>1, <1>2, <1>3 DEF Next

(* The inductive invariant holds in every state of the semaphore. *)
THEOREM Invariance == Spec => []IInv
<1>1. Init => IInv
  BY InitIInv
<1>2. IInv /\ [Next]_vars => IInv'
  BY NextStep
<1> QED BY <1>1, <1>2, PTL DEF Spec

(* Type correctness. *)
THEOREM TypeCorrect == Spec => []TypeOK
<1>1. IInv => TypeOK
  BY DEF IInv
<1> QED BY <1>1, Invariance, PTL

(* sem_claim and sem_release exclude: on any number of schedulers, never   *)
(* do two of them run processes that are between a claim and its release.  *)
THEOREM Exclusion == Spec => []MutualExclusion
<1>1. IInv => MutualExclusion
  <2> SUFFICES ASSUME IInv, NEW s \in Scheds, NEW t \in Scheds,
                      InCriticalSection(s), InCriticalSection(t)
               PROVE  s = t
    BY DEF MutualExclusion
  <2>1. cur[s] \in Holders /\ cur[t] \in Holders
    BY DEF IInv, TypeOK, Running, InCriticalSection, Holders
  <2> QED BY <2>1 DEF IInv, Token, Running, InCriticalSection
<1> QED BY <1>1, Invariance, PTL

(* sem_dequeue hands out every process once: no process is run by two      *)
(* schedulers, or run while it is on a run queue, or on run queues twice.  *)
THEOREM NoDoubleScheduling == Spec => []ScheduledOnce
<1>1. IInv => ScheduledOnce
  BY DEF IInv, ScheduledOnce, Running, RunQueued
<1> QED BY <1>1, Invariance, PTL

(* The right to the semaphore is never lost, however enqueues that are     *)
(* only half done and the letting go in sem_dequeue interleave.            *)
THEOREM TokenKept == Spec => []NeverLost
<1>1. IInv => NeverLost
  BY DEF IInv
<1> QED BY <1>1, Invariance, PTL

(* The lock-free semaphore implements the FIFO lock. *)
THEOREM Refinement == Spec => ImplementsSemaphore
<1>1. Init => Abs!Init
  BY DEF Init, Abs!Init, Holders
<1>2. IInv /\ [Next]_vars => [Abs!Next]_(Abs!vars)
  BY NextStep
<1> QED BY <1>1, <1>2, Invariance, PTL DEF Spec, ImplementsSemaphore, Abs!Spec
=============================================================================
