------------------------------- MODULE CcspSem -------------------------------
(***************************************************************************)
(* The CCSP semaphore: sem_claim, sem_release and sem_dequeue, run by      *)
(* several schedulers at once on one semaphore.                            *)
(*                                                                         *)
(* The word bptr is NotProcess|1 when the semaphore is free, NotProcess    *)
(* when it is held and nobody waits, the workspace of the last waiting     *)
(* process when it is held, and that workspace|1 when a dequeuer met an    *)
(* enqueue that was not complete and let go of the semaphore.  fptr is the *)
(* first waiting process and the link words chain the others, both written *)
(* only after bptr.                                                        *)
(*                                                                         *)
(* One action is one atomic access to a shared word (bptr, fptr, a link, a *)
(* run queue).  The loop of compare-and-swaps of sem_claim is one action.  *)
(***************************************************************************)
EXTENDS CcspSched, Sequences

VARIABLES fptr,    \* sem->fptr
          bptr,    \* sem->bptr without bit 0
          low,     \* bit 0 of sem->bptr, written together with it
          link,    \* link[p]: the word at Wptr[-2]
          iptr,    \* iptr[p]: "main", or "held" from where p resumes with it
          me,      \* me[s]: Wptr in the sem_claim s executes
          val,     \* val[s]: what bptr held before s enqueued me[s],
          bit,     \* bit[s]: and its bit 0
          front,   \* front[s]: the local fptr of sem_dequeue
          next,    \* next[s]: the local link of sem_dequeue
          queue    \* history: waiting processes in the order of their enqueues

word == <<bptr, low>>
semVars == <<fptr, word, link>>
localVars == <<me, val, bit, front, next>>
vars == <<schedVars, semVars, iptr, localVars, queue>>

(* The whole word, read and written. *)
IsFree == bptr = NotProcess /\ low = 1
IsHeld == bptr = NotProcess /\ low = 0
SetWord(w, b) == bptr' = w /\ low' = b

(* sem_init: free, and nobody waits. *)
Init ==
  /\ SchedInit
  /\ fptr = NotProcess
  /\ bptr = NotProcess /\ low = 1
  /\ link = [p \in Procs |-> NotProcess]
  /\ iptr = [p \in Procs |-> "main"]
  /\ me = [s \in Scheds |-> NotProcess]
  /\ val = [s \in Scheds |-> NotProcess]
  /\ bit = [s \in Scheds |-> 0]
  /\ front = [s \in Scheds |-> NotProcess]
  /\ next = [s \in Scheds |-> NotProcess]
  /\ queue = << >>

At(s, p, at) == pc[s] = "user" /\ cur[s] = p /\ iptr[p] = at
InKernel(s, p, label) == pc[s] = label /\ cur[s] = p

SetIptr(p, at) == iptr' = [iptr EXCEPT ![p] = at]
SetLink(p, w) == link' = [link EXCEPT ![p] = w]
SetFront(s, w) == front' = [front EXCEPT ![s] = w]

Waiting == {queue[i] : i \in 1..Len(queue)}

(***************************************************************************)
(* sem_claim.  The fast path takes a free semaphore by compare-and-swap.   *)
(***************************************************************************)
Claim(s, p) ==
  /\ At(s, p, "main")
  /\ IF IsFree
       THEN Goto(s, "claim_cas") /\ UNCHANGED link
       ELSE Goto(s, "claim_push") /\ SetLink(p, NotProcess)
  /\ UNCHANGED <<queued, fptr, word, iptr, localVars, queue>>

ClaimCas(s, p) ==
  /\ InKernel(s, p, "claim_cas")
  /\ IF IsFree
       THEN SetWord(NotProcess, 0) /\ SetIptr(p, "held") /\ Goto(s, "user") /\ UNCHANGED link
       ELSE Goto(s, "claim_push") /\ SetLink(p, NotProcess) /\ UNCHANGED <<word, iptr>>
  /\ UNCHANGED <<queued, fptr, localVars, queue>>

(***************************************************************************)
(* The slow path swaps the process into bptr, which also clears bit 0.     *)
(* From here on another scheduler may grant it the semaphore and run it,   *)
(* so the rest of the call only knows it as me[s].                         *)
(***************************************************************************)
ClaimPush(s, p) ==
  /\ InKernel(s, p, "claim_push")
  /\ val' = [val EXCEPT ![s] = bptr]
  /\ bit' = [bit EXCEPT ![s] = low]
  /\ SetWord(p, 0)
  /\ me' = [me EXCEPT ![s] = p]
  /\ SetIptr(p, "held")
  /\ queue' = Append(queue, p)
  /\ pc' = [pc EXCEPT ![s] = "claim_link"]
  /\ cur' = [cur EXCEPT ![s] = NotProcess]
  /\ UNCHANGED <<queued, fptr, link, front, next>>

(* The enqueue is completed in fptr or in the link of the process before. *)
ClaimLink(s) ==
  /\ pc[s] = "claim_link"
  /\ IF val[s] = NotProcess
       THEN fptr' = me[s] /\ UNCHANGED link
       ELSE SetLink(val[s], me[s]) /\ UNCHANGED fptr
  /\ Goto(s, IF bit[s] = 1 THEN "deq" ELSE "claim_tclr")
  /\ me' = [me EXCEPT ![s] = NotProcess]
  /\ val' = [val EXCEPT ![s] = NotProcess]
  /\ bit' = [bit EXCEPT ![s] = 0]
  /\ UNCHANGED <<queued, word, iptr, front, next, queue>>

(* kernel_scheduler, or the return of sem_release to its caller. *)
Forget(s) ==
  /\ UNCHANGED <<me, val, bit>>
  /\ front' = [front EXCEPT ![s] = NotProcess]
  /\ next' = [next EXCEPT ![s] = NotProcess]

Leave(s) ==
  /\ Goto(s, IF cur[s] = NotProcess THEN "sched" ELSE "user")
  /\ Forget(s)

(* Mutant: the enqueuer does not look whether the semaphore was let go. *)
ClaimNoTest(s) ==
  /\ pc[s] = "claim_tclr"
  /\ Leave(s)
  /\ UNCHANGED <<queued, semVars, iptr, queue>>

(* Mutant: it goes on to sem_dequeue whatever the bit was. *)
ClaimClearBit(s) ==
  /\ pc[s] = "claim_tclr"
  /\ SetWord(bptr, 0) /\ Goto(s, "deq")
  /\ UNCHANGED <<queued, fptr, link, iptr, localVars, queue>>

(* atw_test_clear_bit: the semaphore may have been let go meanwhile. *)
ClaimTestClear(s) ==
  /\ pc[s] = "claim_tclr"
  /\ IF low = 1
       THEN SetWord(bptr, 0) /\ Goto(s, "deq") /\ UNCHANGED localVars
       ELSE Leave(s) /\ UNCHANGED word
  /\ UNCHANGED <<queued, fptr, link, iptr, queue>>

(***************************************************************************)
(* sem_release: free the semaphore if nobody waits, else pass it on.       *)
(***************************************************************************)
Release(s, p) ==
  /\ At(s, p, "held")
  /\ IF IsHeld
       THEN Goto(s, "release_cas") /\ UNCHANGED iptr
       ELSE Goto(s, "deq") /\ SetIptr(p, "main")
  /\ UNCHANGED <<queued, semVars, localVars, queue>>

ReleaseCas(s, p) ==
  /\ InKernel(s, p, "release_cas")
  /\ SetIptr(p, "main")
  /\ IF IsHeld
       THEN SetWord(NotProcess, 1) /\ Goto(s, "user")
       ELSE Goto(s, "deq") /\ UNCHANGED word
  /\ UNCHANGED <<queued, fptr, link, localVars, queue>>

(***************************************************************************)
(* sem_dequeue: (re)load fptr, then see whether it is the only process.    *)
(***************************************************************************)
Deq(s) ==
  /\ pc[s] = "deq"
  /\ SetFront(s, fptr)
  /\ Goto(s, IF fptr = NotProcess THEN "deq_set" ELSE "deq_bptr")
  /\ UNCHANGED <<queued, semVars, iptr, me, val, bit, next, queue>>

DeqBptr(s) ==
  /\ pc[s] = "deq_bptr"
  /\ Goto(s, IF bptr = front[s] /\ low = 0 THEN "deq_clear" ELSE "deq_link")
  /\ UNCHANGED <<queued, semVars, iptr, localVars, queue>>

(* The only one: empty the queue, fptr first. *)
DeqClear(s) ==
  /\ pc[s] = "deq_clear"
  /\ fptr' = NotProcess
  /\ Goto(s, "deq_cas")
  /\ UNCHANGED <<queued, word, link, iptr, localVars, queue>>

DeqCas(s) ==
  /\ pc[s] = "deq_cas"
  /\ IF bptr = front[s] /\ low = 0
       THEN SetWord(NotProcess, 0) /\ queue' = Tail(queue) /\ Goto(s, "grant")
       ELSE Goto(s, "deq_restore") /\ UNCHANGED <<word, queue>>
  /\ UNCHANGED <<queued, fptr, link, iptr, localVars>>

DeqRestore(s) ==
  /\ pc[s] = "deq_restore"
  /\ fptr' = front[s]
  /\ Goto(s, "deq_bptr")
  /\ UNCHANGED <<queued, word, link, iptr, localVars, queue>>

(* Not the only one: its link, once complete, is the new front. *)
DeqLink(s) ==
  /\ pc[s] = "deq_link"
  /\ next' = [next EXCEPT ![s] = link[front[s]]]
  /\ Goto(s, IF link[front[s]] = NotProcess THEN "deq_set" ELSE "deq_advance")
  /\ UNCHANGED <<queued, semVars, iptr, me, val, bit, front, queue>>

DeqAdvance(s) ==
  /\ pc[s] = "deq_advance"
  /\ fptr' = next[s]
  /\ queue' = Tail(queue)
  /\ Goto(s, "grant")
  /\ UNCHANGED <<queued, word, link, iptr, localVars>>

(***************************************************************************)
(* The enqueue of the next process is not complete: let go of the          *)
(* semaphore, look again, and try to get it back if it is complete now.    *)
(* If front[s] has left the queue its link word belongs to a run queue and *)
(* may hold anything.                                                      *)
(***************************************************************************)
(* Mutant: sem_dequeue gives up without letting go. *)
DeqNoSetBit(s) ==
  /\ pc[s] = "deq_set"
  /\ Goto(s, "deq_retest")
  /\ UNCHANGED <<queued, semVars, iptr, localVars, queue>>

DeqSetBit(s) ==
  /\ pc[s] = "deq_set"
  /\ SetWord(bptr, 1)
  /\ Goto(s, "deq_retest")
  /\ UNCHANGED <<queued, fptr, link, iptr, localVars, queue>>

Complete(s) == IF front[s] = NotProcess THEN fptr # NotProcess
                                        ELSE link[front[s]] # NotProcess
LinkReused(s) == front[s] # NotProcess /\ front[s] \notin Waiting

DeqRetest(s) ==
  /\ pc[s] = "deq_retest"
  /\ \/ /\ Complete(s) \/ LinkReused(s)
        /\ Goto(s, "deq_tclr") /\ UNCHANGED localVars
     \/ /\ ~Complete(s) \/ LinkReused(s)
        /\ Leave(s)
  /\ UNCHANGED <<queued, semVars, iptr, queue>>

(* Mutant: the bit is not tested when it is cleared. *)
DeqClearBit(s) ==
  /\ pc[s] = "deq_tclr"
  /\ SetWord(bptr, 0) /\ Goto(s, "deq")
  /\ UNCHANGED <<queued, fptr, link, iptr, localVars, queue>>

DeqTestClear(s) ==
  /\ pc[s] = "deq_tclr"
  /\ IF low = 1
       THEN SetWord(bptr, 0) /\ Goto(s, "deq") /\ UNCHANGED localVars
       ELSE Leave(s) /\ UNCHANGED word
  /\ UNCHANGED <<queued, fptr, link, iptr, queue>>

(* sem_dequeue returned a process, which now holds the semaphore; its link *)
(* word is free for the run queues again.                                  *)
Grant(s) ==
  /\ pc[s] = "grant"
  /\ EnqueueProcess(front[s])
  /\ SetLink(front[s], NotProcess)
  /\ Leave(s)
  /\ UNCHANGED <<fptr, word, iptr, queue>>

(* Y_pause: any process may give way to others, the holder included. *)
Pause(s, p) ==
  /\ pc[s] = "user" /\ cur[s] = p
  /\ EnqueueProcess(p)
  /\ KernelScheduler(s)
  /\ UNCHANGED <<semVars, iptr, localVars, queue>>

Resume(s, p) ==
  /\ Dispatch(s, p)
  /\ UNCHANGED <<semVars, iptr, localVars, queue>>

Call(s) ==
  \/ ClaimLink(s) \/ ClaimTestClear(s)
  \/ Deq(s) \/ DeqBptr(s) \/ DeqClear(s) \/ DeqCas(s) \/ DeqRestore(s)
  \/ DeqLink(s) \/ DeqAdvance(s)
  \/ DeqSetBit(s) \/ DeqRetest(s) \/ DeqTestClear(s) \/ Grant(s)
  \/ \E p \in Procs :
       \/ Claim(s, p) \/ ClaimCas(s, p) \/ ClaimPush(s, p)
       \/ Release(s, p) \/ ReleaseCas(s, p)

Next ==
  \E s \in Scheds :
    Call(s) \/ \E p \in Procs : Pause(s, p) \/ Resume(s, p)

Spec == Init /\ [][Next]_vars

(***************************************************************************)
(* Threads run, processes go on with their claims and releases instead of  *)
(* pausing for ever, and a runnable process is not passed over for ever.   *)
(***************************************************************************)
Fairness ==
  /\ \A s \in Scheds : SF_vars(Call(s))
  /\ \A p \in Procs : SF_vars(\E s \in Scheds : Resume(s, p))

FairSpec == Spec /\ Fairness

-----------------------------------------------------------------------------
Labels == {"sched", "user", "claim_cas", "claim_push", "claim_link", "claim_tclr",
           "release_cas", "deq", "deq_bptr", "deq_clear", "deq_cas", "deq_restore",
           "deq_link", "deq_advance", "deq_set", "deq_retest", "deq_tclr", "grant"}

(* Every variable has its type. *)
TypeOK ==
  /\ pc \in [Scheds -> Labels]
  /\ cur \in [Scheds -> Procs \cup {NotProcess}]
  /\ queued \in [Procs -> Nat]
  /\ fptr \in Procs \cup {NotProcess}
  /\ bptr \in Procs \cup {NotProcess} /\ low \in {0, 1}
  /\ link \in [Procs -> Procs \cup {NotProcess}]
  /\ iptr \in [Procs -> {"main", "held"}]
  /\ me \in [Scheds -> Procs \cup {NotProcess}]
  /\ val \in [Scheds -> Procs \cup {NotProcess}] /\ bit \in [Scheds -> {0, 1}]
  /\ front \in [Scheds -> Procs \cup {NotProcess}]
  /\ next \in [Scheds -> Procs \cup {NotProcess}]
  /\ queue \in Seq(Procs)

(* The process that has the semaphore, running, on a run queue, or about   *)
(* to be put on one by a scheduler that has dequeued it.                   *)
Holders == {p \in Procs : iptr[p] = "held" /\ p \notin Waiting}

(* Mutual exclusion: two schedulers never run processes between a claim    *)
(* and its release at the same time, although claims, releases and the     *)
(* tails of earlier claims interleave (sem_claim, sem_dequeue).            *)
InCriticalSection(s) == pc[s] = "user" /\ cur[s] # NotProcess /\ iptr[cur[s]] = "held"
MutualExclusion ==
  \A s, t \in Scheds : InCriticalSection(s) /\ InCriticalSection(t) => s = t

(* sem_dequeue never returns a process that runs or is on a run queue, and *)
(* no two schedulers dequeue the same process: nothing is scheduled twice. *)
ScheduledOnce ==
  /\ \A s, t \in Scheds : cur[s] = cur[t] /\ cur[s] # NotProcess => s = t
  /\ \A s \in Scheds : cur[s] # NotProcess => queued[cur[s]] = 0
  /\ \A p \in Procs : queued[p] <= 1

(* The semaphore is never lost: it is free, or some process has it, or a   *)
(* scheduler in sem_dequeue has it and is going to pass it on.             *)
HasToken(s) ==
  \/ pc[s] \in {"deq", "deq_bptr", "deq_clear", "deq_cas", "deq_restore",
                "deq_link", "deq_advance", "deq_set"}
  \/ pc[s] = "claim_link" /\ bit[s] = 1
NeverLost == low = 1 \/ Holders # {} \/ \E s \in Scheds : HasToken(s)

(* The semaphore is a FIFO lock: bptr, fptr, the links and the half-done   *)
(* enqueues together behave as one queue of waiting processes.             *)
Abs == INSTANCE Semaphore WITH holders <- Holders, waiting <- queue
ImplementsSemaphore == Abs!Spec

(* Nobody starves: a process that waits for the semaphore runs with it, as *)
(* no enqueue is forgotten when sem_dequeue lets go of the semaphore.      *)
EventuallyGranted ==
  \A p \in Procs : (p \in Waiting) ~> (\E s \in Scheds : At(s, p, "held"))
=============================================================================
