------------------------------ MODULE CcspSched ------------------------------
(***************************************************************************)
(* The part of the CCSP scheduler every kernel call relies on, seen from   *)
(* the kernel call: schedulers (one operating system thread each) run one  *)
(* process at a time, enqueue_process makes a process runnable, and a      *)
(* scheduler that leaves a kernel call through kernel_scheduler later      *)
(* restores the context of some runnable process.                          *)
(*                                                                         *)
(* Batches, run queues, priorities and work stealing decide WHICH runnable *)
(* process a scheduler picks next and are abstracted to "any of them".     *)
(* A process that is enqueued twice really is in two queues, so `queued'   *)
(* counts the queue entries of each process.                               *)
(***************************************************************************)
EXTENDS Integers, FiniteSets

CONSTANTS Scheds,      \* the schedulers: sched_t, one per thread
          Procs,       \* the processes, identified by their workspaces (Wptr)
          NotProcess   \* NotProcess_p, the null process

ASSUME NotProcessAssumption == NotProcess \notin Procs

VARIABLES pc,      \* pc[s]: where scheduler s is in the kernel code
          cur,     \* cur[s]: the process s runs, NotProcess in kernel_scheduler
          queued   \* queued[p]: entries for p in all run queues and batches

schedVars == <<pc, cur, queued>>

SchedInit ==
  /\ pc = [s \in Scheds |-> "sched"]
  /\ cur = [s \in Scheds |-> NotProcess]
  /\ queued = [p \in Procs |-> 1]

(***************************************************************************)
(* enqueue_process: one more queue entry for p.                            *)
(***************************************************************************)
EnqueueProcess(p) == queued' = [queued EXCEPT ![p] = @ + 1]

(***************************************************************************)
(* Control moves inside the kernel call, back to the calling process, or   *)
(* to kernel_scheduler, which forgets the process.                         *)
(***************************************************************************)
Goto(s, label) == pc' = [pc EXCEPT ![s] = label] /\ UNCHANGED cur

KernelScheduler(s) ==
  /\ pc' = [pc EXCEPT ![s] = "sched"]
  /\ cur' = [cur EXCEPT ![s] = NotProcess]

(***************************************************************************)
(* The end of kernel_scheduler: a queue entry is taken and the process is  *)
(* resumed with ccsp_restore_context.                                      *)
(***************************************************************************)
(* Mutant: a process is taken from an empty queue. *)
DispatchBlind(s, p) ==
  /\ pc[s] = "sched"
  /\ queued' = [queued EXCEPT ![p] = @ - 1]
  /\ cur' = [cur EXCEPT ![s] = p]
  /\ pc' = [pc EXCEPT ![s] = "user"]

Dispatch(s, p) ==
  /\ pc[s] = "sched"
  /\ queued[p] > 0
  /\ queued' = [queued EXCEPT ![p] = @ - 1]
  /\ cur' = [cur EXCEPT ![s] = p]
  /\ pc' = [pc EXCEPT ![s] = "user"]

(***************************************************************************)
(* How many times p is scheduled: the schedulers that run it plus its      *)
(* entries in run queues.                                                  *)
(***************************************************************************)
Scheduled(p) == Cardinality({s \in Scheds : cur[s] = p}) + queued[p]
=============================================================================
