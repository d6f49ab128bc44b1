----------------------------- MODULE Scheduling ------------------------------
(***************************************************************************)
(* What kernel calls rely on (see CcspSched): a process that is made       *)
(* runnable stays runnable until exactly one scheduler resumes it, and a   *)
(* process is only ever made runnable while it neither runs nor is         *)
(* runnable already, or as it leaves the processor.                        *)
(***************************************************************************)
CONSTANTS Scheds, Procs, NotProcess

VARIABLES running,    \* running[s]: the process s runs
          runnable    \* the processes that wait to be run

vars == <<running, runnable>>

Idle(p) == p \notin runnable /\ \A s \in Scheds : running[s] # p

Init ==
  /\ running = [s \in Scheds |-> NotProcess]
  /\ runnable \in SUBSET Procs

Enqueue(p) ==
  /\ Idle(p)
  /\ runnable' = runnable \cup {p}
  /\ UNCHANGED running

Dispatch(s, p) ==
  /\ running[s] = NotProcess /\ p \in runnable
  /\ running' = [running EXCEPT ![s] = p]
  /\ runnable' = runnable \ {p}

Deschedule(s) ==
  /\ running[s] # NotProcess
  /\ running' = [running EXCEPT ![s] = NotProcess]
  /\ UNCHANGED runnable

Requeue(s) ==
  /\ running[s] # NotProcess
  /\ running' = [running EXCEPT ![s] = NotProcess]
  /\ runnable' = runnable \cup {running[s]}

Next ==
  \/ \E p \in Procs : Enqueue(p)
  \/ \E s \in Scheds : Deschedule(s) \/ Requeue(s) \/ \E p \in Procs : Dispatch(s, p)

Spec == Init /\ [][Next]_vars
=============================================================================
