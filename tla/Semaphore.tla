------------------------------ MODULE Semaphore ------------------------------
(***************************************************************************)
(* What a CCSP semaphore (the lock of a shared channel-bundle end) promises *)
(* to the processes that claim it: at most one holds it, and those that    *)
(* had to wait are granted it in the order in which they began to wait.    *)
(***************************************************************************)
EXTENDS Naturals, Sequences

CONSTANT Procs

VARIABLES holders,   \* the processes that hold the semaphore
          waiting    \* the processes waiting for it, in order

vars == <<holders, waiting>>

Init == holders = {} /\ waiting = << >>

(* Claiming a semaphore nobody holds or waits for. *)
Acquire(p) ==
  /\ holders = {} /\ waiting = << >>
  /\ holders' = {p}
  /\ UNCHANGED waiting

(* Joining the end of the queue. *)
Wait(p) ==
  /\ p \notin holders
  /\ \A i \in 1..Len(waiting) : waiting[i] # p
  /\ waiting' = Append(waiting, p)
  /\ UNCHANGED holders

(* The semaphore goes to the process that has waited longest. *)
Grant ==
  /\ holders = {} /\ waiting # << >>
  /\ holders' = {Head(waiting)}
  /\ waiting' = Tail(waiting)

Release(p) ==
  /\ p \in holders
  /\ holders' = holders \ {p}
  /\ UNCHANGED waiting

Next == Grant \/ \E p \in Procs : Acquire(p) \/ Wait(p) \/ Release(p)

Spec == Init /\ [][Next]_vars
=============================================================================
