------------------------------- MODULE Barrier -------------------------------
(***************************************************************************)
(* What a barrier promises: nobody passes it before every enrolled process *)
(* has reached it, and everybody who has reached it by then does pass.     *)
(***************************************************************************)
CONSTANT Procs

VARIABLES enrolled,   \* the processes that take part
          waiting,    \* those that have reached the barrier in this phase
          released    \* those the barrier still has to let go

vars == <<enrolled, waiting, released>>

Init == enrolled \in SUBSET Procs /\ waiting = {} /\ released = {}

(* With w at the barrier and e enrolled: the phase goes on, or it is over. *)
Meet(w, e) ==
  \/ waiting' = w /\ UNCHANGED released
  \/ w = e /\ waiting' = {} /\ released' = released \cup w

Outside(p) == p \notin waiting \cup released

Sync(p) ==
  /\ p \in enrolled /\ Outside(p)
  /\ Meet(waiting \cup {p}, enrolled)
  /\ UNCHANGED enrolled

Complete == Meet(waiting, enrolled) /\ UNCHANGED enrolled

(* Only a process that is outside the barrier enrolls another one. *)
Enroll(p) ==
  /\ p \notin enrolled
  /\ \E q \in enrolled : Outside(q)
  /\ enrolled' = enrolled \cup {p}
  /\ UNCHANGED <<waiting, released>>

Resign(p) ==
  /\ p \in enrolled /\ Outside(p)
  /\ enrolled' = enrolled \ {p}
  /\ Meet(waiting, enrolled')

Release(p) ==
  /\ p \in released
  /\ released' = released \ {p}
  /\ UNCHANGED <<enrolled, waiting>>

Next ==
  \/ Complete
  \/ \E p \in Procs : Sync(p) \/ Enroll(p) \/ Resign(p) \/ Release(p)

Spec == Init /\ [][Next]_vars
=============================================================================
