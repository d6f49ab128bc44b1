----------------------------- MODULE Rendezvous ------------------------------
(***************************************************************************)
(* What a channel promises to the two processes that use it: an output and *)
(* an input wait for each other, exchange one message, and neither process *)
(* goes on before the exchange.                                            *)
(***************************************************************************)
CONSTANTS Procs,     \* processes
          Chans,     \* channels
          Writer,    \* Writer[c]: the process at the outputting end of c
          Reader     \* Reader[c]: the process at the inputting end of c

VARIABLE io          \* io[p]: the last communication p asked for

Idle == [st |-> "done", c |-> "none"]
Pending(dir, c) == [st |-> dir, c |-> c]

Init == io = [p \in Procs |-> Idle]

(* A process may ask for a communication only when its last one is over. *)
Offer(p) ==
  /\ io[p].st = "done"
  /\ \E c \in Chans :
       \/ Writer[c] = p /\ io' = [io EXCEPT ![p] = Pending("out", c)]
       \/ Reader[c] = p /\ io' = [io EXCEPT ![p] = Pending("in", c)]

(* The exchange: both ends are waiting on the channel, both are released. *)
Transfer(c) ==
  /\ io[Writer[c]] = Pending("out", c)
  /\ io[Reader[c]] = Pending("in", c)
  /\ io' = [io EXCEPT ![Writer[c]] = Idle, ![Reader[c]] = Idle]

Next ==
  \/ \E p \in Procs : Offer(p)
  \/ \E c \in Chans : Transfer(c)

Spec == Init /\ [][Next]_io
=============================================================================
