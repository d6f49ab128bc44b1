----------------------------- MODULE MCCcspMail ------------------------------
(***************************************************************************)
(* CcspMail for TLC: processes that may run anywhere, and processes that are *)
(* bound to a scheduler, so that making them runnable takes mail.          *)
(***************************************************************************)
EXTENDS CcspMail, TLC

CONSTANTS s1, s2, s3, p1, p2

(* Both processes are bound to s2, or one to s1 and one to s2. *)
SameHome == [p \in Procs |-> {{s2}}]
TwoHomes == [p \in Procs |-> IF p = p1 THEN {{s1}} ELSE {{s2}}]

(* One is bound to s2, the other moves between being free and bound to s1. *)
Moving == [p \in Procs |-> IF p = p1 THEN {{}, {s1}} ELSE {{s2}}]

BscSymmetry == Permutations(Bscs)
=============================================================================
