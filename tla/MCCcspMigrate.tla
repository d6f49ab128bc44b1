---------------------------- MODULE MCCcspMigrate ----------------------------
(***************************************************************************)
(* Instances of CcspMigrate: two schedulers; p3 may tie itself to the      *)
(* first scheduler and untie itself again.                                 *)
(***************************************************************************)
EXTENDS CcspMigrate, TLC

CONSTANTS s1, s2, p1, p2, p3

NoAffinities == [p \in Procs |-> {}]
TiesItself == [p \in Procs |-> IF p = p3 THEN {{}, {s1}} ELSE {}]
StartP2 == {<<s1, p2>>}
Anywhere == Scheds \X Procs
Symmetry == Permutations(Scheds) \cup Permutations(Procs)
=============================================================================
