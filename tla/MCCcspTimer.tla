----------------------------- MODULE MCCcspTimer -----------------------------
(***************************************************************************)
(* CcspTimer for TLC: a process r that ALTs on a channel and timers, and   *)
(* its writer w, which also sleeps.                                        *)
(***************************************************************************)
EXTENDS CcspTimer, TLC

CONSTANTS c1, t1, t2, w, r, ReaderAlts

MCWriter == c1 :> w
MCReader == c1 :> r
MCOps == (r :> {"talt"}) @@ (w :> {"out", "tin"})
MCAlts == (r :> ReaderAlts) @@ (w :> {})
MCDelay == (t1 :> 1) @@ (t2 :> 2)

InStyle(code, lists) == {[style |-> code, guards |-> gs] : gs \in lists}

(***************************************************************************)
(* Timers after the channel: with the jumping instructions the timer that  *)
(* is due last is disabled first.                                          *)
(***************************************************************************)
TimersLast == InStyle("jump", {<<c1, t1, t2>>}) \cup InStyle("all", {<<c1, t2>>})

(* One of them, for liveness. *)
OneTimer == InStyle("jump", {<<c1, t1>>})

(* They are the ALTs the proofs are about. *)
ASSUME TimerAltsAreOneChannel == OneChannel

SchedSymmetry == Permutations(Scheds)
=============================================================================
