------------------------------ MODULE MCCcspAlt ------------------------------
(***************************************************************************)
(* CcspAlt for TLC: two writers that keep writing on a channel each, and   *)
(* one reader that inputs, extended-inputs or ALTs on both.                *)
(***************************************************************************)
EXTENDS CcspAlt, TLC

CONSTANTS c1, c2, w1, w2, r, ReaderOps, ReaderAlts

MCWriter == (c1 :> w1) @@ (c2 :> w2)
MCReader == (c1 :> r) @@ (c2 :> r)
MCOps == (r :> ReaderOps) @@ (w1 :> {"out"}) @@ (w2 :> {"out"})
MCAlts == (r :> ReaderAlts) @@ (w1 :> {}) @@ (w2 :> {})

InStyle(code, lists) == {[style |-> code, guards |-> gs] : gs \in lists}

(***************************************************************************)
(* The jumping instructions on both channels, in both orders, with a SKIP  *)
(* guard and with a channel that occurs twice; the plain instructions on a *)
(* channel and SKIPs after it; ProcAlt on one channel.                     *)
(***************************************************************************)
SafeAlts ==
  InStyle("jump", {<<c1, c2>>, <<c2, c1, Skip>>, <<c2, Skip, c1>>, <<c2, c1, c2>>})
    \cup InStyle("all", {<<c1, Skip>>, <<c2, Skip, Skip>>})
    \cup InStyle("procalt", {<<c1>>, <<Skip, c2>>})

(* They are the ALTs the proofs are about. *)
ASSUME SafeAltsAreOneChannel == ReaderAlts = SafeAlts => OneChannel

(* Two channels with ProcAlt. *)
ProcAltTwoChans == InStyle("procalt", {<<c1, c2>>, <<c2, c1>>})
=============================================================================
