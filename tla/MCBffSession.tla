----------------------------- MODULE MCBffSession -----------------------------
(***************************************************************************)
(* Instances of BffSession for TLC.                                         *)
(***************************************************************************)
EXTENDS BffSession, TLC

CONSTANTS r1, r2

MCSymmetry == Permutations(Requests)
=============================================================================
