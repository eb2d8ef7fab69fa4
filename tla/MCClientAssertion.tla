-------------------------- MODULE MCClientAssertion ---------------------------
(***************************************************************************)
(* Instances of ClientAssertion for TLC.                                    *)
(***************************************************************************)
EXTENDS ClientAssertion, TLC

CONSTANTS j1, j2, p1, p2

MCSymmetry == Permutations(Handlers) \cup Permutations(Assertions)
=============================================================================
