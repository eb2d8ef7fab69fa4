-------------------------- MODULE MCClientIDMetadata --------------------------
(***************************************************************************)
(* Instances of ClientIDMetadata for TLC.                                   *)
(***************************************************************************)
EXTENDS ClientIDMetadata, TLC

CONSTANTS p1, p2

\* A max-age below the minimum, one above the maximum, and none.
EdgeAges == {0, 1, 9}

MCSymmetry == Permutations(Handlers)
=============================================================================
