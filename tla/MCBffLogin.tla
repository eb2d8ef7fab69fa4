------------------------------ MODULE MCBffLogin ------------------------------
(***************************************************************************)
(* An instance of BffLogin for TLC.  Browsers, users and slots for callbacks *)
(* are alike, and all properties of the run are safety properties.          *)
(***************************************************************************)
EXTENDS BffLogin, TLC

CONSTANTS b1, b2, u1, u2, p1, r1, r2

Alike == Permutations({b1, b2}) \cup Permutations({u1, u2}) \cup Permutations({r1, r2})
=============================================================================
