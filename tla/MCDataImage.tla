---------------------------- MODULE MCDataImage ----------------------------
(* The application's own entry and one of another owner.                      *)
EXTENDS DataImage, TLC

CONSTANTS app, sam, v1, v2

MCOwners == {app, sam}
MCValues == {v1, v2}

\* Owners differ in that one is the application, contents in nothing.
Symmetry == Permutations(MCValues)
=============================================================================
