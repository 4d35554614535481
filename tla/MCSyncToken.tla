---------------------------- MODULE MCSyncToken ----------------------------
(* Two nodes and one application.  The durations keep their order in the code *)
(* but are as short as that allows.                                           *)
EXTENDS SyncToken, TLC

\* The nodes differ in their names only; who is where on a list is data.
Symmetry == Permutations(Nodes)

\* A node that the contract lists for good although it will never run again
\* leaves TokenKept with nothing to say, and when no node runs the application
\* and none will, the token is nobody's concern: such behaviours are not
\* followed.  Up to two messages are under way at once, one after a fault.
Recoverable ==
    /\ joins = MaxJoins => joined # {} /\ registered \subseteq joined \cup leaving
    /\ Cardinality(net) <= 2 - faults
=============================================================================
