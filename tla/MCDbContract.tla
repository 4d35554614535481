---------------------------- MODULE MCDbContract ----------------------------
(* Two DIDs, each of which may be a user and an application, three addresses  *)
(* for two places among the bootnodes, two hashtable addresses and room for   *)
(* the same user twice on a restriction list.                                 *)
EXTENDS DbContract, TLC

\* Nothing tells one address, or one hashtable address, from another.
Symmetry == Permutations(Addrs) \cup Permutations(CIDs)
=============================================================================
