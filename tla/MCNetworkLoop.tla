--------------------------- MODULE MCNetworkLoop ---------------------------
(* One client, degrees in the order of the code's (4, 6 and 12 there).        *)
EXTENDS NetworkLoop
=============================================================================
