-------------------------- MODULE MCAccessMonitor --------------------------
(* The application's own entry and one of another owner.                      *)
EXTENDS AccessMonitor

CONSTANTS app, sam, m1

MCOwners == {app, sam}
MCMonitors == {m1}
=============================================================================
