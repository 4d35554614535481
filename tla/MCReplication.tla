--------------------------- MODULE MCReplication ---------------------------
(* Two nodes, the application and one user as owners, one key, one value (the *)
(* time of the write tells writes apart).  Node n2 is also a metadata peer of *)
(* n1, as a subscriber beyond the first d is: it gets messages both ways.     *)
(* A node runs two client commands at a time.                                 *)
(*                                                                            *)
(* Beside v1 there are values that hold the separator, named by how often:    *)
(* one is lost, four is read as an access change.                             *)
EXTENDS Replication, FiniteSets, TLC

CONSTANTS n1, n2, v1, one, four

MCSeparators == [x \in Keys \cup Values |->
    CASE x = one -> 1 [] x = four -> 4 [] OTHER -> 0]

OneWayPeers == [n \in Nodes |-> IF n = n1 THEN {n2} ELSE {}]

\* The clients of a node are interchangeable.
ClientSymmetry == Permutations(Clients)

Busy == {nc \in Nodes \X Clients : task[nc[1]][nc[2]] # None}

\* Texts with separators are looked at where both nodes are subscribed, n1 runs the
\* commands, one at a time and only one writes, and no clock goes further than it must.
TextsApart ==
    LET writes == {r \in requests : r.type = "Write"}
    IN  \/ \A r \in writes : r.data.val = v1
        \/ /\ Cardinality(Busy) <= 1 /\ Busy \subseteq {n1} \X Clients
           /\ Cardinality(writes) = 1
           /\ \A n \in Nodes : clock[n] <= 2 /\ subscribed[n]

\* The behaviours of Spec from the point where n1, or both nodes, have
\* initialized the application and been subscribed.
Joined(S) ==
    /\ clock = [n \in Nodes |-> 1]
    /\ apps = [n \in Nodes |-> IF n \in S THEN FreshTable ELSE None]
    /\ subscribed = [n \in Nodes |-> n \in S]
    /\ task = [n \in Nodes |-> [c \in Clients |-> None]]
    /\ loop = [n \in Nodes |-> None]
    /\ net = {}
    /\ igive = {}
    /\ seen = [n \in Nodes |-> {}]
    /\ requests = {}
    /\ ops = 0

\* The easy case for agreement: both nodes are in, one client on one node does
\* nothing but set keys, never twice in a second, and nobody initializes the
\* application again.
OneWriterNext ==
    \/ \E c \in Clients :
          \/ /\ \A r \in requests : r.data.at < clock[n1]
             /\ \E k \in Keys, v \in Values : SetRequest(n1, c, App, k, v)
          \/ SetRead(n1, c) \/ Commit(n1, c) \/ Flag(n1, c) \/ Gossip(n1, c)
    \/ \E n \in Nodes : LoopStep(n) \/ Tick(n)

OneWriterSpec == Joined(Nodes) /\ [][OneWriterNext]_vars

MCSpec == (Joined({n1}) \/ Joined(Nodes)) /\ [][Next]_vars
=============================================================================
