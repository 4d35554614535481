----------------------------- MODULE DbRegistry -----------------------------
(* What the nodes are promised by the contract: a registry of bootnodes that  *)
(* has room for NodesCap of them and makes room by letting the one listed for *)
(* longest go, of accounts, of the nodes that serve each application, and of  *)
(* the users that block an application.  Only sets and relations: no entry    *)
(* can be there twice.                                                        *)
EXTENDS Naturals, FiniteSets

CONSTANTS DIDs, Addrs, CIDs, Auths, NodesCap, NoAccount

VARIABLES
    listed,    \* addresses of bootnodes
    older,     \* <<a, b>>: bootnode a has been listed for longer than b
    accounts,  \* accounts[d]: the account of d, or NoAccount
    members,   \* members[d]: addresses of the nodes that serve application d
    blocked    \* <<u, d>>: user u blocks application d

vars == <<listed, older, accounts, members, blocked>>

Exists(d) == accounts[d] # NoAccount

\* The bootnodes that go when another comes in.
Crowded ==
    IF Cardinality(listed) < NodesCap
    THEN {}
    ELSE {a \in listed : \A b \in listed : <<b, a>> \notin older}

AddAddress(a) ==
    LET kept == listed \ Crowded
    IN  /\ a \notin listed
        /\ listed' = kept \cup {a}
        /\ older' = (older \cap (kept \X kept)) \cup (kept \X {a})
        /\ UNCHANGED <<accounts, members, blocked>>

RemoveAddress(a) ==
    LET kept == listed \ {a}
    IN  /\ listed' = kept
        /\ older' = older \cap (kept \X kept)
        /\ UNCHANGED <<accounts, members, blocked>>

NewAccount(d, cid, auth) ==
    /\ accounts' = [accounts EXCEPT ![d] = [hashtable_cid |-> cid, auth_material |-> auth]]
    /\ UNCHANGED <<listed, older, members, blocked>>

UpdateCid(d, cid) ==
    /\ Exists(d)
    /\ accounts' = [accounts EXCEPT ![d].hashtable_cid = cid]
    /\ UNCHANGED <<listed, older, members, blocked>>

Join(d, a) ==
    /\ members' = [members EXCEPT ![d] = @ \cup {a}]
    /\ UNCHANGED <<listed, older, accounts, blocked>>

Leave(d, a) ==
    /\ members' = [members EXCEPT ![d] = @ \ {a}]
    /\ UNCHANGED <<listed, older, accounts, blocked>>

Block(u, d) ==
    /\ Exists(u) /\ Exists(d)
    /\ blocked' = blocked \cup {<<u, d>>}
    /\ UNCHANGED <<listed, older, accounts, members>>

Unblock(u, d) ==
    /\ blocked' = blocked \ {<<u, d>>}
    /\ UNCHANGED <<listed, older, accounts, members>>

Init ==
    /\ listed = {}
    /\ older = {}
    /\ accounts = [d \in DIDs |-> NoAccount]
    /\ members = [d \in DIDs |-> {}]
    /\ blocked = {}

Next ==
    \/ \E a \in Addrs : AddAddress(a) \/ RemoveAddress(a)
    \/ \E d \in DIDs :
          \/ \E cid \in CIDs, auth \in Auths : NewAccount(d, cid, auth)
          \/ \E cid \in CIDs : UpdateCid(d, cid)
          \/ \E a \in Addrs : Join(d, a) \/ Leave(d, a)
          \/ \E u \in DIDs : Block(u, d) \/ Unblock(u, d)

Spec == Init /\ [][Next]_vars
=============================================================================
