----------------------------- MODULE DbContract -----------------------------
(* The smart contract the nodes meet at (contract/lib.rs): its storage and    *)
(* one action per message that changes it.  The chain runs one message at a   *)
(* time, so an action is a whole message.                                     *)
(*                                                                            *)
(* An absent entry of the subscribers or the restricted mapping is the empty  *)
(* sequence: every message treats the two alike, but for the event it emits.  *)
(* Messages that find nothing to do only emit an event and have no action.    *)
(* DID document addresses are always empty and left out.                      *)
EXTENDS Naturals, Sequences, SequencesExt

CONSTANTS
    DIDs,       \* users and applications
    Addrs,      \* multiaddresses of nodes
    CIDs,       \* IPFS addresses of hashtables
    Auths,      \* authentication material of accounts
    NodesCap,   \* how many bootnodes the contract keeps: 10
    NoAccount,  \* the absent account
    MaxBlocks   \* bound on the length of a restriction list

ASSUME NodesCapAssumption  == NodesCap \in Nat \ {0}
ASSUME MaxBlocksAssumption == MaxBlocks \in Nat

VARIABLES
    nodes,       \* possible bootnodes, the oldest first
    accounts,    \* DID -> AccountInfo
    subscribers, \* DID of an application -> nodes that run it
    restricted,  \* DID of an application -> users that restrict it
    blocking     \* history: <<user, app>> whose last message of the two was restrict

vars == <<nodes, accounts, subscribers, restricted, blocking>>

AccountInfo == [hashtable_cid : CIDs, auth_material : Auths]

ASSUME NoAccountAssumption == NoAccount \notin AccountInfo

-----------------------------------------------------------------------------
(* Queries                                                                    *)

CheckDidExistence(did) == accounts[did] # NoAccount

GetNodeAddresses == nodes

GetSubscribers(did) == subscribers[did]

\* The users that have restricted an application.
GetRestrictionList(app) == restricted[app]

\* Looks for its second argument on the list that is kept under the first.
IsRestricted(did, app) == Contains(restricted[did], app)

-----------------------------------------------------------------------------
(* Messages                                                                   *)

\* A list without the entries that are x, the rest in their order.
Without(s, x) ==
    LET kept[i \in 0 .. Len(s)] ==
            IF i = 0 THEN <<>>
            ELSE IF s[i] = x THEN kept[i - 1]
            ELSE Append(kept[i - 1], s[i])
    IN  kept[Len(s)]

\* An account that is there is replaced.
NewAccount(did, cid, auth) ==
    /\ accounts' = [accounts EXCEPT ![did] = [hashtable_cid |-> cid, auth_material |-> auth]]
    /\ UNCHANGED <<nodes, subscribers, restricted, blocking>>

\* Faulty variant: room is made one address too late.
AddAddressLate(addr) ==
    /\ ~Contains(nodes, addr)
    /\ nodes' = Append(IF Len(nodes) > NodesCap THEN Tail(nodes) ELSE nodes, addr)
    /\ UNCHANGED <<accounts, subscribers, restricted, blocking>>

\* Faulty variant: the latest address makes room instead of the oldest.
AddAddressPop(addr) ==
    /\ ~Contains(nodes, addr)
    /\ nodes' = Append(IF Len(nodes) >= NodesCap THEN Front(nodes) ELSE nodes, addr)
    /\ UNCHANGED <<accounts, subscribers, restricted, blocking>>

AddAddress(addr) ==
    /\ ~Contains(nodes, addr)
    /\ nodes' = Append(IF Len(nodes) >= NodesCap THEN Tail(nodes) ELSE nodes, addr)
    /\ UNCHANGED <<accounts, subscribers, restricted, blocking>>

RemoveAddress(addr) ==
    /\ Contains(nodes, addr)
    /\ nodes' = Without(nodes, addr)
    /\ UNCHANGED <<accounts, subscribers, restricted, blocking>>

UpdateAccountHtCid(did, cid) ==
    /\ CheckDidExistence(did)
    /\ accounts' = [accounts EXCEPT ![did].hashtable_cid = cid]
    /\ UNCHANGED <<nodes, subscribers, restricted, blocking>>

SubscribeNode(did, addr) ==
    /\ ~Contains(subscribers[did], addr)
    /\ subscribers' = [subscribers EXCEPT ![did] = Append(@, addr)]
    /\ UNCHANGED <<nodes, accounts, restricted, blocking>>

UnsubscribeNode(did, addr) ==
    /\ subscribers' = [subscribers EXCEPT ![did] = Without(@, addr)]
    /\ UNCHANGED <<nodes, accounts, restricted, blocking>>

\* A user that is on the list already is appended again.
RestrictAccess(user, app) ==
    /\ CheckDidExistence(user) /\ CheckDidExistence(app)
    /\ Len(restricted[app]) < MaxBlocks
    /\ restricted' = [restricted EXCEPT ![app] = Append(@, user)]
    /\ blocking' = blocking \cup {<<user, app>>}
    /\ UNCHANGED <<nodes, accounts, subscribers>>

\* Faulty variant: only the first of the user's entries is taken off the list.
UnrestrictAccessOnce(user, app) ==
    /\ restricted' = [restricted EXCEPT ![app] = RemoveFirst(@, user)]
    /\ blocking' = blocking \ {<<user, app>>}
    /\ UNCHANGED <<nodes, accounts, subscribers>>

UnrestrictAccess(user, app) ==
    /\ restricted' = [restricted EXCEPT ![app] = Without(@, user)]
    /\ blocking' = blocking \ {<<user, app>>}
    /\ UNCHANGED <<nodes, accounts, subscribers>>

Init ==
    /\ nodes = <<>>
    /\ accounts = [did \in DIDs |-> NoAccount]
    /\ subscribers = [did \in DIDs |-> <<>>]
    /\ restricted = [did \in DIDs |-> <<>>]
    /\ blocking = {}

Next ==
    \/ \E addr \in Addrs : AddAddress(addr) \/ RemoveAddress(addr)
    \/ \E did \in DIDs :
          \/ \E cid \in CIDs, auth \in Auths : NewAccount(did, cid, auth)
          \/ \E cid \in CIDs : UpdateAccountHtCid(did, cid)
          \/ \E addr \in Addrs : SubscribeNode(did, addr) \/ UnsubscribeNode(did, addr)
          \/ \E app \in DIDs : RestrictAccess(did, app) \/ UnrestrictAccess(did, app)

Spec == Init /\ [][Next]_vars

-----------------------------------------------------------------------------
(* Properties                                                                 *)

\* The pairs of entries of a list of which one stands before the other.
Before(s) ==
    {pair \in ToSet(s) \X ToSet(s) :
        \E j \in DOMAIN s : \E i \in 1 .. j - 1 : pair = <<s[i], s[j]>>}

UpTo(S, n) == UNION {[1 .. i -> S] : i \in 0 .. n}

TypeOK ==
    /\ nodes \in UpTo(Addrs, NodesCap)
    /\ accounts \in [DIDs -> AccountInfo \cup {NoAccount}]
    /\ subscribers \in [DIDs -> Seq(Addrs)]
    /\ restricted \in [DIDs -> Seq(DIDs)]
    /\ blocking \subseteq DIDs \X DIDs

Registry == INSTANCE DbRegistry WITH
    listed  <- ToSet(GetNodeAddresses),
    older   <- Before(GetNodeAddresses),
    members <- [did \in DIDs |-> ToSet(GetSubscribers(did))],
    blocked <- {pair \in DIDs \X DIDs : pair[1] \in ToSet(GetRestrictionList(pair[2]))}

(* The sequences the contract keeps, with their checks and their filters,     *)
(* behave as a registry of sets: nothing is there twice that two messages     *)
(* added, nothing but a removal makes a subscriber, a block or an account go, *)
(* and a bootnode goes besides when it is the oldest of a full list.          *)
RegistryKept == Registry!Spec

(* The last of a user's restrict and unrestrict messages about an application *)
(* decides, however often each was sent (a node may send restrict again, and  *)
(* the contract appends the user again): whether the user stands on the list  *)
(* that the nodes read, and what is_restricted answers when it is asked for   *)
(* the application first.  The contract's own test (contract/lib.rs 465-469)  *)
(* asks for the user first, as it restricted, and expects that to be yes; but *)
(* restrict notes the user under the application's DID.                       *)
LastMessageDecides ==
    \A user, app \in DIDs :
        /\ user \in ToSet(GetRestrictionList(app)) <=> <<user, app>> \in blocking
        /\ IsRestricted(app, user) <=> <<user, app>> \in blocking
=============================================================================
