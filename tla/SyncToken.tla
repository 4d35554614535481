----------------------------- MODULE SyncToken -----------------------------
(* The token that says which node uploads an application's data image         *)
(* (network.rs): per node the flag is_node_sync_turn, the number of SYNC      *)
(* messages sent while it was up, and what the last SYNC received told.  The  *)
(* tasks that share them are the loops of manage_data_synchronization, the    *)
(* network loop, the delayed checks of monitor_synching and the checks that   *)
(* are due three minutes after the node joined.                               *)
(*                                                                            *)
(* One application.  Time passes in units of ten seconds, of which every      *)
(* duration in the code is a multiple.  Whatever sleeps wakes up in time, but *)
(* calls to the contract and to IPFS, and messages, take as long as they      *)
(* like, and messages overtake each other.  A node that crashes forgets       *)
(* everything, but the contract still lists it; a node that leaves keeps what *)
(* it knew for the next time it joins, and tasks that have not noticed run    *)
(* on.  A node may be told to join what it runs already; it is told to leave  *)
(* only what it has joined, or tried to.                                      *)
EXTENDS Integers, Sequences, FiniteSets, SequencesExt

CONSTANTS
    Nodes,          \* peer ids of the nodes
    None,           \* the time, timer or count that is not there
    MaxUpdates,     \* MAX_DATA_UPDATE_COUNT: 7
    SyncFrequency,  \* SYNC_FREQUENCY: 1
    WaitPeriod,     \* ADDITIONAL_WAIT_PERIOD: 1
    SeizeAfter,     \* three minutes: 18
    HandOver,       \* how far ahead the node that passes the token on sets its
                    \* last_sync_time: 2
    LongAgo,        \* bound: no check tells two longer times apart
    MaxJoins,       \* bound on the times nodes join
    MaxFaults,      \* bound on crashes, lost messages and failed calls
    MaxInFlight     \* bound on the messages on their way to a node when a SYNC
                    \* is sent to it

ASSUME NodesAssumption == IsFiniteSet(Nodes)
ASSUME DurationsAssumption ==
    /\ MaxUpdates \in Nat \ {0, 1} /\ SyncFrequency \in Nat \ {0}
    /\ WaitPeriod \in Nat /\ SeizeAfter \in Nat /\ HandOver \in Nat
ASSUME BoundsAssumption ==
    /\ MaxJoins \in Nat /\ MaxFaults \in Nat
    /\ MaxInFlight \in Nat /\ LongAgo \in Nat /\ LongAgo > SeizeAfter
ASSUME NoneAssumption == None \notin Int

VARIABLES
    joined,      \* nodes that run the application: it is in their memory
    noted,       \* nodes where cids has an entry for the application
    registering, \* nodes whose call of subscribe_node is under way
    registered,  \* subscribers of the application on the contract
    leaving,     \* nodes whose network loop is at unsubscribe_node
    mesh,        \* mesh[n]: full-message peers
    turn,        \* turn[n]: is_node_sync_turn, n holds the token
    count,       \* count[n]: data_update_count, None before the first SYNC
    sync_peers,  \* sync_peers[n]: the peers the last SYNC received was sent to
    since,       \* since[n]: time since last_sync_time, negative while that is ahead
    loops,       \* loops[n]: n's tasks in manage_data_synchronization
    seize,       \* seize[n]: times until the checks three minutes after joining
    checks,      \* checks[n]: delayed checks of monitor_synching
    net,         \* messages on their way
    joins, faults

counters == <<joins, faults>>
vars == <<joined, noted, registering, registered, leaving, mesh, turn, count, sync_peers,
          since, loops, seize, checks, net, counters>>

Message ==
    [type : {"Sync"}, to : Nodes, update_count : 0 .. MaxUpdates - 1, peers : Seq(Nodes)]
        \cup [type : {"Subscribe", "Unsubscribe"}, to : Nodes, from : Nodes]

SyncMsg(p, c, peers) == [type |-> "Sync", to |-> p, update_count |-> c, peers |-> peers]
Announce(type, n) == {[type |-> type, to |-> p, from |-> n] : p \in joined \ {n}}

\* manage_data_synchronization, between two of the points where it waits.
Asleep(t) == [phase |-> "asleep", timer |-> t, sole |-> FALSE, peers |-> <<>>]
Uploading(peers) == [phase |-> "upload", timer |-> None, sole |-> FALSE, peers |-> peers]

Holds(n) == turn[n]

\* Instant::now() - last_sync_time, which is zero when there is none.
Elapsed(n) == IF since[n] = None \/ since[n] < 0 THEN 0 ELSE since[n]

Orderings(S) == {s \in [1 .. Cardinality(S) -> S] : IsInjective(s)}

-----------------------------------------------------------------------------
(* Joining and leaving                                                        *)

\* A call of the contract either works or fails; no caller can tell which.
Call(works) ==
    \/ works /\ faults' = faults
    \/ ~works /\ faults < MaxFaults /\ faults' = faults + 1

\* SubscribeNodeToApplication: the mesh is filled from the contract, the peers
\* are told, and tasks are started to register the node, to synchronize and to
\* look after three minutes, beside those that run already.
Join(n) ==
    /\ n \notin leaving
    /\ joins < MaxJoins
    /\ joins' = joins + 1
    /\ joined' = joined \cup {n}
    /\ noted' = noted \cup {n}
    /\ registering' = registering \cup {n}
    /\ \E works \in BOOLEAN :
          /\ Call(works)
          /\ \E peers \in Orderings(IF works THEN registered \ {n} ELSE {}) :
                mesh' = [mesh EXCEPT ![n] = peers]
    /\ loops' = [loops EXCEPT ![n] = Append(@, Asleep(0))]
    /\ seize' = [seize EXCEPT ![n] = @ \cup {SeizeAfter}]
    /\ net' = net \cup Announce("Subscribe", n)
    /\ UNCHANGED <<registered, leaving, turn, count, sync_peers, since, checks>>

\* The node does not get onto the topic: the application leaves the memory, the
\* cid stays, and nothing is started.
JoinFails(n) ==
    /\ n \notin joined \cup leaving
    /\ faults < MaxFaults
    /\ faults' = faults + 1
    /\ noted' = noted \cup {n}
    /\ UNCHANGED <<joined, registering, registered, leaving, mesh, turn, count,
                   sync_peers, since, loops, seize, checks, net, joins>>

Register(n) ==
    /\ n \in registering
    /\ registering' = registering \ {n}
    /\ \E works \in BOOLEAN :
          /\ Call(works)
          /\ registered' = IF works THEN registered \cup {n} ELSE registered
    /\ UNCHANGED <<joined, noted, leaving, mesh, turn, count, sync_peers, since, loops,
                   seize, checks, net, joins>>

\* UnsubscribeNodeFromApplication: the cid goes first ...
LeaveBegin(n) ==
    /\ n \in noted \ leaving
    /\ joined' = joined \ {n}
    /\ noted' = noted \ {n}
    /\ leaving' = leaving \cup {n}
    /\ UNCHANGED <<registering, registered, mesh, turn, count, sync_peers, since,
                   loops, seize, checks, net, counters>>

\* ... and when the contract has answered, peers are told and the mesh goes.
LeaveEnd(n) ==
    /\ n \in leaving
    /\ leaving' = leaving \ {n}
    /\ \E works \in BOOLEAN :
          /\ Call(works)
          /\ registered' = IF works THEN registered \ {n} ELSE registered
    /\ mesh' = [mesh EXCEPT ![n] = <<>>]
    /\ net' = net \cup Announce("Unsubscribe", n)
    /\ UNCHANGED <<joined, noted, registering, turn, count, sync_peers, since, loops,
                   seize, checks, joins>>

Crash(n) ==
    /\ n \in noted \cup leaving
    /\ faults < MaxFaults
    /\ faults' = faults + 1
    /\ joined' = joined \ {n}
    /\ noted' = noted \ {n}
    /\ registering' = registering \ {n}
    /\ leaving' = leaving \ {n}
    /\ mesh' = [mesh EXCEPT ![n] = <<>>]
    /\ turn' = [turn EXCEPT ![n] = FALSE]
    /\ count' = [count EXCEPT ![n] = None]
    /\ sync_peers' = [sync_peers EXCEPT ![n] = <<>>]
    /\ since' = [since EXCEPT ![n] = None]
    /\ loops' = [loops EXCEPT ![n] = <<>>]
    /\ seize' = [seize EXCEPT ![n] = {}]
    /\ checks' = [checks EXCEPT ![n] = {}]
    /\ net' = {m \in net : m.to # n}
    /\ UNCHANGED <<registered, joins>>

-----------------------------------------------------------------------------
(* The loop of manage_data_synchronization                                    *)

\* It ends when the cid is gone; otherwise the contract is asked who there is.
\* An empty list, and no answer, are both read as a list of one.
Wake(n, i) ==
    /\ loops[n][i].phase = "asleep" /\ loops[n][i].timer = 0
    /\ IF n \in noted
       THEN \E works \in BOOLEAN :
                /\ Call(works)
                /\ loops' = [loops EXCEPT ![n][i] =
                       [@ EXCEPT !.phase = "asked", !.timer = None,
                                 !.sole = works => Cardinality(registered) <= 1]]
       ELSE loops' = [loops EXCEPT ![n] = RemoveAt(@, i)] /\ faults' = faults
    /\ UNCHANGED <<joined, noted, registering, registered, leaving, mesh, turn, count,
                   sync_peers, since, seize, checks, net, joins>>

Rest(n, i) == loops' = [loops EXCEPT ![n][i] = Asleep(SyncFrequency)]

Alone(n, i) == loops[n][i].sole /\ sync_peers[n] = <<>>

\* The only provider takes the token and uploads, and will tell nobody.
DecideAlone(n, i) ==
    /\ loops[n][i].phase = "asked" /\ Alone(n, i)
    /\ turn' = [turn EXCEPT ![n] = TRUE]
    /\ loops' = [loops EXCEPT ![n][i] = Uploading(<<>>)]
    /\ UNCHANGED <<joined, noted, registering, registered, leaving, mesh, count,
                   sync_peers, since, seize, checks, net, counters>>

\* The holder uploads; it will tell the mesh peers it has now.
DecideUpload(n, i) ==
    /\ loops[n][i].phase = "asked" /\ ~Alone(n, i) /\ Holds(n)
    /\ loops' = [loops EXCEPT ![n][i] = Uploading(mesh[n])]
    /\ UNCHANGED <<joined, noted, registering, registered, leaving, mesh, turn, count,
                   sync_peers, since, seize, checks, net, counters>>

\* update_data_image puts the new cid into cids, also when the application was
\* left meanwhile.
NoteImage(n, i) ==
    /\ loops[n][i].phase = "upload"
    /\ n \notin noted
    /\ noted' = noted \cup {n}
    /\ UNCHANGED <<joined, registering, registered, leaving, mesh, turn, count,
                   sync_peers, since, loops, seize, checks, net, counters>>

\* No SYNC for longer than one may take, and a while.
Overdue(n, while) == Elapsed(n) > SyncFrequency + WaitPeriod + while

\* monitor_synching: when the SYNC is overdue, one check for each place the
\* node has on the list, the later the further down.
DecideMonitor(n, i) ==
    LET places == {p \in DOMAIN sync_peers[n] : sync_peers[n][p] = n}
    IN  /\ loops[n][i].phase = "asked" /\ ~Alone(n, i) /\ ~Holds(n)
        /\ checks' = IF Overdue(n, 0)
                     THEN [checks EXCEPT ![n] = @ \cup {[left |-> p, place |-> p] : p \in places}]
                     ELSE checks
        /\ Rest(n, i)
        /\ UNCHANGED <<joined, noted, registering, registered, leaving, mesh, turn, count,
                       sync_peers, since, seize, net, counters>>

\* Faulty variant: the token is passed on one SYNC late.
PassesOnLate(sent) == sent = MaxUpdates

PassesOn(sent) == sent # 0 /\ sent + 1 = MaxUpdates

\* GossipSyncMsg: every SYNC counts, whatever happened to the token meanwhile;
\* the last one passes it on.
SendSync(n, i) ==
    LET peers == loops[n][i].peers
        sent == IF count[n] = None THEN 0 ELSE count[n]
    IN  /\ loops[n][i].phase = "upload"
        /\ \A p \in ToSet(peers) : Cardinality({m \in net : m.to = p}) < MaxInFlight
        /\ Rest(n, i)
        /\ IF peers = <<>>
           THEN UNCHANGED <<turn, count, since, net>>
           ELSE /\ net' = net \cup {SyncMsg(p, sent, peers) : p \in ToSet(peers)}
                /\ count' = [count EXCEPT ![n] = IF PassesOn(sent) THEN 0 ELSE sent + 1]
                /\ turn' = [turn EXCEPT ![n] = @ /\ ~PassesOn(sent)]
                /\ since' = IF PassesOn(sent) THEN [since EXCEPT ![n] = -HandOver] ELSE since
        /\ UNCHANGED <<joined, noted, registering, registered, leaving, mesh, sync_peers,
                       seize, checks, counters>>

-----------------------------------------------------------------------------
(* The checks                                                                 *)

TakeOver(n) ==
    \E check \in checks[n] :
        /\ check.left = 0
        /\ checks' = [checks EXCEPT ![n] = @ \ {check}]
        /\ turn' = [turn EXCEPT ![n] = @ \/ Overdue(n, check.place)]
        /\ UNCHANGED <<joined, noted, registering, registered, leaving, mesh, count,
                       sync_peers, since, loops, seize, net, counters>>

\* Faulty variant: a node that never received a SYNC counts as one that just did.
QuietOnceSynced(n) == since[n] # None /\ since[n] > SeizeAfter

Quiet(n) == since[n] = None \/ since[n] > SeizeAfter

\* Three minutes after joining: no SYNC in that time and none before.
Seize(n) ==
    /\ 0 \in seize[n]
    /\ seize' = [seize EXCEPT ![n] = @ \ {0}]
    /\ turn' = [turn EXCEPT ![n] = @ \/ (Quiet(n) /\ sync_peers[n] = <<>>)]
    /\ UNCHANGED <<joined, noted, registering, registered, leaving, mesh, count,
                   sync_peers, since, loops, checks, net, counters>>

-----------------------------------------------------------------------------
(* The network loop                                                           *)

\* A holder that has counted gives up to one that has counted as far.
ReceiveSync(m) ==
    LET n == m.to
        yield == Holds(n) /\ count[n] # None /\ count[n] <= m.update_count
    IN  /\ m \in net /\ m.type = "Sync" /\ n \notin leaving
        /\ net' = net \ {m}
        /\ turn' = [turn EXCEPT ![n] = @ /\ ~yield]
        /\ count' = IF yield THEN [count EXCEPT ![n] = 0] ELSE count
        /\ sync_peers' = [sync_peers EXCEPT ![n] = m.peers]
        /\ since' = [since EXCEPT ![n] = 0]
        /\ UNCHANGED <<joined, noted, registering, registered, leaving, mesh, loops, seize,
                       checks, counters>>

\* The peer that handed the news of a new one on comes into the mesh, again if
\* it is there already; one that leaves takes all others with it.
ReceiveAnnouncement(m) ==
    LET n == m.to
    IN  /\ m \in net /\ m.type # "Sync" /\ n \notin leaving
        /\ net' = net \ {m}
        /\ \E p \in (joined \cup leaving \cup {m.from}) \ {n} :
              mesh' = IF n \notin joined THEN mesh
                      ELSE [mesh EXCEPT ![n] = IF m.type = "Subscribe"
                                               THEN Append(@, p) ELSE <<>>]
        /\ UNCHANGED <<joined, noted, registering, registered, leaving, turn, count,
                       sync_peers, since, loops, seize, checks, counters>>

Lose(m) ==
    /\ m \in net
    /\ faults < MaxFaults
    /\ faults' = faults + 1
    /\ net' = net \ {m}
    /\ UNCHANGED <<joined, noted, registering, registered, leaving, mesh, turn, count,
                   sync_peers, since, loops, seize, checks, joins>>

-----------------------------------------------------------------------------
Less(t) == IF t = None \/ t = 0 THEN t ELSE t - 1

\* A task that is due gets its turn before the next unit of time is over.
Due(n) ==
    \/ \E i \in DOMAIN loops[n] : loops[n][i].timer = 0
    \/ 0 \in seize[n]
    \/ \E check \in checks[n] : check.left = 0

Tick ==
    /\ \A n \in Nodes : ~Due(n)
    /\ since' = [n \in Nodes |->
           IF since[n] \in {None, LongAgo} THEN since[n] ELSE since[n] + 1]
    /\ loops' = [n \in Nodes |-> [i \in DOMAIN loops[n] |->
           [loops[n][i] EXCEPT !.timer = Less(@)]]]
    /\ seize' = [n \in Nodes |-> {Less(t) : t \in seize[n]}]
    /\ checks' = [n \in Nodes |->
           {[check EXCEPT !.left = Less(@)] : check \in checks[n]}]
    /\ UNCHANGED <<joined, noted, registering, registered, leaving, mesh, turn, count,
                   sync_peers, net, counters>>

Init ==
    /\ joined = {} /\ noted = {} /\ registering = {} /\ registered = {} /\ leaving = {}
    /\ mesh = [n \in Nodes |-> <<>>]
    /\ turn = [n \in Nodes |-> FALSE]
    /\ count = [n \in Nodes |-> None]
    /\ sync_peers = [n \in Nodes |-> <<>>]
    /\ since = [n \in Nodes |-> None]
    /\ loops = [n \in Nodes |-> <<>>]
    /\ seize = [n \in Nodes |-> {}]
    /\ checks = [n \in Nodes |-> {}]
    /\ net = {}
    /\ joins = 0 /\ faults = 0

Next ==
    \/ \E n \in Nodes :
          \/ Join(n) \/ JoinFails(n) \/ Register(n) \/ LeaveBegin(n) \/ LeaveEnd(n) \/ Crash(n)
          \/ \E i \in DOMAIN loops[n] :
                \/ Wake(n, i)
                \/ DecideAlone(n, i) \/ DecideUpload(n, i) \/ DecideMonitor(n, i)
                \/ NoteImage(n, i) \/ SendSync(n, i)
          \/ TakeOver(n) \/ Seize(n)
    \/ \E m \in net : ReceiveSync(m) \/ ReceiveAnnouncement(m) \/ Lose(m)
    \/ Tick

Spec == Init /\ [][Next]_vars

-----------------------------------------------------------------------------
(* Properties                                                                 *)

TypeOK ==
    /\ joined \subseteq Nodes /\ noted \subseteq Nodes /\ registering \subseteq Nodes
    /\ registered \subseteq Nodes /\ leaving \subseteq Nodes
    /\ mesh \in [Nodes -> Seq(Nodes)]
    /\ turn \in [Nodes -> BOOLEAN]
    /\ count \in [Nodes -> 0 .. MaxUpdates - 1 \cup {None}]
    /\ sync_peers \in [Nodes -> Seq(Nodes)]
    /\ since \in [Nodes -> (-HandOver .. LongAgo) \cup {None}]
    /\ loops \in [Nodes -> Seq([phase : {"asleep", "asked", "upload"}, sole : BOOLEAN,
                                timer : Nat \cup {None}, peers : Seq(Nodes)])]
    /\ \A n \in Nodes : seize[n] \subseteq 0 .. SeizeAfter
    /\ \A n \in Nodes : checks[n] \subseteq [left : Nat, place : Nat]
    /\ net \subseteq Message

\* What a node that does not hold the token needs to take it some day.
CanTakeOver(n) ==
    \/ n \in ToSet(sync_peers[n])
    \/ \E m \in net : m.type = "Sync" /\ m.to = n
    \/ seize[n] # {} /\ since[n] = None
    \/ (registered \cup registering) \ leaving \subseteq {n} /\ sync_peers[n] = <<>>

\* Node n has sent SYNC messages, and has never received one.
OnlySent(n) == count[n] # None /\ sync_peers[n] = <<>>

\* Nodes that take part in the synchronization: those that joined, and those
\* that left where a loop has not noticed, and may never.
TakingPart == joined \cup {n \in Nodes : loops[n] # <<>>}

(* A node that takes part holds the token or will take it when it is missed,  *)
(* whatever it was sent, lost, passed on or yielded, however often it left    *)
(* and came back, and even if it left and an upload keeps it going.  The only *)
(* nodes that may wait for others for good are those that passed the token on *)
(* before a SYNC ever reached them: no check of theirs takes it back.         *)
HolderOrHeir ==
    \A n \in TakingPart :
        \/ Holds(n)
        \/ n \in ToSet(sync_peers[n])
        \/ seize[n] # {} /\ since[n] = None
        \/ OnlySent(n)

(* While the contract lists, and will list, only nodes that run the           *)
(* application, one of them holds the token or can take it, unless two of     *)
(* them only ever sent SYNC messages: a third node those went to may leave,   *)
(* and each of the two takes the other for the holder.                        *)
TokenKept ==
    (/\ joined # {}
     /\ registered \cup registering \subseteq joined \cup leaving
     /\ \A n, q \in joined : OnlySent(n) /\ OnlySent(q) => n = q)
        => \E n \in joined : Holds(n) \/ CanTakeOver(n)

(* README: "The token is failure-proof and can only be lost when all nodes    *)
(* are down."  As long as a node runs the application, there is one that      *)
(* holds the token or is in a position to take it.                            *)
TokenFailureProof ==
    joined # {} => \E n \in joined : Holds(n) \/ CanTakeOver(n)
=============================================================================
