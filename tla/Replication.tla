---------------------------- MODULE Replication ----------------------------
(* The nodes that replicate one application: every client command is applied  *)
(* to the local table and gossiped, and every gossiped change is merged by    *)
(* the network loop of the nodes it reaches.                                  *)
(*                                                                            *)
(* Nothing holds the table's lock across a whole operation.  A client task    *)
(* and the network loop each take a copy of the table, work the new table out *)
(* and take the lock again to put it back, so both are modelled as the two    *)
(* steps they are, with the table to be put back kept in "pending".           *)
(*                                                                            *)
(* Clocks are those of the machines (whole seconds since the epoch), assumed  *)
(* to differ by MaxSkew at most.  The network delivers a gossiped message to  *)
(* a subscriber any number of times, in any order, or never.  Commands that   *)
(* the code refuses change nothing and have no action.  Nodes are past their  *)
(* initialization phase: the cache that takes writes during it is the         *)
(* business of module NodeStore, and the flag a change raises for the next    *)
(* upload that of module DataImage.                                           *)
(*                                                                            *)
(* A message is a text: its nine fields joined by a separator, split again by *)
(* the receiver at every separator.  Nothing keeps the separator out of the   *)
(* keys and values clients write, and each one in them moves the fields that  *)
(* follow by one place.                                                       *)
EXTENDS AppStore

CONSTANTS
    Nodes,          \* database nodes
    Clients,        \* concurrent client commands a node may be running
    Values,         \* values clients write
    App,            \* the DID of the application, an owner like the others
    Separators,     \* how often the separator is in the text of a key or a value;
                    \* a text that ends in half of one counts as five
    TextTimes,      \* the times that a piece of a client's text may be read as
    MetadataPeers,  \* MetadataPeers[n]: peers that get IGIVE from n beside gossip
    MaxSkew,        \* bound on the difference of two machines' clocks
    MaxClock,       \* bound on the clocks
    MaxOps          \* bound on the number of client commands

ASSUME AppAssumption  == App \in Owners
ASSUME TextAssumption ==
    Separators \in [Keys \cup Values -> Nat] /\ TextTimes \subseteq Nat
ASSUME PeersAssumption == MetadataPeers \in [Nodes -> SUBSET Nodes]
ASSUME BoundsAssumption == MaxSkew \in Nat /\ MaxClock \in Nat /\ MaxOps \in Nat

\* A value with the time at which its writer asked for it: the time that is
\* gossiped with it.  The code keeps no such time beside the value; only the
\* properties read it.
Payloads == [val : Values, at : Nat]
Table    == Tables(Payloads)

WriteMsg    == [type : {"Write"}, from : Nodes, owner : Owners, key : Keys,
                data : Payloads, write_time : Nat]
DeleteMsg   == [type : {"Delete"}, from : Nodes, owner : Owners, key : Keys,
                write_time : Nat]
TruncateMsg == [type : {"Truncate"}, from : Nodes, owner : Owners, write_time : Nat]
AccessMsg   == [type : {"Access"}, from : Nodes, owner : Owners, perm : BOOLEAN,
                write_time : Nat]
Msg == WriteMsg \cup DeleteMsg \cup TruncateMsg \cup AccessMsg

-----------------------------------------------------------------------------
(* The text of a message.  Its fields are, from 0: the kind of message, the   *)
(* application, the key (of an access change the permission), the value, the  *)
(* owner, the time, the address and the id of the sender, the type of write.  *)
(* The receiver reads them by their places.                                   *)

\* Faulty variants: the owner and the time change places; the type of write
\* comes before the sender's address and id.
TimeFieldSwapped    == 4
WriteTypeFieldFirst == 6

TimeField      == 5
WriteTypeField == 8

\* How many places the fields after the client's text are moved.
Shift(m) ==
    CASE m.type = "Write"  -> Separators[m.key] + Separators[m.data.val]
      [] m.type = "Delete" -> Separators[m.key]
      [] OTHER             -> 0

\* The last place that holds a piece of the client's text.
LastText(m) == Shift(m) + IF m.type = "Write" THEN 3 ELSE 2

\* The times that may be read: a field that is no number counts as zero.
ReadTimes(m) == IF LastText(m) < TimeField THEN {0} ELSE {0} \cup TextTimes

\* Zero is also the type of an access change, and the owner's DID, the time, the
\* address and the id of the sender are no types of write.
AccessReadings(m) ==
    [type : {"Access"}, from : {m.from}, owner : Owners, perm : BOOLEAN,
     write_time : ReadTimes(m)]

\* A text that is long enough is read as whatever change it spells.  (A type of
\* write that is none is a panic in the handler and left out.)
WriteReadings(m) ==
    [type : {"Write"}, from : {m.from}, owner : Owners, key : Keys,
     data : [val : Values, at : {m.write_time}], write_time : ReadTimes(m)]

DeleteReadings(m) ==
    [type : {"Delete"}, from : {m.from}, owner : Owners, key : Keys,
     write_time : ReadTimes(m)]

TruncateReadings(m) ==
    [type : {"Truncate"}, from : {m.from}, owner : Owners, write_time : ReadTimes(m)]

\* What the receivers may read when m is sent.
Readings(m) ==
    IF Shift(m) = 0 THEN {m}
    ELSE IF LastText(m) < WriteTypeField
    THEN AccessReadings(m)
    ELSE UNION {AccessReadings(m), WriteReadings(m), DeleteReadings(m),
                TruncateReadings(m)}

-----------------------------------------------------------------------------
VARIABLES
    clock,       \* clock[n]: the clock of n's machine
    apps,        \* apps[n]: n's table of the application, None before there is one
    subscribed,  \* subscribed[n]: n is subscribed to the application's topic
    task,        \* task[n][c]: what client command c of n is doing, or None
    loop,        \* loop[n]: the message n's network loop is merging, or None
    net,         \* messages published to the topic so far, as they are read
    igive,       \* <<n, m>>: message m on its way to n in an IGIVE request
    seen,        \* seen[n]: message ids n's loop has handled from the topic
    requests,    \* history: the changes clients have asked for
    ops          \* number of client commands so far

vars == <<clock, apps, subscribed, task, loop, net, igive, seen, requests, ops>>

Phases == {"read", "commit", "flag", "gossip", "subscribe"}

Task == [msg : Msg \cup {None},      \* the message to gossip in the end
         pending : Table \cup {None},\* the table to put back
         phase : Phases,
         stale : BOOLEAN]            \* history: another task wrote the table meanwhile

Merging == [msg : Msg,
            pending : Table \cup {None},
            topic : BOOLEAN,         \* it came from the topic, not in an IGIVE
            stale : BOOLEAN]

ASSUME NoneAssumption ==
    /\ None \notin Units(Payloads) /\ None \notin Entries(Payloads)
    /\ None \notin Table /\ None \notin Msg
    /\ None \notin Task /\ None \notin Merging

\* The hashtable of an application that has no image yet: one entry, its own.
FreshTable == [EmptyTable EXCEPT ![App] = NewEntry(EmptyData)]

\* Reading the table of an application that is not there gives an empty one.
Lookup(n) == IF apps[n] = None THEN EmptyTable ELSE apps[n]

-----------------------------------------------------------------------------
(* Steps of client commands                                                   *)

Idle(n, c) == task[n][c] = None

\* A command takes its turn; the bound on commands counts it.
Begin(n, c, t) ==
    /\ Idle(n, c)
    /\ ops < MaxOps
    /\ ops' = ops + 1
    /\ task' = [task EXCEPT ![n][c] = t]

\* Every other task of n that holds a copy of the table now holds an old one.
OutdatedTasks(n) ==
    [c \in Clients |->
        IF task[n][c] = None THEN None ELSE [task[n][c] EXCEPT !.stale = TRUE]]

OutdatedLoop(n) ==
    IF loop[n] = None THEN None ELSE [loop[n] EXCEPT !.stale = TRUE]

\* init: the application is new on the contract, its first hashtable goes to
\* memory (over whatever was there) and the network loop is asked to subscribe.
InitApplication(n, c) ==
    /\ Idle(n, c)
    /\ ops < MaxOps
    /\ ops' = ops + 1
    /\ apps' = [apps EXCEPT ![n] = FreshTable]
    /\ task' = [task EXCEPT ![n] =
           [OutdatedTasks(n) EXCEPT ![c] =
               [msg |-> None, pending |-> None, phase |-> "subscribe", stale |-> FALSE]]]
    /\ loop' = [loop EXCEPT ![n] = OutdatedLoop(n)]
    /\ UNCHANGED <<clock, subscribed, net, igive, seen, requests>>

Subscribe(n, c) ==
    /\ task[n][c] # None /\ task[n][c].phase = "subscribe"
    /\ loop[n] = None
    /\ subscribed' = [subscribed EXCEPT ![n] = TRUE]
    /\ task' = [task EXCEPT ![n][c] = None]
    /\ UNCHANGED <<clock, apps, loop, net, igive, seen, requests, ops>>

\* set: the time the peers will compare is taken here, before the table is read.
SetRequest(n, c, o, k, v) ==
    LET payload == [val |-> v, at |-> clock[n]]
    IN  /\ apps[n] # None
        /\ Begin(n, c,
               [msg |-> [type |-> "Write", from |-> n, owner |-> o, key |-> k,
                         data |-> payload, write_time |-> clock[n]],
                pending |-> None, phase |-> "read", stale |-> FALSE])
        /\ requests' = requests \cup
               {[type |-> "Write", owner |-> o, key |-> k, data |-> payload]}
        /\ UNCHANGED <<clock, apps, subscribed, loop, net, igive, seen>>

\* Faulty variant: the user's DID is dropped and the application owns the value.
SetReadForApp(n, c) ==
    LET t == task[n][c]
        m == t.msg
    IN  /\ t # None /\ t.phase = "read"
        /\ task' = [task EXCEPT ![n][c] =
               [t EXCEPT !.pending = Put(Lookup(n), App, m.key, m.data, clock[n]),
                         !.phase = "commit"]]
        /\ UNCHANGED <<clock, apps, subscribed, loop, net, igive, seen, requests, ops>>

SetRead(n, c) ==
    LET t == task[n][c]
        m == t.msg
    IN  /\ t # None /\ t.phase = "read"
        /\ task' = [task EXCEPT ![n][c] =
               [t EXCEPT !.pending = Put(Lookup(n), m.owner, m.key, m.data, clock[n]),
                         !.phase = "commit"]]
        /\ UNCHANGED <<clock, apps, subscribed, loop, net, igive, seen, requests, ops>>

\* del, truncate and an access change have no step before the one that reads
\* the table and works the new one out.  The times they gossip are only taken
\* when the message is built.
Change(n, c, m, table) ==
    /\ Begin(n, c, [msg |-> m, pending |-> table, phase |-> "commit", stale |-> FALSE])
    /\ UNCHANGED <<clock, apps, subscribed, loop, net, igive, seen>>

DelRead(n, c, o, k) ==
    /\ Readable(Lookup(n), o) /\ Has(Lookup(n), o, k)
    /\ Change(n, c,
           [type |-> "Delete", from |-> n, owner |-> o, key |-> k, write_time |-> 0],
           WithoutKey(Lookup(n), o, k))
    /\ UNCHANGED requests

TruncateRead(n, c, o) ==
    /\ Readable(Lookup(n), o)
    /\ Change(n, c,
           [type |-> "Truncate", from |-> n, owner |-> o, write_time |-> 0],
           WithoutData(Lookup(n), o))
    /\ UNCHANGED requests

AccessRead(n, c, o, perm) ==
    /\ Lookup(n)[o] # None
    /\ Change(n, c,
           [type |-> "Access", from |-> n, owner |-> o, perm |-> perm, write_time |-> 0],
           WithAccess(Lookup(n), o, perm, clock[n]))
    /\ requests' = requests \cup {[type |-> "Access", owner |-> o, perm |-> perm]}

\* The new table is put back, over whatever was written since the copy was taken.
Commit(n, c) ==
    LET t == task[n][c]
    IN  /\ t # None /\ t.phase = "commit"
        /\ apps' = [apps EXCEPT ![n] = t.pending]
        /\ task' = [task EXCEPT ![n] =
               [OutdatedTasks(n) EXCEPT ![c] =
                   [t EXCEPT !.pending = None, !.phase = "flag"]]]
        /\ loop' = [loop EXCEPT ![n] = OutdatedLoop(n)]
        /\ UNCHANGED <<clock, subscribed, net, igive, seen, requests, ops>>

\* The network loop, between two messages of its own, takes the channel message
\* that raises the flag for the next upload; the task then builds the message to
\* gossip, and a write is the only one whose time was taken before.
Flag(n, c) ==
    LET t == task[n][c]
        stamp == IF t.msg.type = "Write" THEN t.msg.write_time ELSE clock[n]
    IN  /\ t # None /\ t.phase = "flag"
        /\ loop[n] = None
        /\ task' = [task EXCEPT ![n][c] =
               [t EXCEPT !.msg = [t.msg EXCEPT !.write_time = stamp],
                         !.phase = "gossip"]]
        /\ UNCHANGED <<clock, apps, subscribed, loop, net, igive, seen, requests, ops>>

Publish(n, m) ==
    /\ net' = net \cup {m}
    /\ igive' = igive \cup (MetadataPeers[n] \X {m})

Gossip(n, c) ==
    /\ task[n][c] # None /\ task[n][c].phase = "gossip"
    /\ loop[n] = None
    /\ \E m \in Readings(task[n][c].msg) : Publish(n, m)
    /\ task' = [task EXCEPT ![n][c] = None]
    /\ UNCHANGED <<clock, apps, subscribed, loop, seen, requests, ops>>

-----------------------------------------------------------------------------
(* Steps of the network loop                                                  *)

\* handle_gossiped_data up to the point where it has the new table: an
\* application that is not there is created, empty.
StartMerge(n, m, topic) ==
    /\ apps' = [apps EXCEPT ![n] = Lookup(n)]
    /\ loop' = [loop EXCEPT ![n] =
           [msg |-> m, pending |-> Merge(Lookup(n), m, clock[n]),
            topic |-> topic, stale |-> FALSE]]
    /\ UNCHANGED <<clock, subscribed, task, net, seen, requests, ops>>

\* Only what comes from the topic is checked: the application is there, the
\* message is a peer's and has not been handled before.
ReceiveGossip(n, m) ==
    /\ loop[n] = None
    /\ m \in net /\ m.from # n /\ subscribed[n]
    /\ apps[n] # None
    /\ m \notin seen[n]
    /\ StartMerge(n, m, TRUE)
    /\ UNCHANGED igive

ReceiveIGive(n, m) ==
    /\ loop[n] = None
    /\ <<n, m>> \in igive
    /\ igive' = igive \ {<<n, m>>}
    /\ StartMerge(n, m, FALSE)

FinishMerge(n) ==
    LET h == loop[n]
    IN  /\ h # None
        /\ loop' = [loop EXCEPT ![n] = None]
        /\ seen' = IF h.topic THEN [seen EXCEPT ![n] = @ \cup {h.msg}] ELSE seen
        /\ IF h.pending = None
           THEN UNCHANGED <<apps, task>>
           ELSE /\ apps' = [apps EXCEPT ![n] = h.pending]
                /\ task' = [task EXCEPT ![n] = OutdatedTasks(n)]
        /\ UNCHANGED <<clock, subscribed, net, igive, requests, ops>>

-----------------------------------------------------------------------------
Tick(n) ==
    /\ clock[n] < MaxClock
    /\ \A p \in Nodes : clock[n] + 1 <= clock[p] + MaxSkew \/ p = n
    /\ clock' = [clock EXCEPT ![n] = @ + 1]
    /\ UNCHANGED <<apps, subscribed, task, loop, net, igive, seen, requests, ops>>

Init ==
    /\ clock = [n \in Nodes |-> 1]
    /\ apps = [n \in Nodes |-> None]
    /\ subscribed = [n \in Nodes |-> FALSE]
    /\ task = [n \in Nodes |-> [c \in Clients |-> None]]
    /\ loop = [n \in Nodes |-> None]
    /\ net = {}
    /\ igive = {}
    /\ seen = [n \in Nodes |-> {}]
    /\ requests = {}
    /\ ops = 0

ClientStep(n, c) ==
    \/ InitApplication(n, c)
    \/ Subscribe(n, c)
    \/ \E o \in Owners, k \in Keys, v \in Values : SetRequest(n, c, o, k, v)
    \/ SetRead(n, c)
    \/ \E o \in Owners, k \in Keys : DelRead(n, c, o, k)
    \/ \E o \in Owners : TruncateRead(n, c, o)
    \/ \E o \in Owners, perm \in BOOLEAN : AccessRead(n, c, o, perm)
    \/ Commit(n, c)
    \/ Flag(n, c)
    \/ Gossip(n, c)

LoopStep(n) ==
    \/ \E m \in net : ReceiveGossip(n, m)
    \/ \E m \in net : ReceiveIGive(n, m)
    \/ FinishMerge(n)

Next ==
    \E n \in Nodes :
        \/ \E c \in Clients : ClientStep(n, c)
        \/ LoopStep(n)
        \/ Tick(n)

Spec == Init /\ [][Next]_vars

-----------------------------------------------------------------------------
(* Properties                                                                 *)

\* P holds of every table there is: those in memory and those that are on
\* their way there, in a client task or in the network loop.
EveryTable(P(_)) ==
    \A n \in Nodes :
        /\ apps[n] # None => P(apps[n])
        /\ (loop[n] # None /\ loop[n].pending # None) => P(loop[n].pending)
        /\ \A c \in Clients :
              (task[n][c] # None /\ task[n][c].pending # None) => P(task[n][c].pending)

TypeOK ==
    /\ clock \in [Nodes -> Nat]
    /\ apps \in [Nodes -> Table \cup {None}]
    /\ subscribed \in [Nodes -> BOOLEAN]
    /\ task \in [Nodes -> [Clients -> Task \cup {None}]]
    /\ loop \in [Nodes -> Merging \cup {None}]
    /\ net \subseteq Msg
    /\ igive \subseteq Nodes \X Msg
    /\ seen \in [Nodes -> SUBSET Msg]
    /\ requests \subseteq [type : {"Write"}, owner : Owners, key : Keys, data : Payloads]
                  \cup [type : {"Access"}, owner : Owners, perm : BOOLEAN]
    /\ ops \in Nat

\* Nobody has written a key and a value with j separators or more.
Below(j) ==
    \A r \in requests :
        r.type = "Write" => Separators[r.key] + Separators[r.data.val] < j

(* A value is only ever found, in a table or on its way to one, under the     *)
(* owner and the key it was set for: no path of set_db_value, of the message  *)
(* and of handle_gossiped_data mixes owners, keys or values up.  Five         *)
(* separators in a key and its value are what it takes to make the receivers  *)
(* read another write than the one that was sent; with fewer it is lost.      *)
Asked(table) ==
    \A o \in Owners, k \in Keys : Has(table, o, k) =>
        [type |-> "Write", owner |-> o, key |-> k, data |-> table[o].data[k].data]
            \in requests

Provenance == Below(5) => EveryTable(Asked)

(* The stamp a node keeps with a value is never older than the write it holds *)
(* by more than the clocks differ: DataMap::insert may stamp with the local   *)
(* clock because a local stamp covers the time the writer gossiped.           *)
Stamped(table) ==
    \A o \in Owners, k \in Keys : Has(table, o, k) =>
        table[o].data[k].write_time + MaxSkew >= table[o].data[k].data.at

StampCoversOrigin == EveryTable(Stamped)

(* A node denies access to an owner's data only after someone asked for that  *)
(* (manage_db_access, here or at the peer the change was gossiped by), unless *)
(* a key and its value had two separators: with one, the write is read as an  *)
(* access change of time zero, which no entry takes.                          *)
DenialAsked(table) ==
    \A o \in Owners : (table[o] # None /\ ~table[o].access) =>
        [type |-> "Access", owner |-> o, perm |-> FALSE] \in requests

DeniedOnlyByRequest == Below(2) => EveryTable(DenialAsked)

\* The step puts a table back that was worked out from an overwritten copy, or
\* by a command whose time was taken before another write.
StaleStep(n) ==
    \/ \E c \in Clients :
          /\ task[n][c] # None /\ task[n][c].phase = "commit" /\ task[n][c].stale
          /\ task'[n][c] # None /\ task'[n][c].phase = "flag"
    \/ loop[n] # None /\ loop[n].stale /\ loop'[n] = None

NotOlder(before, after) ==
    \A o \in Owners, k \in Keys :
        (Has(before, o, k) /\ Has(after, o, k)) =>
            after[o].data[k].data.at + MaxSkew >= before[o].data[k].data.at

(* A node replaces a value by an older write, older by more than the clocks   *)
(* differ, only when two of its tasks overlapped: comparing the gossiped time *)
(* with a local stamp is enough to keep old writes out, as long as the time   *)
(* that is read is the one that was sent.                                     *)
OlderOnlyByOverlap ==
    [][\A n \in Nodes :
         (apps[n] # None /\ apps'[n] # None /\ ~StaleStep(n) /\ Below(5))
             => NotOlder(apps[n], apps'[n])]_vars

(* Merging a gossiped change replaces or removes a unit of the owner it is    *)
(* about only when the change is newer than the write the unit holds: a late  *)
(* delete, truncate or write takes nothing newer away.                        *)
MergedChangeIsNewer ==
    [][\A n \in Nodes : \A k \in Keys :
         (/\ loop[n] # None /\ loop'[n] = None /\ ~loop[n].stale
          /\ apps[n] # None /\ Has(apps[n], loop[n].msg.owner, k)
          /\ apps'[n][loop[n].msg.owner].data[k] # apps[n][loop[n].msg.owner].data[k])
             => loop[n].msg.write_time + MaxSkew
                    > apps[n][loop[n].msg.owner].data[k].data.at]_vars

\* Every command has finished and every subscriber has handled every message
\* of its peers.
Quiescent ==
    /\ \A n \in Nodes : loop[n] = None /\ \A c \in Clients : task[n][c] = None
    /\ \A n \in Nodes : subscribed[n] => {m \in net : m.from # n} \subseteq seen[n]
    /\ igive = {}

Contents(n) ==
    [o \in Owners |-> [k \in Keys |->
        IF Has(apps[n], o, k) THEN apps[n][o].data[k].data.val ELSE None]]

(* README: "an eventual consistency model, where consistency is based on      *)
(* timestamps".  When everything published has been handled everywhere, the   *)
(* subscribed nodes hold the same values.                                     *)
ReplicasAgree ==
    Quiescent => \A n, p \in Nodes :
        (subscribed[n] /\ subscribed[p]) => Contents(n) = Contents(p)

(* handle_gossiped_data "tries to add it to our local state": merging a       *)
(* change of one owner leaves the entries of the other owners as they are.    *)
MergeKeepsOthers ==
    [][\A n \in Nodes :
         (/\ loop[n] # None /\ loop'[n] = None /\ ~loop[n].stale
          /\ apps[n] # None)
             => \A o \in Owners \ {loop[n].msg.owner} : apps'[n][o] = apps[n][o]]_vars
=============================================================================
