---------------------------- MODULE NetworkLoop ----------------------------
(* The tasks of one node that runs one application, and what they wait for:   *)
(* the locks around the shared state (async_std RwLock) and the channel to    *)
(* the network loop (a futures mpsc channel of capacity 0).                   *)
(*                                                                            *)
(* A task is the list of instructions it still has to execute; the lists are  *)
(* the bodies of the code with everything but waiting and the few effects     *)
(* that decide about waiting left out.  Calls of the contract and of IPFS,    *)
(* sleeping and computing are delays, which any instruction may have.         *)
(*                                                                            *)
(* A lock has readers or one writer.  A writer that finds readers keeps new   *)
(* ones out until it has had its turn.  A guard that is a temporary of a      *)
(* statement is let go with it: peek and touch take and let go at once.  Of   *)
(* two that follow each other on one lock, with nothing held or changed in    *)
(* between, the one that waits for more stands for both.                      *)
(* A message is sent when the loop, at its select!, takes it: until then the  *)
(* sender waits, with the guards it has.                                      *)
EXTENDS Naturals, Sequences

CONSTANTS
    Clients,   \* tasks that run commands: CLI, HTTP server, access monitor, delayed checks
    Commands,  \* commands they are given
    Events,    \* events of the swarm that come
    None,      \* no writer, no mesh
    D,         \* desired number of full-message peers of an application: 6
    DLow,      \* lower bound of that number: 4
    DHigh,     \* upper bound: 12
    MaxMesh    \* bound on the number of full-message peers

ASSUME DegreesAssumption ==
    /\ D \in Nat \ {0} /\ DLow \in 1 .. D /\ DHigh \in Nat /\ DHigh >= D
    /\ MaxMesh \in Nat /\ MaxMesh > DHigh

Locks == {"db", "ipfs", "gossip"}
Tasks == {"loop", "sync", "beat"} \cup Clients

ASSUME WorkAssumption ==
    /\ Commands \subseteq {"mutate", "query", "init", "leave", "info", "config",
                            "take over", "seize"}
    /\ Events \subseteq {"Data", "Newcomer", "Leaver", "Config", "Graft", "Prune",
                          "IGiveData", "IGiveConfig", "Sync"}

ASSUME TasksAssumption ==
    /\ Clients \cap {"loop", "sync", "beat"} = {}
    /\ None \notin Tasks /\ None \notin Nat

VARIABLES
    todo,     \* todo[t]: the instructions task t has still to execute
    readers,  \* readers[l]: tasks that hold a guard of l for reading
    writer,   \* writer[l]: the task that writes or is the next to write, or None
    node      \* what instructions change and decide upon: joined, cids has the
              \* application; tasks, the background tasks that exist, "beat" unless
              \* it has panicked, "sync" from the subscription on; mesh, the number
              \* of the application's full-message peers (None: no entry)

vars == <<todo, readers, writer, node>>

-----------------------------------------------------------------------------
(* Instructions.  "then" says how the task goes on once the lock is taken, or *)
(* "next".                                                                    *)

Instr(op, lock, arg, then) == [op |-> op, lock |-> lock, arg |-> arg, then |-> then]

\* Take for reading, look, let go.
Look(l, b)   == Instr("peek", l, "nothing", b)
Peek(l)      == Look(l, "next")
\* Take for writing, change, let go.
Change(l, e) == Instr("touch", l, e, "next")
Touch(l)     == Change(l, "nothing")
\* Take and keep.
Read(l, b)   == Instr("read", l, "nothing", b)
Write(l, b)  == Instr("write", l, "nothing", b)
Drop(l)      == Instr("drop", l, "", "next")
\* To the network loop, and its answer.
Send(m)      == Instr("send", "", m, "next")
Await        == Instr("await", "", "", "next")
Answer(t)    == Instr("answer", "", t, "next")

-----------------------------------------------------------------------------
(* manage_data_synchronization and what it calls                              *)

SyncPass == <<Look("ipfs", "subscribed")>>

\* The mesh peers to tell are copied; the guard lives until the task has slept.
SyncBody == <<Read("gossip", "next"), Look("ipfs", "alone")>>

UpdateDataImage == <<Look("ipfs", "modified")>>

\* The table with the new addresses goes back to memory, then the table is held
\* for reading until the address of the image is known and saved.
NewImage ==
    <<Touch("db"), Peek("ipfs"), Read("db", "next"), Change("ipfs", "join"), Drop("db")>>

SameImage == <<Read("db", "next"), Peek("ipfs"), Drop("db")>>

SyncAlone == <<Touch("ipfs")>> \o UpdateDataImage \o <<Drop("gossip")>>

SyncOthers == <<Write("ipfs", "turn")>>

\* Faulty variant: the lock is not let go for the update.
SyncHolderNested ==
    UpdateDataImage \o <<Write("ipfs", "peers"), Drop("ipfs"), Drop("gossip")>>

\* The lock is let go for the update and taken again before the peers are told.
SyncHolder ==
    <<Drop("ipfs")>> \o UpdateDataImage \o
    <<Write("ipfs", "peers"), Drop("ipfs"), Drop("gossip")>>

SyncMonitor == <<Drop("ipfs"), Peek("ipfs"), Drop("gossip")>>

-----------------------------------------------------------------------------
(* handle_gossip_heartbeat.  Numbers of peers are unsigned: a subtraction     *)
(* below zero panics in a checked build and wraps around in a release build.  *)

Heartbeat == <<Look("gossip", "mesh")>>

Beat(reckoning) == <<Read("gossip", reckoning), Drop("gossip")>>

\* If there is a metadata peer to graft, the mesh is taken for writing while it is
\* still held for reading.
Graft == <<Write("gossip", "next"), Drop("gossip")>>

Panic == <<Instr("end", "", "", "next")>>

\* Popping peers from a count that has wrapped around goes on for 2^64 turns.
Spin == <<Instr("spin", "", "", "next")>>

\* Where the number of mesh peers is, seen by "d - len" in unsigned numbers.
Reckoning ==
    CASE node.mesh < DLow                      -> "graft"
      [] node.mesh = DLow /\ node.mesh < D      -> "none left"
      [] node.mesh > DLow /\ node.mesh < D      -> "below zero"
      [] node.mesh \in D .. DHigh               -> "next"
      [] node.mesh > DHigh                     -> "prune"

-----------------------------------------------------------------------------
(* The network loop: messages of the channel ...                              *)

\* handle_gossiped_data: a copy is taken, and put back.
MergeData == <<Touch("db")>>

\* publish_msg and gossip_msg look the metadata peers up.
PublishMsg == <<Peek("gossip")>>

\* Looking for peers, then starting the tasks of the application.
LookForPeers == <<Touch("gossip"), Peek("ipfs"), Instr("peek", "gossip", "spawn", "next")>>

\* The topic may be refused, and the table is removed again.
Subscribe ==
    LookForPeers \o
    <<Change("gossip", "fill")>>

OnSubscribe(t) ==
    {<<Change("ipfs", "join")>> \o rest \o <<Answer(t)>> : rest \in {Subscribe, <<Touch("db")>>}}

OnUnsubscribe(t) ==
    {<<Change("ipfs", "leave"), Change("gossip", "empty"), Answer(t)>>}

OnDBInfo == {<<Peek("ipfs"), Read("gossip", "next"), Peek("ipfs"), Drop("gossip")>>}

OnChangePinningServer(t) == {<<Look("ipfs", "pinning"), Answer(t)>>}

OnMessage(m, t) ==
    CASE m = "subscribe"   -> OnSubscribe(t)
      [] m = "unsubscribe" -> OnUnsubscribe(t)
      [] m = "flag"        -> {<<Touch("ipfs")>>}
      [] m = "gossip"      -> {PublishMsg}
      [] m = "sync"        -> {<<Touch("ipfs")>>}
      [] m = "info"        -> OnDBInfo
      [] m = "pinning"     -> OnChangePinningServer(t)

(* ... and events of the swarm.  The others take no lock.                     *)

\* Those of the application's topic.
TopicEvents == {"Data", "Newcomer", "Leaver", "Config"}
OnTopicEvent(e) ==
    CASE e = "Data"        -> <<Look("db", "data")>>
      [] e = "Newcomer"    -> <<Look("db", "newcomer")>>
      [] e = "Leaver"      -> <<Look("db", "leaver")>>
      [] e = "Config"      -> <<Write("ipfs", "next"), Peek("gossip"), Drop("ipfs")>>

\* Those that peers send to this node alone.
OnRequest(e) ==
    CASE e = "Graft"       -> <<Change("gossip", "graft")>>
      [] e = "Prune"       -> <<Peek("gossip")>>
      [] e = "IGiveData"   -> <<Touch("ipfs")>> \o MergeData
      [] e = "IGiveConfig" -> <<Touch("ipfs")>>
      [] e = "Sync"        -> <<Look("ipfs", "yield"), Touch("ipfs")>>

OnEvent(e) == IF e \in TopicEvents THEN OnTopicEvent(e) ELSE OnRequest(e)

-----------------------------------------------------------------------------
(* Client commands                                                            *)

\* Faulty variant: the table is still held for writing when the loop is told.
MutateHoldingTable ==
    <<Write("db", "next"), Send("flag"), Send("gossip"), Drop("db")>>

\* set, del, truncate and access, and what the access monitor does with them:
\* a copy is put back, and the loop is told.
Mutate == <<Touch("db"), Send("flag"), Send("gossip")>>

\* The delayed tasks that may make this node the one to upload: the takeover of
\* monitor_synching, and the check three minutes after the subscription.
TakeOver  == <<Touch("ipfs")>>
SeizeTurn == <<Look("ipfs", "seize")>>

\* The cache is looked at, then the table.
Query == <<Peek("db")>>

\* The guard under which the table was added is gone before the loop is told.
InitApplication ==
    <<Touch("db"), Send("subscribe"), Await, Touch("db")>>

ForgetApplication == <<Touch("db"), Send("unsubscribe"), Await>>

GetDbInfo == <<Send("info")>>

ChangeDbCfg == <<Send("pinning"), Await>>

Command(c) ==
    CASE c = "mutate" -> Mutate
      [] c = "query"  -> Query
      [] c = "init"   -> InitApplication
      [] c = "leave"  -> ForgetApplication
      [] c = "info"   -> GetDbInfo
      [] c = "config" -> ChangeDbCfg
      [] c = "take over" -> TakeOver
      [] c = "seize"  -> SeizeTurn

-----------------------------------------------------------------------------
(* What instructions decide, and what they change                             *)

\* How a task may go on.  Answers of the contract, of a peer, of IPFS and of the
\* table, and whose turn it is to upload, are chosen freely.
Continuations(b) ==
    CASE b = "next"       -> {<<>>}
      [] b = "subscribed" -> {IF node.joined THEN SyncBody ELSE Panic}
      [] b = "alone"      -> {SyncAlone, SyncOthers}
      [] b = "turn"       -> {SyncHolder, SyncMonitor}
      [] b = "peers"      -> {IF node.mesh \in {None, 0} THEN <<>> ELSE <<Send("sync")>>}
      [] b = "modified"   -> {<<>>, <<Look("db", "entries"), Touch("ipfs")>>}
      [] b = "entries"    -> {<<>>, NewImage, SameImage}
      [] b = "seize"      -> {<<>>, TakeOver}
      [] b = "mesh"       -> {IF node.mesh = None THEN <<>> ELSE Beat(Reckoning)}
      [] b = "graft"      -> {<<>>, Graft}
      [] b = "none left"  -> {<<>>, Graft, Panic}
      [] b = "below zero" -> {<<>>, Graft, Panic}
      [] b = "prune"      -> {Spin, Panic}
      [] b = "pinning"    -> {IF node.joined THEN <<Touch("ipfs"), Peek("gossip")>> ELSE <<>>}
      [] b = "data"       -> {<<>>, <<Touch("gossip")>>,
                              <<Touch("ipfs")>> \o MergeData \o PublishMsg}
      [] b = "newcomer"   -> {<<Touch("gossip")>>, <<Peek("ipfs"), Change("gossip", "newcomer")>>}
      [] b = "leaver"     -> {<<>>, <<Peek("ipfs"), Change("gossip", "leaver")>>}
      [] b = "yield"      -> {<<>>, <<Touch("ipfs")>>}

\* Faulty variant: added under both of its addresses.
GraftedTwice == IF node.mesh = None THEN node ELSE [node EXCEPT !.mesh = @ + 2]

\* A peer that asks for it, and is no mesh peer yet, is added to the mesh there is.
Grafted == IF node.mesh = None THEN node ELSE [node EXCEPT !.mesh = @ + 1]

\* What a change under a lock may make of the node.
Changed(e) ==
    CASE e = "nothing"  -> {node}
      [] e = "join"     -> {[node EXCEPT !.joined = TRUE]}
      [] e = "leave"    -> {[node EXCEPT !.joined = FALSE]}
      [] e = "spawn"    -> {[node EXCEPT !.tasks = @ \cup {"sync"}]}
      [] e = "fill"     -> {[node EXCEPT !.mesh = k] : k \in 0 .. D}
      [] e = "empty"    -> {[node EXCEPT !.mesh = None]}
      [] e = "graft"    -> {node, Grafted}
      [] e = "newcomer" -> {[node EXCEPT !.mesh = IF @ = None THEN 1 ELSE @ + 1]}
      [] e = "leaver"   -> {[node EXCEPT !.mesh = None]}

-----------------------------------------------------------------------------
(* Executing an instruction                                                   *)

Current(t) == Head(todo[t])
At(t, ops) == todo[t] # <<>> /\ Current(t).op \in ops

GoOn(t) ==
    \E list \in Continuations(Current(t).then) : todo' = [todo EXCEPT ![t] = list \o Tail(@)]

\* A reader comes in unless there is a writer, be it one that waits.
TakeRead(t) ==
    LET l == Current(t).lock
        keep == IF Current(t).op = "read" THEN {t} ELSE {}
    IN  /\ At(t, {"peek", "read"})
        /\ writer[l] = None
        /\ readers' = [readers EXCEPT ![l] = @ \cup keep]
        /\ node' \in Changed(Current(t).arg)
        /\ GoOn(t)
        /\ UNCHANGED writer

\* A writer that has to wait for readers.
ClaimWrite(t) ==
    LET l == Current(t).lock
    IN  /\ At(t, {"touch", "write"})
        /\ writer[l] = None /\ readers[l] # {}
        /\ writer' = [writer EXCEPT ![l] = t]
        /\ UNCHANGED <<todo, readers, node>>

TakeWrite(t) ==
    LET l == Current(t).lock
        keep == IF Current(t).op = "write" THEN t ELSE None
    IN  /\ At(t, {"touch", "write"})
        /\ writer[l] \in {None, t} /\ readers[l] = {}
        /\ writer' = [writer EXCEPT ![l] = keep]
        /\ node' \in Changed(Current(t).arg)
        /\ GoOn(t)
        /\ UNCHANGED readers

LetGo(t) ==
    LET l == Current(t).lock
    IN  /\ At(t, {"drop"})
        /\ readers' = [readers EXCEPT ![l] = @ \ {t}]
        /\ writer' = [writer EXCEPT ![l] = IF @ = t THEN None ELSE @]
        /\ GoOn(t)
        /\ UNCHANGED node

\* A task ends, or panics, and lets go of what it reads.
End(t) ==
    /\ At(t, {"end"})
    /\ node' = [node EXCEPT !.tasks = @ \ {t}]
    /\ todo' = [todo EXCEPT ![t] = <<>>]
    /\ readers' = [l \in Locks |-> readers[l] \ {t}]
    /\ UNCHANGED writer

AnswerClient(t) ==
    LET c == Current(t).arg
    IN  /\ At(t, {"answer"})
        /\ todo' = [todo EXCEPT ![t] = Tail(@), ![c] = Tail(@)]
        /\ UNCHANGED <<readers, writer, node>>

Step(t) ==
    \/ TakeRead(t) \/ ClaimWrite(t) \/ TakeWrite(t) \/ LetGo(t)
    \/ End(t) \/ AnswerClient(t)

-----------------------------------------------------------------------------
(* Where tasks get their instructions from                                    *)

Idle(t) == todo[t] = <<>>

Start(t, list) ==
    /\ Idle(t)
    /\ todo' = [todo EXCEPT ![t] = list]
    /\ UNCHANGED <<readers, writer, node>>

StartSync == "sync" \in node.tasks /\ Start("sync", SyncPass)
StartBeat == "beat" \in node.tasks /\ Start("beat", Heartbeat)

\* A node is told to join only what it does not run, when the synchronization
\* task of before has ended, and to leave only what it runs.
StartCommand(t, c) ==
    /\ c = "init" => ~node.joined /\ "sync" \notin node.tasks
    /\ c = "leave" => node.joined
    /\ Start(t, Command(c))

\* The loop, at its select!, takes the message a task wants to send ...
TakeMessage(t) ==
    /\ Idle("loop") /\ At(t, {"send"})
    /\ \E list \in OnMessage(Current(t).arg, t) :
          todo' = [todo EXCEPT !["loop"] = list, ![t] = Tail(@)]
    /\ UNCHANGED <<readers, writer, node>>

\* ... or an event.
TakeEvent(e) ==
    /\ e \in TopicEvents => node.joined
    /\ (e \in {"Graft", "Newcomer"} /\ node.mesh # None) => node.mesh < MaxMesh
    /\ Start("loop", OnEvent(e))

-----------------------------------------------------------------------------
(* The specification                                                          *)

Init ==
    /\ todo = [t \in Tasks |-> <<>>]
    /\ readers = [l \in Locks |-> {}]
    /\ writer = [l \in Locks |-> None]
    /\ node = [joined |-> FALSE, tasks |-> {"beat"}, mesh |-> None]

Next ==
    \/ \E t \in Tasks : Step(t) \/ TakeMessage(t)
    \/ StartSync \/ StartBeat
    \/ \E t \in Clients, c \in Commands : StartCommand(t, c)
    \/ \E e \in Events : TakeEvent(e)

Spec == Init /\ [][Next]_vars

-----------------------------------------------------------------------------
(* Properties                                                                 *)

(* Lists of instructions, guards of tasks, and a mesh within the bounds.      *)
TypeOK ==
    /\ \A t \in Tasks : Idle(t) \/ Current(t).lock \in Locks \cup {""}
    /\ readers \in [Locks -> SUBSET Tasks]
    /\ writer \in [Locks -> Tasks \cup {None}]
    /\ node \in [joined : BOOLEAN, tasks : SUBSET {"beat", "sync"},
                 mesh : 0 .. MaxMesh \cup {None}]

HoldsNothing(t) == \A l \in Locks : t \notin readers[l] /\ writer[l] # t

(* A task that waits for the network loop, and a task that waits for nothing, *)
(* holds no lock: commands have let go of the table when they tell the loop,  *)
(* and the loop has let go of everything when it comes back to its select!.   *)
(* The synchronization task is the exception (network.rs 1682, 1724).         *)
WaitersHoldNothing ==
    \A t \in Tasks \ {"sync"} : (Idle(t) \/ At(t, {"send", "await"})) => HoldsNothing(t)

\* Whom t waits for: those that hold the lock or are before it, or the loop.
\* A task that spins waits for itself.
InTheWay(t) ==
    LET l == Current(t).lock
    IN  CASE At(t, {"peek", "read"})   -> {writer[l]} \ {None}
          [] At(t, {"touch", "write"}) -> readers[l] \cup ({writer[l]} \ {None, t})
          [] At(t, {"send", "await"})  -> IF Idle("loop") THEN {} ELSE {"loop"}
          [] At(t, {"spin"})           -> {t}
          [] OTHER                     -> {}

\* Tasks each of which waits for one of them: none of them ever goes on.
Circle(S) == S # {} /\ \A t \in S : InTheWay(t) \cap S # {}

\* The synchronization task, with the locks of the mesh and of IPFS in its hands,
\* waits for the loop to take its SYNC.
SyncInTheWay(S) == {"sync", "loop"} \subseteq S /\ At("sync", {"send"})

\* The heartbeat waits for its own guard of the mesh, or pops for ever under it.
BeatInTheWay(S) ==
    /\ "beat" \in S \cap readers["gossip"]
    /\ At("beat", {"spin", "write"})

(* No tasks wait for each other, be it for locks or for the loop: neither the *)
(* order in which locks are taken, nor waiting writers that keep readers out, *)
(* nor the rendezvous with the loop can stop the node.  The exceptions are    *)
(* the synchronization task that sends with two locks in its hands            *)
(* (network.rs 1728), and the heartbeat that takes for writing what it holds  *)
(* for reading (2326), or counts down from a difference below zero under it   *)
(* (2339).                                                                    *)
OnlyKnownCircles ==
    \A S \in SUBSET {t \in Tasks : InTheWay(t) # {}} : Circle(S) => SyncInTheWay(S) \/ BeatInTheWay(S)

=============================================================================
