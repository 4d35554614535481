# SamaritanDB: specifications

TLA+ modules for the decentralised database in `src/database`, the TLC
configurations that check them on small instances, and proofs checked by TLAPS.
`PROJECT.json` maps every definition to the lines it models; line numbers below
are those of `prelude.rs` and `network.rs` unless another file is named.

## 1. The system

A node keeps, for each application it runs, a table in memory. Clients change
it with commands (CLI or HTTP). Every change is gossiped to the other nodes of
the application and uploaded to IPFS now and then; a smart contract says where
the last upload is, who runs the application and which users block it.

| component | state | operations | talks to |
|---|---|---|---|
| Application tables (`prelude.rs` 95-270) | owner DID -> entry (access bit, its time, key -> unit with a stamp) | insert, delete, clear, set_data | everything below |
| Client commands (`prelude.rs` 611-1860) | a copy of the table per running command | init, leave, set, get, del, exists, keys, truncate, access, config | tables, cache, network loop (channel messages) |
| Initialization (`prelude.rs` 46, 751-983) | one flag for all applications, a cache of writes | init, localize, flush | IPFS, tables, network loop |
| Network loop (`network.rs` 584-1656) | seen messages, message cache, mesh | gossip in and out, IHAVE/IWANT/IGIVE, GRAFT/PRUNE, SYNC, (un)subscribe, ping | every shared state under `RwLock` |
| Synchronization (`network.rs` 1659-1945) | per application: turn, count, peers and time of the last SYNC, modified flag | upload the image, pass the token on, take it over | contract, IPFS, network loop |
| Access monitor (`network.rs` 2506-2609) | users known to block an application | poll the contract every 3 s and change access | contract, commands |
| Heartbeat (`network.rs` 2288-2371) | mesh | every 10 s: GRAFT or PRUNE | network loop |
| Contract (`contract/lib.rs`) | bootnodes, accounts, subscribers, restrictions | twelve messages | called through `cargo contract` |
| HTTP server, CLI, set-up | none of their own | parse, run commands one after another, print | commands |

What is hard here: commands, background tasks and the network loop share state
through locks that are held to copy a map or to put it back, never across a
whole operation; gossip is late, repeated or lost; stamps come from different
clocks; the initialization phase is one flag for all applications; whoever
uploads is decided by timers on different nodes, with nodes that crash or leave
meanwhile; messages are texts whose separator nobody keeps out of keys and values; a call of the contract that fails looks like an answer, because an
empty output is parsed to one zero character (`util.rs` 137). `PROJECT.json`
lists each hazard at its line.

What makes each component correct:

- tables and replication: values stay with their owner and key; nothing older
  replaces something newer; access is denied only on request; each change is
  uploaded some time; replicas agree in the end;
- initialization: a write is never lost, and the phase ends;
- contract: no duplicates matter, the last message decides;
- token: never lost while somebody runs the application;
- image upload: what the contract points to is complete, an upload changes no
  data, and a change that is not uploaded is flagged;
- locks: nobody waits for ever; mesh: reckoning with the number of peers ends;
- access monitor: nobody is denied who did not ask for it, what the contract says
  comes to hold on the node.

## 2. Modules

| module | models | state and actions |
|---|---|---|
| `AppStore` | the table and the merge of one gossiped change | operators only |
| `Replication` | one application on several nodes | per node: `apps`, client `task`s, the network `loop`, `seen`; per command a step that copies and computes, `Commit` that puts back, `Flag`, `Gossip`; `ReceiveGossip`/`ReceiveIGive` and `FinishMerge` for the loop; `Readings` says what a receiver may read in the text that is sent |
| `NodeStore` | `DBState` of one node with several applications | `complete` (the flag), `apps`, `cache`, `task`, `localizer`, `upload` and `merging` (the copies of the synchronization task and of the network loop), `stuck`; the commands split where the code lets go of the lock, `Localize*` and `Flush*` for the background task of init, `Upload*` and `Merge*` for the other writers of the tables |
| `DbContract` | the contract's storage | one action per message that changes it; refines `DbRegistry` |
| `DbRegistry` | what the contract promises, with sets and relations | |
| `SyncToken` | the token of one application | `joined` is the application in memory, `noted` the entry of `cids`, and `turn`, `count`, `sync_peers`, `since` are the maps of `IPFSManager`; `loops` the tasks of `manage_data_synchronization`, `seize` and `checks` the sleeping tasks, `net` the messages |
| `NetworkLoop` | what the tasks of one node wait for | `todo` is the rest of each task's body as a list of instructions (take, let go, send, await); `readers` and `writer` are the `RwLock`s of tables, IPFS manager and mesh; one action per way an instruction runs; the operators named after the code's functions are their bodies |
| `DataImage` | `update_data_image` for one application on one node | `table` with data and address per owner, `cids` (the image noted), `modified` (the flag), `contract`, `stored` (what is on IPFS); `Decide` to `EndPass` are the steps of the synchronization task and its upload; commands, merges, joins, leaves and crashes go on beside it |
| `AccessMonitor` | `manage_data_access_changes` for one application on one node | `blockers` (the contract's list), `table` with the access bits, `saved`, `monitor` (the tasks with their local variables), `writer` (another task's copy), `notice` (what the network loop is telling the contract), `stuck` |
| `AppStoreTheorems`, `ReplicationProofs`, `NodeStoreProofs`, `DataImageProofs`, `AccessMonitorProofs`, `DbContractProofs`, `SyncTokenProofs`, `NetworkLoopProofs` | proofs, each about the module of that name | |
| `MC*` | constants of the runs | |

The components meet in the table and in the contract. Each module takes the
behaviour of its neighbours as free as its properties allow, so that what is
shown holds whatever the neighbour does:

- `Replication` and `NodeStore` share `AppStore` and split the work: the first
  has clocks, peers and gossip for nodes past their initialization, the second
  all that writes the tables of one node, where stamps play no part.
- `DataImage` and `AccessMonitor` look at the same table: the first keeps data
  and addresses of entries, the flag for the next upload and any writer of these,
  the second their access bits and any writer of these. Uploads are among the
  writers of `NodeStore` and of `AccessMonitor`.
- `SyncToken` has an upload as a delay that may note the image of an application
  left meanwhile; `NetworkLoop` has the locks an upload takes, chooses freely whose
  turn it is, and says what the tasks of `SyncToken` hold while they wait.
- What `NetworkLoop` finds of the loop (it may wait in a circle for good) is the
  variable `stuck` of `NodeStore` and `AccessMonitor`, whose tasks send to the loop.
- `AccessMonitor` has the two messages of `DbContract` it needs, on sets;
  `DbContract!LastMessageDecides` is what allows that.

Operators that are called *faulty variant* are not part of the specification.
Each is a plausible mistake in one mapped definition; put in its place, it makes
the property it is listed with in `PROJECT.json` fail.

## 3. Runs

Seven runs pass.

- **replication**: two nodes, owners app and user, one key, one value (the time
  tells writes apart), two clients per node, two commands in all, clocks up to 3
  that differ by at most 1. Enough for two overlapping commands on one node, a
  command overlapping a merge, a message that comes both by gossip and by IGIVE,
  and a message of the future. The runs start where one or both nodes have run
  init (which may be repeated). The clients of a node are symmetric. Two more values
  hold the separator of messages once and four times; with them one write and one
  other command of the same node are followed, one at a time, with both nodes
  subscribed and clocks up to 2 (constraint `TextsApart`). It shows where values may be (`Provenance`), that
  a stamp covers the origin's time (`StampCoversOrigin`), who may be denied
  (`DeniedOnlyByRequest`), and when an older write may win: only when two tasks of
  the same node overlapped (`OlderOnlyByOverlap`), never by a merge alone
  (`MergedChangeIsNewer`). About 1.3 million states.
- **node_store**: an application with an image, a new one, two clients, two
  localizers, three commands (init included), or two beside an upload or a gossiped
  change (constraint `FewAtWork`; the tasks that follow from what was begun are not
  bounded, and beginning something is never fair, so that the bound keeps nothing
  from happening that was promised). Enough for a second init during the first's
  fetch, a cached write of another owner under the same key, a leave during a set,
  and a set, a localizer and an upload that put back copies of the same table. It
  shows that answers are writes that were asked for (`AnswersAreWrites`), that data
  changes only as somebody means it to, or by a copy that was not the latest
  (`DataChangesAsMeant`), that the flag is not left down
  (`FlagDownWhileInitializing`) and is raised in the end unless the network loop is
  stuck (`CacheModeEnds`).
- **db_contract**: two DIDs, three addresses for two bootnode places, restriction
  lists of up to two entries (the same user twice). The vectors implement the
  registry (`RegistryKept`), and the last message decides what both queries answer
  (`LastMessageDecides`).
- **sync_token**: two nodes that are told to join twice between them, be it again
  what they run already, with one fault: a crash, a lost message, a failed call or
  a subscription that fails. Durations keep their order but are
  short: the token is passed on after 2 SYNCs and not 7, the check after joining
  comes after 2 units and not 18, the extra wait is 0. A node sends a SYNC only to
  peers that have nothing under way to them yet, so two SYNCs may cross, and a
  SYNC and an announcement may overtake each other. The constraint cuts off
  behaviours in which a node on the contract's list can never run again, or none
  will ever run. Up to two messages are under way
  at once, one after a fault. About 2.4 million states.
  `HolderOrHeir`: each node that takes part (it runs the application, or a
  synchronization task of it still does, as after a leave during an upload, which
  notes the image again) holds the token, or will take
  it when it is missed, or passed it on before a SYNC ever reached it (`OnlySent`).
  `TokenKept`: while the contract lists only nodes that are there, and no two of them
  only ever sent, somebody holds the token or has what it takes to get it. Two nodes
  suffice for a holder and a successor; what more nodes can do is in section 4.
- **network_loop**: the loop, the synchronization task, the heartbeat and one
  client that runs any of eight commands or delayed checks, again and again, with
  nine kinds of events. A circle needs no more tasks than locks and loop; a second
  client would add only another holder of what the first one holds, which is
  nothing when it waits (`WaitersHoldNothing`). Degrees 3, 1 and 3 for the
  code's 6, 4 and 12, with at most 4 mesh peers, keep the order and reach every
  branch of the heartbeat: below the lower limit, just at it, between it and the
  aim, within, above. Nothing else is bounded. `OnlyKnownCircles` names the two
  places where the node can stop for good and shows that there is no third. The
  first is the synchronization task, which sends its SYNC to the loop with guards
  of the mesh and of the IPFS manager in its hands (1682, 1724), while the loop
  may be waiting for one of them. The second is the heartbeat (2326, 2339).
- **data_image**: the application's entry and one other, two contents, two
  changes (by commands or gossip), two inits, any number of uploads, leaves and
  crashes. Enough for a change before, during and after each step of an upload, by
  the owner being uploaded or another, for a second init during an upload, and for
  an upload that outlives a leave, which the synchronization task looks for only
  before it asks the contract whose turn it is (1676). Contents are symmetric. What
  an address stands for is on IPFS (`ImageComplete`); with the flag down and
  nothing under way, the contract has the table's image, unless a change came
  during the last upload or a call fell short since (`FlagTells`); an upload
  changes data only by putting an old copy back, and brings back only an
  application that was left after the task looked (`PassKeepsData`).
- **access_monitor**: two owners, one task, any number
  of restrictions, polls, failed polls, joins, leaves and crashes, and a network loop
  that takes one message after another, or stops. One denied owner
  who comes and goes while the other's entry is written is all that the task's loop
  tells apart. `DeniedOnlyIfBlocked`, `SavedMeansDenied`, and under fairness
  `BlockNoticed` and `LiftedIsAllowed` for users other than the application, unless
  the loop is stuck.
  Two tasks (left and joined again) are
  beyond TLC here; the proofs are for any number.

Five runs end in a violation, each of something the repository says; the
counterexamples are what the code does.

- **replicas_agree** (README 109): a merged write is stamped with the receiver's
  clock, so the next write, already made, is refused. One writer is enough.
- **merge_keeps_others** (985): a gossiped write for an unknown owner saves a
  table with that owner alone (1075-1081).
- **accepted_writes** (46): `flush_cache` makes futures nobody runs, then clears
  the caches (819-874).
- **token_failure_proof** (README 117): the token is passed to a node that
  crashed and is still on the contract's list; nothing brings it back.
- **lifted_forgotten** (2557): the owner whose restriction was lifted stays on the
  saved list, because what is removed is the list of a DID of that name (2558). A
  second restriction by the same user is not noticed.

Deadlock is checked in the contract and monitor runs. The other runs stop
where their bounds on commands, changes, clocks, joins and faults are used up; in
`NetworkLoop` a stop is what `OnlyKnownCircles` describes, more precisely, since a
stopped node still receives nothing but may have idle tasks.

Fairness is assumed in two places, and in both for a node whose network loop is not
stuck: the loop can be blocked for good (`NetworkLoop!OnlyKnownCircles`), tasks in
such a circle hold locks, and every change of a bit (prelude 1802-1816) and every
localizer (788) waits for the loop. So nothing is assumed from then on, and each
liveness property says what else may be the end: a stuck loop.

- `FairSpec` of `NodeStore`: every task that can take a step takes one in the end
  (weak fairness per client and per localizer). The executor polls the tasks it
  has, and the calls of `ipfs cat` are child processes that end. Starting a command
  is not fair, nor is anything an upload or a peer does.
- `FairSpec` of `AccessMonitor`: the task takes steps (weak fairness; its sleeps
  end and its calls are child processes that end), a poll is answered now and then
  (strong fairness of the answered poll: the chain is not out of reach for ever),
  and the loop's call of the contract ends, well or not (weak fairness). Nothing a
  user, a peer or another task of the node does is fair.

`SyncToken` claims safety only: its synchronization task is the one that sends with
locks in its hands, so fairness would promise what the code does not keep.

Other things a comment or test of the repository says and the models contradict.
They have no run of their own; each is a condition of a property of a passing run,
which fails without it.

- A separator in a key or a value. The fields of a message are joined with `$$`
  (1327, 1439, 1608) and split again at every `$$` (740, 893), and key and value are
  free texts. Prelude 985 says that a gossiped change is added to the local
  state; with one separator the owner is read as the time and the sender's id as the
  type of write, which is then taken for an access change of time zero, and the
  write is lost on all peers. With two, the client's text is where the time is read
  and a denial nobody asked for can be merged (`Below(2)` in `DeniedOnlyByRequest`);
  with five it is read as any change it spells (`Below(5)` in `Provenance` and
  `OlderOnlyByOverlap`).
- `access_control_flow_works` (`contract/lib.rs` 465-469) restricts with
  `restrict(did, app_did)` and asserts `is_restricted(did, app_did)`. `restrict` puts
  the user on the application's list, `is_restricted` looks for the application on the
  user's (341-348) and answers no. `LastMessageDecides` says which question it
  does answer.
- 550 says the flag tells whether data was altered after the latest upload. What is
  altered during an upload is in no image, and the end of the upload takes the flag
  down (1943), also when it failed (`missed` and `failed` in `FlagTells`).
- README 109 says consistency is based on timestamps. For each entry whose address
  is new, an upload puts the whole table back as it copied it (1863-1866), whatever
  was written to any entry since (`disturbed` in `PassKeepsData`).
- Prelude 1742 says that leave ends the updates of an application. An upload that was
  under way puts the table back and notes its image (1914), and the synchronization
  task, which looks there (1676), goes on (the same; `TakingPart` in `HolderOrHeir`).
- 1919 says the contract is updated for new nodes to get the latest image. The
  address of an image is the output of `ipfs add`, empty when that fails (`cli.rs`
  261), and is published even so (`SaveImage(NoCid)`; `failed` in `FlagTells`).
- 1017 says that a peer that leaves goes from the full-message peers to the fan-out
  peers. All mesh peers of the application go (1023), those that stay with it
  (`ReceiveAnnouncement` in `SyncToken`; it takes three nodes to see).

## 4. Proofs

All proofs are for any nodes, clients, owners, keys, values, tasks, metadata peers
and bounds; the assumptions are those stated in the modules: the application is an
owner, metadata peers are nodes, owners are applications and users, an image is a
table or there is none, bounds are naturals, nodes of the token are finite in number (the contract's list is a
list of them), the degrees of the mesh are in the order the code's constants have, and `None` and its like are none of the other values.

- `AppStoreTheorems`: each operator keeps tables well typed, and what a merge or
  a put leaves in the table (values that were there or the one it adds, stamps
  that were there or the present time, bits that were denied or the one asked for).
- `ReplicationProofs`: `TypeOK`, action by action; `Provenance`,
  `StampCoversOrigin` and `DeniedOnlyByRequest`. None of the three is inductive: tables are worked out from messages
  and from copies in pending tasks. The inductive invariant `OriginInv` adds that
  clocks differ by `MaxSkew` at most (`Skew`), that each write or denial under way
  was asked for and a write carries a time its sender's clock has reached
  (`Sent`), and that the three properties hold of every table a node holds, in
  memory or in a task, none of whose writes is further than `MaxSkew` in the
  future (`TablesSound`). The proof runs along where a table comes from: after a
  step a node holds only tables it held before or one the step made
  (`ClientHolds`, `LoopHolds`), and a table that is made holds only units it was
  made from or the one that is added (`MadeGrounded`).
  `Provenance` is for clients that wrote no five separators, `DeniedOnlyByRequest`
  for clients that wrote no two: a message is sent with one of its `Readings`, and
  those of a text that is short enough are the message itself or an access change of
  time zero, which no entry takes. The stamps and `MergedChangeIsNewer` need no such
  condition, since a message of another's making is merged by the time it is read with.
  Then the action properties `MergedChangeIsNewer` and
  `OlderOnlyByOverlap`. The invariant they follow from,
  `OrderInv`, adds to `OriginInv` what a copy of the table is worth that nobody has
  made stale: a task still to read the table was asked for no earlier than any write
  there, up to `MaxSkew`, and a table to be put back is not older than the present
  one and takes away only what is older than its message. A merge establishes this
  from stamps, which is where `StampCoversOrigin` is needed.
- `NodeStoreProofs`: `TypeOK`, with what a task's pending copy is by its phase and
  command; `AnswersAreWrites`, with `GroundInv` (every value in a table, in the
  cache, in a copy on its way or in an answer was asked for or is in the image);
  `FlagDownWhileInitializing`, with `FlagInv` (the flag is down only while no
  application was initialized yet, or an init command runs, or a localizer is before
  the step that raises it);
  `DataChangesAsMeant`, with `MeansInv`: a copy of the table that is the latest
  (`fresh`) differs from memory only in what its task means to change, for each
  of the five kinds of tasks; the other copies are of no concern, since putting one
  of them back is what the property allows.
- `DataImageProofs`: `TypeOK`; `ImageComplete`, with the strengthening `AllKnown`
  (the addresses in every copy of the table, the snapshot, a command's and the
  localizer's included, and in the image being published are of stored contents;
  what is stored only grows); `PassKeepsData`, with `Undisturbed` (while nobody
  disturbed the upload, memory and snapshot have the same data, and the application
  is still noted as run); `FlagTells`, with
  `FlagInv`, which says for each place the upload can be at what it has achieved
  so far if no call fell short and nobody changed the table (`Honest`): the owners it
  is done with have the addresses of their data, the new image has the table's
  addresses, the contract has the image.
- `DbContractProofs`: `TypeOK`; `LastMessageDecides`, which needs no strengthening
  once it is known what the filter leaves (`WithoutFacts`: everything but the one
  taken out, in the old order, and nothing twice that was not) and that `is_restricted`
  answers by the same list (`AnswerGoesWithList`); and `RegistryKept`,
  the refinement of `DbRegistry`: the vectors start as the empty registry and each
  message is the registry's or changes nothing in it. The inductive invariant has in
  addition that no address is twice among the bootnodes: without it the length of the
  vector would not be the number of addresses, the contract would make room too
  early, and the registry would not be kept. The filter is defined by recursion on the
  list; facts about it are proved by induction over a set of lengths, from the
  library's theorem on minimal elements (`Induct`).
- `SyncTokenProofs`: `TypeOK`; `HolderOrHeir`, with `HeirInv`, for all nodes that take
  part, those included that left and run on; `TokenKept`, which follows from it. The inductive invariant adds what the delayed checks rely on:
  every SYNC names its receiver among the peers that take over, so that a node that
  heard one is on its own list, and a node has a time of the last SYNC only if it
  sent or heard one. The attempt to prove the property as it was first stated, without the
  last premise, failed for a good reason, found with three nodes and no fault at all:
  two nodes that each have only a third one in their mesh may both take the token
  after joining, both pass it on to the third, and when that one leaves, each takes
  the other for the holder for good. A run with two nodes cannot show this.
- `AccessMonitorProofs`: `TypeOK`; `DeniedOnlyIfBlocked`, with `Justified` (an
  owner any copy of the table denies, or any task is about to deny, was once on
  the contract's list); `SavedMeansDenied`, with `Enforced`, which says of each
  task which saved owners it has settled and that its pending copy agrees. While the
  task waits to send, the owner it has just changed is still among those to be settled.

- `NetworkLoopProofs`: `TypeOK`, `WaitersHoldNothing` and `OnlyKnownCircles`, for any
  number of clients, any commands and events, and any degrees of the mesh. What a task
  holds depends on how far it is, so the inductive invariant `Inv` says of each task
  which lists of instructions it may have left, and which locks it has in its hands
  with each of them: the synchronization task nothing, the mesh, mesh and table, or mesh and
  the lock of IPFS; the heartbeat nothing or the mesh; the clients nothing; the loop
  nothing, the mesh, or the lock of IPFS. Whoever is in front of a lock without having
  it is about to take it. The lists are those the bodies have from some instruction
  on; the `...Flow` lemmas say where each can go in one instruction, `ActsMove` what an
  instruction does to the locks, and `StepsKeep` puts them together. What the loop adds
  to `todo` of others is bounded too: it owes an answer only to a client that awaits one,
  and adds a mesh peer only where there is room. TLC confirmed `Inv` on the instance of
  `MCNetworkLoop` before it was proved.

  `OnlyKnownCircles` follows lock by lock (`NoOtherCircle`), for tasks that wait for each
  other without one of the two exceptions. The holder of the lock of IPFS cannot be among them:
  the synchronization task then only lets go or sends, which is the first exception,
  and the loop, which changes the configuration, waits for the mesh only behind
  the heartbeat that claims it while it reads it, which is the second. So none waits
  for that lock; then none waits for the table, as only the synchronization task
  holds it, and waits for IPFS then; then none waits for the mesh, whose holders wait
  for one of the other two or are an exception. The loop waits for locks only, so it is
  not among them, and whoever waits for the loop is not either.

Only model-checked: `CacheModeEnds`, `BlockNoticed` and `LiftedIsAllowed`, as liveness
is out of the prover's reach.

## 5. Abstractions

- Stamps are whole seconds of a machine's clock; clocks differ by a bound.
- Each unit's own access bit is always true in the code and left out; an entry's
  IPFS address is read by the upload only and is in `DataImage` only.
- Of the text of a message `Replication` keeps how often the separator is in a key
  and a value, and what the pieces may be read as. DIDs, times, addresses and ids
  hold none. A text that ends in half a separator, and so moves the field after it,
  is counted as one with five. A text that is read as an unknown type of write is a
  panic in the loop (`todo!()`) and left out.
- The history variables (`requests`, `stale`, `last`, `fresh`, `blocking`,
  `everBlocked`, `slipped`, `disturbed`, `failed`, `missed`) and the `at` of a payload
  are read by properties only.
- Commands the code refuses change nothing and have no action.
- `leave` is not guarded by credentials in the models: the contract's answer to
  wrong ones is an empty vector, which `parse_contract_return_data` turns into a
  string of one character, and `forget_application` only asks whether the string
  is empty (1738). In `SyncToken` an application is left only where it runs, or where
  a subscription failed.
- In `SyncToken` the mesh of a node that joins is the contract's list in any
  order (it comes out of a hash map), without the peers remembered from before
  and below the limit of six, which two nodes cannot reach. A SYNC is sent and
  counted in one step.
- In `NetworkLoop` answers of the contract, of IPFS, of peers and of the table,
  whose turn it is, and whether there are metadata peers to graft, are chosen
  freely, with three limits: an application that
  is joined is one that was not, after the synchronization task of before has
  ended; no list of instructions takes for writing what it already writes; and
  nothing shuts the node down. Bootstrapping and pings take no lock. The heartbeat
  makes futures for GRAFT and PRUNE messages that nobody awaits (2359, 2367), so they
  are never sent, and nothing is sent in the model. Unsigned counts below zero have
  two outcomes, as the build decides: a panic, or a count that has wrapped around.
- In `DataImage` an address is what it stands for. Pinning is left out. The table
  is as small as one application's. There is one synchronization task: init during
  an upload starts a second one beside it in the code, which `SyncToken` has (`loops`)
  and `DataImage` has not.
- A SYNC goes to the mesh a node has from the contract and from announcements;
  peers remembered as fan-out, which GRAFT may bring back, are left out of `SyncToken`.
- `stuck` may become true at any time, where `NetworkLoop` has the steps that lead
  there.
- In `AccessMonitor` peers run the same code: a denial heard from one of them
  is of an owner who was once on the contract's list, and so is one in a published
  image. `modify_app_access` gets owner and application the wrong way round, so its
  notice bears on the application's own list for the application's own entry only.

Not modelled:

- the HTTP server and the command line: they parse, run commands of `prelude.rs`
  one after another and format what these answer. They keep no state; a request of
  several operations is a client that runs several commands, which the clients of
  `NodeStore` and `Replication` do in any order and with anything between;
- set-up, bootstrapping and `quit`: they run once, before or after everything else;
- the message cache (IHAVE, IWANT), the choice of mesh peers and pings: `Replication`
  delivers a gossiped message to anybody at any time, which covers every mesh;
- the processes `cargo contract` and `ipfs`: their failures appear as failed calls
  in `SyncToken`, `DataImage` and `AccessMonitor` and as failed fetches in
  `NodeStore`.

## 6. Plan

Done: everything of section 2. What would come next:

1. `leave` and the first image in `Replication`, three joins in `SyncToken`, and a
   run of it with three nodes, once a smaller state representation makes room.
2. `DataImage` for several nodes under `SyncToken`: two holders of the token that
   upload at the same time, or two synchronization tasks of one node after init was
   run again during an upload.
