----------------------------- MODULE DataImage -----------------------------
(* How the data of one application on one node is kept outside of it: the     *)
(* contents of each owner's entry go to IPFS, the addresses of all entries    *)
(* (the image) go to IPFS too, and the address of the image to the contract   *)
(* (update_data_image), where the next node that joins finds it.              *)
(*                                                                            *)
(* An address stands for what was stored under it.  An upload can succeed, or *)
(* fail, or answer nothing: write_to_ipfs takes the output of `ipfs add`,     *)
(* empty when that fails, for the address.  A map may be written in another   *)
(* order the next time, so the same contents may get another address.         *)
(*                                                                            *)
(* The steps of an upload interleave with the tasks that change the table: a  *)
(* command, that copies it, puts the copy back and has the loop set the flag; *)
(* a change gossiped by a peer, the flag first; leaving, joining, a crash.    *)
(* One synchronization task is modelled: joining again while an upload is     *)
(* under way starts a second one, which is not.                               *)
EXTENDS Naturals

CONSTANTS
    Owners,     \* owners of entries
    App,        \* the application, an owner itself
    Values,     \* contents of an entry: what an owner's keys map to
    Empty,      \* no key at all
    None,       \* no entry; nothing to do
    NoCid,      \* the empty address
    Left,       \* the application is not run
    MaxChanges, \* bound on the number of changes
    MaxJoins    \* bound on the number of times init is asked for

ASSUME DataImageAssumption ==
    /\ App \in Owners
    /\ Empty \notin Values /\ NoCid \notin Values
    /\ MaxChanges \in Nat /\ MaxJoins \in Nat

Contents == Values \cup {Empty}
Cids     == Values \cup {NoCid}
Entry    == [data : Contents, cid : Cids]
Tables   == [Owners -> Entry \cup {None}]
Images   == [Owners -> Cids \cup {None}]
Absent   == [o \in Owners |-> None]

Commands == [step : {"put", "flag", "leave", "add", "join", "create", "new"}, copy : Tables]
Loadings == [step : {"fill", "flag"}, entries : Tables]

ASSUME NamesAssumption ==
    /\ None \notin Entry \cup Contents \cup Commands \cup Loadings
    /\ {None, NoCid, Left} \cap (Images \cup Tables) = {}
    /\ Left # NoCid /\ None # NoCid /\ None # Left

VARIABLES
    table,      \* the application's hashtable, Absent when it is not in memory
    cids,       \* the image the node takes for published, NoCid, or Left
    modified,   \* the flag
    contract,   \* the image the contract points to, or NoCid
    stored,     \* contents that are on IPFS
    command,    \* the command: [step, copy], or None
    gossip,     \* the gossiped change the loop merges: <<owner, contents>>, or None
    loading,    \* localize_application_data: [step, entries], or None
    pc,         \* where update_data_image is
    snapshot,   \* the table it copied
    todo,       \* the owners of the snapshot it has not come to
    image,      \* the address of the new image
    disturbed,  \* history: someone else changed the table since it was copied, or
                \* the application was left since the task looked
    failed,     \* history: an upload, a transaction or a query of the contract fell
                \* short since the flag was last read
    missed,     \* history: someone else changed the table since it was copied
    changes,    \* number of changes so far
    joins       \* number of times init was asked for

nodeVars == <<table, cids, modified, command, gossip, loading>>
passVars == <<pc, snapshot, todo, image>>
counters == <<changes, joins>>
history  == <<disturbed, failed, missed>>
vars == <<table, cids, modified, contract, stored, command, gossip, loading,
          pc, snapshot, todo, image, disturbed, failed, missed, counters>>

Addresses(t) == [o \in Owners |-> IF t[o] = None THEN None ELSE t[o].cid]

\* What the table becomes of when o's entry is given contents v; an entry that is
\* made has no address yet.
FreshEntryUnaddressed(v) == [data |-> v, cid |-> None]
FreshEntry(v) == [data |-> v, cid |-> NoCid]
WithData(t, o, v) ==
    [t EXCEPT ![o] = IF t[o] = None THEN FreshEntry(v) ELSE [t[o] EXCEPT !.data = v]]

-----------------------------------------------------------------------------
(* update_data_image                                                          *)

\* The table is held for reading while the image is made and published.
TableHeld == pc \in {"image", "publish"}

\* The synchronization task finds that the application is run.
Decide ==
    /\ pc = "idle" /\ cids # Left
    /\ pc' = "asked"
    /\ disturbed' = FALSE
    /\ UNCHANGED <<nodeVars, contract, stored, snapshot, todo, image, failed, missed, counters>>

\* It asked the contract and waited for locks; now it is not this node's turn, or
\* the flag is down, ...
NoPass ==
    /\ pc = "asked"
    /\ pc' = "idle"
    /\ UNCHANGED <<nodeVars, contract, stored, snapshot, todo, image, history, counters>>

\* ... or it is up.  Whether the application is still run is not asked again.
StartPass ==
    /\ pc = "asked" /\ modified
    /\ pc' = "copy"
    /\ failed' = (cids \in Images /\ contract # cids)
    /\ missed' = FALSE
    /\ UNCHANGED <<nodeVars, contract, stored, snapshot, todo, image, disturbed, counters>>

CopyTable ==
    /\ pc = "copy"
    /\ snapshot' = table
    /\ todo' = {o \in Owners : table[o] # None}
    /\ pc' = IF table = Absent THEN "clear" ELSE "owners"
    /\ UNCHANGED <<nodeVars, contract, stored, image, history, counters>>

\* Entries without a key are not uploaded, the address of an upload may be the
\* one that is there, and an upload that fails changes nothing.
SkipOwner(o) ==
    /\ pc = "owners" /\ o \in todo
    /\ todo' = todo \ {o}
    /\ failed' = (failed \/ snapshot[o].data \notin {Empty, snapshot[o].cid})
    /\ UNCHANGED <<nodeVars, contract, stored, pc, snapshot, image, disturbed, missed, counters>>

\* Faulty variant: the entry is put with its address only, as in the image.
PutSimple(o, cid) == [snapshot EXCEPT ![o] = [data |-> Empty, cid |-> cid]]

\* The table that is put back: the snapshot with the new address of o, and of
\* nobody else.
Put(o, cid) == [snapshot EXCEPT ![o].cid = cid]

\* The new table takes back the address another owner's entry was given.
TakesBack(t) == \E o \in Owners : table[o] # None /\ t[o] # None /\ table[o].cid # t[o].cid

\* Faulty variant: the address is that of an upload that failed.
UploadedNot(cid) == stored

Uploaded(cid) == stored \cup ({cid} \ {NoCid})

\* The contents go to IPFS, and the new table takes the place of what is there by
\* then.  The empty address is one, too.
UploadOwner(o, cid) ==
    /\ pc = "owners" /\ o \in todo
    /\ snapshot[o].data # Empty
    /\ cid \in {snapshot[o].data, NoCid}
    /\ cid = NoCid => snapshot[o].cid # NoCid
    /\ stored' = Uploaded(cid)
    /\ table' = Put(o, cid)
    /\ todo' = todo \ {o}
    /\ failed' = (failed \/ cid = NoCid \/ TakesBack([table' EXCEPT ![o] = table[o]]))
    /\ UNCHANGED <<cids, modified, contract, command, gossip, loading,
                   pc, snapshot, image, disturbed, missed, counters>>

OwnersDone ==
    /\ pc = "owners" /\ todo = {}
    /\ pc' = "image"
    /\ UNCHANGED <<nodeVars, contract, stored, snapshot, todo, image, history, counters>>

\* The image is not made (no entry any more, a failure), or is what it was.
SkipImage ==
    /\ pc = "image"
    /\ pc' = "clear"
    /\ failed' = (failed \/ (table # Absent /\ cids # Addresses(table)))
    /\ UNCHANGED <<nodeVars, contract, stored, snapshot, todo, image, disturbed, missed, counters>>

\* The address of the image is noted, be the application still run or not.
SaveImage(cid) ==
    /\ pc = "image" /\ table # Absent
    /\ cid \in {Addresses(table), NoCid}
    /\ cid = NoCid => cids \in Images
    /\ image' = cid /\ cids' = cid
    /\ pc' = "publish"
    /\ failed' = (failed \/ cid = NoCid)
    /\ UNCHANGED <<table, modified, contract, stored, command, gossip, loading,
                   snapshot, todo, disturbed, missed, counters>>

\* The transaction may come to nothing without the node knowing.
PublishImage(done) ==
    /\ pc = "publish"
    /\ contract' = IF done THEN image ELSE contract
    /\ pc' = "clear"
    /\ failed' = (failed \/ ~done)
    /\ UNCHANGED <<nodeVars, stored, snapshot, todo, image, disturbed, missed, counters>>

EndPass ==
    /\ pc = "clear"
    /\ modified' = FALSE
    /\ pc' = "idle"
    /\ missed' = (missed \/ gossip # None)
    /\ UNCHANGED <<table, cids, contract, stored, command, gossip, loading,
                   snapshot, todo, image, disturbed, failed, counters>>

UpdateDataImage ==
    \/ Decide \/ NoPass \/ StartPass \/ CopyTable \/ OwnersDone \/ SkipImage \/ EndPass
    \/ \E o \in Owners : SkipOwner(o) \/ \E cid \in Cids : UploadOwner(o, cid)
    \/ \E cid \in Images \cup {NoCid} : SaveImage(cid)
    \/ \E done \in BOOLEAN : PublishImage(done)

-----------------------------------------------------------------------------
(* Everybody else                                                             *)

\* A pass has copied the table.
Copied == pc \notin {"idle", "asked", "copy"}

\* The table takes a new value; a pass that has its copy knows nothing of it.
Replace(t) ==
    /\ ~TableHeld
    /\ table' = t
    /\ disturbed' = (disturbed \/ Copied)
    /\ missed' = (missed \/ Copied)
    /\ UNCHANGED <<contract, stored, passVars, changes>>

\* A command copies the table of an application in memory (while its entries are
\* fetched, too, if another application's initialization ended), ...
StartCommand(o, v) ==
    /\ command = None /\ table # Absent
    /\ changes < MaxChanges /\ changes' = changes + 1
    /\ command' = [step |-> "put", copy |-> WithData(table, o, v)]
    /\ UNCHANGED <<table, cids, modified, contract, stored, gossip, loading, passVars,
                   history, joins>>

\* ... puts the copy back, and tells the loop.
PutCopy ==
    /\ command # None /\ command.step = "put"
    /\ Replace(command.copy)
    /\ command' = [command EXCEPT !.step = "flag", !.copy = Absent]
    /\ UNCHANGED <<cids, modified, gossip, loading, failed, joins>>

RaiseFlag ==
    /\ modified' = TRUE
    /\ UNCHANGED <<table, cids, contract, stored, passVars, history>>

\* Faulty variant: the loop is told, and does not raise the flag.
FlagCommandUnraised ==
    /\ command # None /\ command.step = "flag" /\ gossip = None
    /\ command' = None
    /\ UNCHANGED <<table, cids, modified, contract, stored, passVars, history,
                   gossip, loading, counters>>

FlagCommand ==
    /\ command # None /\ command.step = "flag" /\ gossip = None
    /\ command' = None
    /\ RaiseFlag
    /\ UNCHANGED <<gossip, loading, counters>>

\* The loop raises the flag, then merges; the first entry of an owner makes a
\* table of its own.
HearChange(o, v) ==
    /\ cids # Left /\ gossip = None
    /\ changes < MaxChanges /\ changes' = changes + 1
    /\ gossip' = <<o, v>>
    /\ RaiseFlag
    /\ UNCHANGED <<command, loading, joins>>

MergeChange ==
    /\ gossip # None
    /\ LET o == gossip[1]
           v == gossip[2]
       IN  Replace(WithData(IF table[o] = None THEN Absent ELSE table, o, v))
    /\ gossip' = None
    /\ UNCHANGED <<cids, modified, command, loading, failed, joins>>

\* leave: the table goes, then, in the loop, the note of the image.
StartLeave ==
    /\ command = None /\ cids # Left
    /\ Replace(Absent)
    /\ command' = [step |-> "leave", copy |-> Absent]
    /\ UNCHANGED <<cids, modified, gossip, loading, failed, joins>>

EndLeave ==
    /\ command # None /\ command.step = "leave" /\ gossip = None
    /\ cids' = Left
    /\ command' = None
    /\ disturbed' = (disturbed \/ pc # "idle")
    /\ missed' = (missed \/ pc # "idle")
    /\ UNCHANGED <<table, modified, contract, stored, gossip, loading, passVars, failed, counters>>

\* init, of an application that is run already, too, and while it is uploaded.
CanJoin ==
    /\ command = None /\ loading = None
    /\ joins < MaxJoins /\ joins' = joins + 1

\* The table of an image: its entries without their data.
Unfilled(i) ==
    [o \in Owners |-> IF i[o] = None THEN None ELSE [data |-> Empty, cid |-> i[o]]]

\* init, when the contract has an image: it is fetched.
FetchImage ==
    /\ CanJoin /\ contract # NoCid
    /\ command' = [step |-> "add", copy |-> Unfilled(contract)]
    /\ UNCHANGED <<table, cids, modified, contract, stored, gossip, loading, passVars,
                   history, changes>>

\* The entries become the table, and a task starts to fetch their data.
AddImage ==
    /\ command # None /\ command.step = "add"
    /\ Replace(command.copy)
    /\ loading' = [step |-> "fill", entries |-> command.copy]
    /\ command' = [command EXCEPT !.step = "join"]
    /\ failed' = (contract # Addresses(command.copy) \/ (failed /\ pc # "idle"))
    /\ UNCHANGED <<cids, modified, gossip, joins>>

\* init, when the contract has no image, or the query fails: some contents are
\* uploaded for the application's own entry.  Nothing is published.
UploadFirst(cid) ==
    /\ CanJoin
    /\ stored' = Uploaded(cid)
    /\ command' = [step |-> "create", copy |-> [Absent EXCEPT ![App] = [data |-> Empty, cid |-> cid]]]
    /\ UNCHANGED <<table, cids, modified, contract, gossip, loading, passVars, history, changes>>

AddFirst ==
    /\ command # None /\ command.step = "create"
    /\ Replace(command.copy)
    /\ command' = [command EXCEPT !.step = "new"]
    /\ failed' = TRUE
    /\ UNCHANGED <<cids, modified, gossip, loading, joins>>

\* The loop notes the image that was found, if any.
EndJoin ==
    /\ command # None /\ command.step \in {"join", "new"} /\ gossip = None
    /\ cids' = IF command.step = "join" THEN Addresses(command.copy) ELSE NoCid
    /\ command' = None
    /\ failed' = (failed \/ contract # cids')
    /\ UNCHANGED <<table, modified, contract, stored, gossip, loading, passVars,
                   disturbed, missed, counters>>

\* Entries with the contents their addresses stand for, where these were fetched.
Filled(t, fetched) ==
    [o \in Owners |-> IF o \in fetched /\ t[o] # None /\ t[o].cid # NoCid
                      THEN [t[o] EXCEPT !.data = t[o].cid] ELSE t[o]]

\* localize_application_data: entries whose data cannot be fetched stay empty.
Localize(fetched) ==
    /\ loading # None /\ loading.step = "fill"
    /\ Replace(Filled(loading.entries, fetched))
    /\ loading' = [step |-> "flag", entries |-> Absent]
    /\ UNCHANGED <<cids, modified, command, gossip, failed, joins>>

FlagLocalized ==
    /\ loading # None /\ loading.step = "flag" /\ gossip = None
    /\ loading' = None
    /\ RaiseFlag
    /\ UNCHANGED <<command, gossip, counters>>

\* What is in memory is lost.
Crash ==
    /\ cids # Left
    /\ table' = Absent /\ cids' = Left /\ modified' = FALSE
    /\ command' = None /\ gossip' = None /\ loading' = None
    /\ pc' = "idle" /\ snapshot' = Absent /\ todo' = {} /\ image' = NoCid
    /\ disturbed' = FALSE /\ failed' = FALSE /\ missed' = FALSE
    /\ UNCHANGED <<contract, stored, counters>>

Others ==
    \/ \E o \in Owners, v \in Contents : StartCommand(o, v) \/ HearChange(o, v)
    \/ PutCopy \/ FlagCommand \/ MergeChange
    \/ StartLeave \/ EndLeave
    \/ FetchImage \/ AddImage \/ \E cid \in Cids : UploadFirst(cid)
    \/ AddFirst \/ EndJoin
    \/ \E fetched \in SUBSET Owners : Localize(fetched)
    \/ FlagLocalized \/ Crash

Init ==
    /\ table = Absent /\ cids = Left /\ modified = FALSE
    /\ contract = NoCid /\ stored = {}
    /\ command = None /\ gossip = None /\ loading = None
    /\ pc = "idle" /\ snapshot = Absent /\ todo = {} /\ image = NoCid
    /\ disturbed = FALSE /\ failed = FALSE /\ missed = FALSE
    /\ changes = 0 /\ joins = 0

Next == UpdateDataImage \/ Others

Spec == Init /\ [][Next]_vars

-----------------------------------------------------------------------------
(* Properties                                                                 *)

(* Every variable has its values; a pass only comes to owners of its snapshot. *)
TypeOK ==
    /\ table \in Tables /\ snapshot \in Tables
    /\ cids \in Images \cup {NoCid, Left} /\ contract \in Images \cup {NoCid}
    /\ image \in Images \cup {NoCid}
    /\ modified \in BOOLEAN
    /\ disturbed \in BOOLEAN /\ failed \in BOOLEAN /\ missed \in BOOLEAN
    /\ stored \subseteq Values
    /\ command \in Commands \cup {None}
    /\ gossip \in (Owners \X Contents) \cup {None}
    /\ loading \in Loadings \cup {None}
    /\ pc \in {"idle", "asked", "copy", "owners", "image", "publish", "clear"}
    /\ todo \subseteq {o \in Owners : snapshot[o] # None}
    /\ changes \in 0 .. MaxChanges /\ joins \in 0 .. MaxJoins

OnIpfs(addresses) == \A o \in Owners : addresses[o] \in stored \cup {None, NoCid}

(* Whatever an address is noted in, what it stands for is on IPFS: the image  *)
(* the contract points to, after any crash, failed upload or race, names      *)
(* nothing that was not uploaded before it.                                   *)
ImageComplete ==
    /\ contract # NoCid => OnIpfs(contract)
    /\ cids \notin {NoCid, Left} => OnIpfs(cids)
    /\ OnIpfs(Addresses(table))

Current ==
    /\ contract = Addresses(table)
    /\ \A o \in Owners :
          table[o] = None \/ table[o].data \in {Empty, table[o].cid}

AtRest == pc = "idle" /\ command = None /\ gossip = None /\ loading = None

(* When the flag is down and nothing is under way, the image the contract     *)
(* points to is that of the table, if during the last upload nobody else      *)
(* changed the table or waited to merge, and since then no upload,            *)
(* transaction or query fell short and no second address was put: a change    *)
(* that is made in any other way is flagged (network.rs 917, 1445; prelude    *)
(* 788).                                                                      *)
FlagTells ==
    (AtRest /\ cids # Left /\ table # Absent /\ ~modified /\ ~failed /\ ~missed) => Current

DataOf(t, o) == IF t[o] = None THEN None ELSE t[o].data

(* An upload changes no data, unless someone changed the table after it was   *)
(* copied (update_data_image puts the copy back, network.rs 1863), and brings *)
(* back no application that was left before the task looked (1676).           *)
PassKeepsData ==
    [][UpdateDataImage /\ ~disturbed =>
          /\ \A o \in Owners : DataOf(table', o) = DataOf(table, o)
          /\ cids = Left => cids' = Left]_vars
=============================================================================
