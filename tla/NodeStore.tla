----------------------------- MODULE NodeStore -----------------------------
(* The database state of one node (DBState in prelude.rs): the tables of its  *)
(* applications, the cache that takes writes while a table is being fetched   *)
(* from IPFS, and the one flag, for all applications together, that says      *)
(* where a write goes.  The tasks that share them are the client commands,    *)
(* the localizers that init starts in the background, the uploads of the      *)
(* synchronization tasks and the network loop, which merges what peers send.  *)
(*                                                                            *)
(* A task holds the lock only to copy a map or to put one back.  What a       *)
(* command does after its last write to the state (sync flag, gossip) is the  *)
(* business of module Replication, and so are the stamps of the units: they   *)
(* are all zero here, so that a gossiped change is newer than they or not.    *)
(* exists and keys change nothing and read as get does.                       *)
EXTENDS AppStore, FiniteSets

CONSTANTS
    Apps,        \* applications, by DID
    Users,       \* DIDs a command may name beside the application's
    Values,
    Gone,        \* history: the key was deleted
    Clients,     \* concurrent client commands
    Localizers,  \* slots for the background tasks of init
    Uploader,    \* the synchronization task of an application
    Loop,        \* the network loop
    Image,       \* Image[a]: what IPFS holds of a, None if a is not uploaded yet
    Heard,       \* the changes that peers may send
    MaxOps,      \* bound on the number of commands, init included
    MaxOthers    \* bound on the number of uploads and gossiped changes

ASSUME OwnersAssumption == Owners = Apps \cup Users
ASSUME ImageAssumption  == Image \in [Apps -> Tables(Values) \cup {None}]
ASSUME OpsAssumption    == MaxOps \in Nat /\ MaxOthers \in Nat
ASSUME TasksAssumption ==
    /\ Clients \cap Localizers = {} /\ Uploader # Loop
    /\ {Uploader, Loop} \cap (Clients \cup Localizers) = {}

VARIABLES
    complete,   \* INITIALIZATION_COMPLETE
    apps,       \* applications: DID -> table, None when not initialized
    cache,      \* cache: DID -> (key -> write), one write per key
    task,       \* task[c]: the command of client c, None when there is none
    localizer,  \* localizer[l]: the fetch running in slot l, None when free
    upload,     \* upload[a]: the copy the upload of a made of its table, or None
    merging,    \* the change the network loop is about to save, or None
    stuck,      \* the network loop waits in a circle of tasks and never goes on
    requests,   \* history: the writes asked for or heard so far
    last,       \* history: last[a][o][k], the outcome of the last command on it
    fresh,      \* history: fresh[a], the tasks whose copy of a's table is the latest
    begun,      \* history: an initialization has begun
    ops, others

beside == <<upload, merging, stuck, begun, others>>
history == <<requests, last, fresh>>
vars == <<complete, apps, cache, task, localizer, history, ops, beside>>

Sams == Users \cup {None}            \* the optional DID of a command
OwnerOf(a, sam) == IF sam = None THEN a ELSE sam

CacheData == [sam : Sams, value : Values]
TempCache == [Keys -> CacheData \cup {None}]
EmptyCache == [k \in Keys |-> None]

Table == Tables(Values)

Task ==
    [cmd : {"init", "set", "get", "del", "truncate", "access"},
     phase : {"complete", "cache", "memory", "store_cache", "store", "answered"},
     app : Apps, sam : Sams, key : Keys \cup {None}, val : Values \cup {None},
     pending : Table \cup TempCache \cup {None}]

Localizing ==
    [app : Apps, phase : {"start", "copy", "store", "tell", "complete", "flush", "clear"},
     pending : Table \cup {None}]

\* A change of a peer.  The units of this node are all stamped zero.
Change ==
    [type : {"Write", "Delete", "Truncate", "Access"}, owner : Owners, key : Keys,
     data : Values, perm : BOOLEAN, write_time : Nat]

ASSUME HeardAssumption == Heard \subseteq Change

Merging == [app : Apps, msg : Change, pending : Table]

Request == [app : Apps, owner : Owners, key : Keys, val : Values]

ASSUME NoneAssumption ==
    /\ None \notin Units(Values) /\ None \notin Entries(Values) /\ None \notin Table
    /\ None \notin Task /\ None \notin Localizing /\ None \notin CacheData
    /\ None \notin Users /\ None \notin Values /\ Gone \notin Values \cup {None}
    /\ None \notin Keys /\ None \notin TempCache /\ None \notin Merging

\* The hashtable of an image: its owners and their access bits, no data yet.
Listed(image) ==
    [o \in Owners |->
        IF image[o] = None THEN None
        ELSE [NewEntry(EmptyData) EXCEPT !.access = image[o].access]]

FreshTable(a) == [EmptyTable EXCEPT ![a] = NewEntry(EmptyData)]

-----------------------------------------------------------------------------
(* History                                                                    *)

\* Task h copies the table of a.
Copies(h, a) == fresh' = [fresh EXCEPT ![a] = @ \cup {h}]

\* A table replaces that of a: of the copies there are none is the latest any more.
Replaces(a, t) ==
    /\ apps' = [apps EXCEPT ![a] = t]
    /\ fresh' = [fresh EXCEPT ![a] = {}]

Outcome(a, o, k, result) == last' = [last EXCEPT ![a][o][k] = result]

Forget(a, o) == last' = [last EXCEPT ![a][o] = [k \in Keys |-> Gone]]

-----------------------------------------------------------------------------
(* Client commands                                                            *)

Begin(c, t) ==
    /\ task[c] = None
    /\ ops < MaxOps
    /\ ops' = ops + 1
    /\ task' = [task EXCEPT ![c] = t]

Return(c) == task' = [task EXCEPT ![c] = None]

Command(cmd, phase, a, sam, k, v) ==
    [cmd |-> cmd, phase |-> phase, app |-> a, sam |-> sam, key |-> k, val |-> v,
     pending |-> None]

Lookup(a) == IF apps[a] = None THEN EmptyTable ELSE apps[a]

\* init_application when the contract names no image: there is none, or the query
\* failed.
InitNew(c, a) ==
    /\ Begin(c, Command("init", "complete", a, None, None, None))
    /\ Replaces(a, FreshTable(a))
    /\ begun' = TRUE
    /\ last' = [last EXCEPT ![a] = [o \in Owners |-> [k \in Keys |-> None]]]
    /\ UNCHANGED <<complete, cache, localizer, requests, upload, merging, stuck, others>>

InitComplete(c) ==
    /\ task[c] # None /\ task[c].cmd = "init"
    /\ complete' = TRUE
    /\ Return(c)
    /\ UNCHANGED <<apps, cache, localizer, history, ops, beside>>

\* init_application of an application with an image: its hashtable without the
\* data goes to memory and a localizer is started.
InitImage(c, a, l) ==
    /\ task[c] = None
    /\ ops < MaxOps
    /\ ops' = ops + 1
    /\ Image[a] # None
    /\ localizer[l] = None
    /\ Replaces(a, Listed(Image[a]))
    /\ localizer' = [localizer EXCEPT ![l] =
           [app |-> a, phase |-> "start", pending |-> None]]
    /\ begun' = TRUE
    /\ last' = [last EXCEPT ![a] = [o \in Owners |-> [k \in Keys |-> None]]]
    /\ UNCHANGED <<complete, cache, task, requests, upload, merging, stuck, others>>

\* forget_application: the application goes from memory; its cached writes stay,
\* and so do the tasks that hold a copy of its table.  The contract's answer to
\* the credentials is never empty: an empty one is parsed to a zero character.
ForgetApplication(c, a) ==
    /\ task[c] = None
    /\ ops < MaxOps
    /\ ops' = ops + 1
    /\ apps[a] # None
    /\ Replaces(a, None)
    /\ last' = [last EXCEPT ![a] = [o \in Owners |-> [k \in Keys |-> None]]]
    /\ UNCHANGED <<complete, cache, task, localizer, requests, beside>>

\* set_db_value: the flag, read once, decides between cache and memory.
SetBegin(c, a, sam, k, v) ==
    /\ apps[a] # None
    /\ Begin(c, Command("set", IF complete THEN "memory" ELSE "cache", a, sam, k, v))
    /\ requests' = requests \cup
           {[app |-> a, owner |-> OwnerOf(a, sam), key |-> k, val |-> v]}
    /\ UNCHANGED <<complete, apps, cache, localizer, last, fresh, beside>>

SetCopyCache(c) ==
    LET t == task[c]
    IN  /\ t # None /\ t.cmd = "set" /\ t.phase = "cache"
        /\ task' = [task EXCEPT ![c] =
               [t EXCEPT !.phase = "store_cache",
                         !.pending = [cache[t.app] EXCEPT ![t.key] =
                                         [sam |-> t.sam, value |-> t.val]]]]
        /\ UNCHANGED <<complete, apps, cache, localizer, history, ops, beside>>

SetCopy(c) ==
    LET t == task[c]
    IN  /\ t # None /\ t.cmd = "set" /\ t.phase = "memory"
        /\ task' = [task EXCEPT ![c] =
               [t EXCEPT !.phase = "store",
                         !.pending = Put(Lookup(t.app), OwnerOf(t.app, t.sam),
                                         t.key, t.val, 0)]]
        /\ Copies(c, t.app)
        /\ UNCHANGED <<complete, apps, cache, localizer, requests, last, ops, beside>>

CacheHit(t) ==
    cache[t.app][t.key] # None /\ cache[t.app][t.key].sam = t.sam

\* del_db_value looks in the cache first (and gossips nothing of what it finds
\* there), truncate and an access change look at memory only.
DelBegin(c, a, sam, k) ==
    /\ Begin(c, Command("del", "cache", a, sam, k, None))
    /\ UNCHANGED <<complete, apps, cache, localizer, history, beside>>

DelCopyCache(c) ==
    LET t == task[c]
    IN  /\ t # None /\ t.cmd = "del" /\ t.phase = "cache"
        /\ task' = [task EXCEPT ![c] =
               IF CacheHit(t)
               THEN [t EXCEPT !.phase = "store_cache",
                              !.pending = [cache[t.app] EXCEPT ![t.key] = None]]
               ELSE [t EXCEPT !.phase = "memory"]]
        /\ UNCHANGED <<complete, apps, cache, localizer, history, ops, beside>>

\* A del that finds nothing, or nothing it may read, returns an error.
DelCopy(c) ==
    LET t == task[c]
        o == OwnerOf(t.app, t.sam)
    IN  /\ t # None /\ t.cmd = "del" /\ t.phase = "memory"
        /\ IF Readable(Lookup(t.app), o) /\ Has(Lookup(t.app), o, t.key)
           THEN /\ task' = [task EXCEPT ![c] =
                       [t EXCEPT !.phase = "store",
                                 !.pending = WithoutKey(Lookup(t.app), o, t.key)]]
                /\ Copies(c, t.app)
           ELSE Return(c) /\ UNCHANGED fresh
        /\ UNCHANGED <<complete, apps, cache, localizer, requests, last, ops, beside>>

TruncateBegin(c, a, sam) ==
    LET o == OwnerOf(a, sam)
    IN  /\ Readable(Lookup(a), o)
        /\ Begin(c, [Command("truncate", "store", a, sam, None, None)
                        EXCEPT !.pending = WithoutData(Lookup(a), o)])
        /\ Copies(c, a)
        /\ UNCHANGED <<complete, apps, cache, localizer, requests, last, beside>>

AccessBegin(c, a, sam, perm) ==
    LET o == OwnerOf(a, sam)
    IN  /\ Lookup(a)[o] # None
        /\ Begin(c, [Command("access", "store", a, sam, None, None)
                        EXCEPT !.pending = WithAccess(Lookup(a), o, perm, 0)])
        /\ Copies(c, a)
        /\ UNCHANGED <<complete, apps, cache, localizer, requests, last, beside>>

\* The copy goes back into the cache, over whatever was written meanwhile.
StoreCache(c) ==
    LET t == task[c]
        o == OwnerOf(t.app, t.sam)
    IN  /\ t # None /\ t.phase = "store_cache"
        /\ cache' = [cache EXCEPT ![t.app] = t.pending]
        /\ Return(c)
        /\ Outcome(t.app, o, t.key, IF t.cmd = "set" THEN t.val ELSE Gone)
        /\ UNCHANGED <<complete, apps, localizer, requests, fresh, ops, beside>>

\* The same with memory.
Store(c) ==
    LET t == task[c]
        o == OwnerOf(t.app, t.sam)
    IN  /\ t # None /\ t.phase = "store"
        /\ Replaces(t.app, t.pending)
        /\ Return(c)
        /\ CASE t.cmd = "set"      -> Outcome(t.app, o, t.key, t.val)
             [] t.cmd = "del"      -> Outcome(t.app, o, t.key, Gone)
             [] t.cmd = "truncate" -> Forget(t.app, o)
             [] OTHER              -> UNCHANGED last
        /\ UNCHANGED <<complete, cache, localizer, requests, ops, beside>>

GetBegin(c, a, sam, k) ==
    /\ Begin(c, Command("get", "cache", a, sam, k, None))
    /\ UNCHANGED <<complete, apps, cache, localizer, history, beside>>

\* Faulty variant: the cached write is answered whoever owns it.
GetCacheAnyOwner(c) ==
    LET t == task[c]
    IN  /\ t # None /\ t.cmd = "get" /\ t.phase = "cache"
        /\ task' = [task EXCEPT ![c] =
               IF cache[t.app][t.key] # None
               THEN [t EXCEPT !.phase = "answered", !.val = cache[t.app][t.key].value]
               ELSE [t EXCEPT !.phase = "memory"]]
        /\ UNCHANGED <<complete, apps, cache, localizer, history, ops, beside>>

\* get_db_value: from the cache, whatever the owner's access bit says ...
GetCache(c) ==
    LET t == task[c]
    IN  /\ t # None /\ t.cmd = "get" /\ t.phase = "cache"
        /\ task' = [task EXCEPT ![c] =
               IF CacheHit(t)
               THEN [t EXCEPT !.phase = "answered", !.val = cache[t.app][t.key].value]
               ELSE [t EXCEPT !.phase = "memory"]]
        /\ UNCHANGED <<complete, apps, cache, localizer, history, ops, beside>>

\* ... or from memory.
GetMemory(c) ==
    LET t == task[c]
        o == OwnerOf(t.app, t.sam)
    IN  /\ t # None /\ t.cmd = "get" /\ t.phase = "memory"
        /\ task' = [task EXCEPT ![c] =
               IF Readable(Lookup(t.app), o) /\ Has(Lookup(t.app), o, t.key)
               THEN [t EXCEPT !.phase = "answered",
                              !.val = Lookup(t.app)[o].data[t.key].data]
               ELSE None]
        /\ UNCHANGED <<complete, apps, cache, localizer, history, ops, beside>>

GetReturn(c) ==
    /\ task[c] # None /\ task[c].phase = "answered"
    /\ Return(c)
    /\ UNCHANGED <<complete, apps, cache, localizer, history, ops, beside>>

-----------------------------------------------------------------------------
(* Localizers (localize_application_data and flush_cache)                     *)

LocalizerAt(l, phase) == localizer[l] # None /\ localizer[l].phase = phase

Move(l, phase) == localizer' = [localizer EXCEPT ![l].phase = phase]

LocalizeStart(l) ==
    /\ LocalizerAt(l, "start")
    /\ complete' = FALSE
    /\ Move(l, "copy")
    /\ UNCHANGED <<apps, cache, task, history, ops, beside>>

\* A copy of the table, with the data of every owner that IPFS answers for.
LocalizeCopy(l) ==
    LET a == localizer[l].app
        table == Lookup(a)
    IN  /\ LocalizerAt(l, "copy")
        /\ \E fetched \in SUBSET {o \in Owners : table[o] # None /\ Image[a][o] # None} :
              localizer' = [localizer EXCEPT ![l] =
                  [app |-> a, phase |-> "store",
                   pending |-> [o \in Owners |->
                       IF o \in fetched
                       THEN [table[o] EXCEPT !.data = Image[a][o].data]
                       ELSE table[o]]]]
        /\ Copies(l, a)
        /\ UNCHANGED <<complete, apps, cache, task, requests, last, ops, beside>>

LocalizeStore(l) ==
    /\ LocalizerAt(l, "store")
    /\ Replaces(localizer[l].app, localizer[l].pending)
    /\ localizer' = [localizer EXCEPT ![l] =
           [app |-> localizer[l].app, phase |-> "tell", pending |-> None]]
    /\ UNCHANGED <<complete, cache, task, requests, last, ops, beside>>

\* The network loop has to take the message that the data was altered.
LocalizeTell(l) ==
    /\ LocalizerAt(l, "tell") /\ ~stuck
    /\ Move(l, "complete")
    /\ UNCHANGED <<complete, apps, cache, task, history, ops, beside>>

\* Faulty variant: the localizer returns to the cache without setting the flag.
LocalizeCompleteUnset(l) ==
    /\ LocalizerAt(l, "complete")
    /\ Move(l, "flush")
    /\ UNCHANGED <<complete, apps, cache, task, history, ops, beside>>

\* Another localizer may still be fetching when this one sets the flag.
LocalizeComplete(l) ==
    /\ LocalizerAt(l, "complete")
    /\ complete' = TRUE
    /\ Move(l, "flush")
    /\ UNCHANGED <<apps, cache, task, history, ops, beside>>

\* flush_cache makes one future per cached write and runs none of them; if the
\* copy it took was not empty it clears the caches of all applications.
FlushCopy(l) ==
    /\ LocalizerAt(l, "flush")
    /\ localizer' = [localizer EXCEPT ![l] =
           IF cache[@.app] = EmptyCache THEN None ELSE [@ EXCEPT !.phase = "clear"]]
    /\ UNCHANGED <<complete, apps, cache, task, history, ops, beside>>

FlushClear(l) ==
    /\ LocalizerAt(l, "clear")
    /\ cache' = [a \in Apps |-> EmptyCache]
    /\ localizer' = [localizer EXCEPT ![l] = None]
    /\ UNCHANGED <<complete, apps, task, history, ops, beside>>

-----------------------------------------------------------------------------
(* Uploads (update_data_image)                                                *)

UploadCopy(a) ==
    /\ upload[a] = None /\ apps[a] # None
    /\ others < MaxOthers /\ others' = others + 1
    /\ upload' = [upload EXCEPT ![a] = apps[a]]
    /\ Copies(Uploader, a)
    /\ UNCHANGED <<complete, apps, cache, task, localizer, merging, stuck, requests,
                   last, begun, ops>>

\* Once for each owner with data whose address is new, over whatever is there by
\* then.
UploadPut(a) ==
    /\ upload[a] # None
    /\ \E o \in Owners : upload[a][o] # None /\ upload[a][o].data # EmptyData
    /\ apps' = [apps EXCEPT ![a] = upload[a]]
    /\ fresh' = [fresh EXCEPT ![a] = {Uploader}]
    /\ UNCHANGED <<complete, cache, task, localizer, requests, last, ops, beside>>

UploadEnd(a) ==
    /\ upload[a] # None
    /\ upload' = [upload EXCEPT ![a] = None]
    /\ fresh' = [fresh EXCEPT ![a] = @ \ {Uploader}]
    /\ UNCHANGED <<complete, apps, cache, task, localizer, merging, stuck, requests,
                   last, begun, ops, others>>

-----------------------------------------------------------------------------
(* The network loop (handle_gossiped_data)                                    *)

\* Gossip is for applications in memory, IGIVE for any: where there is no table an
\* empty one is made.  A copy takes the change, if it is a newer one.
MergeCopy(a, m) ==
    LET merged == Merge(Lookup(a), m, 0)
    IN  /\ merging = None /\ ~stuck
        /\ others < MaxOthers /\ others' = others + 1
        /\ apps' = [apps EXCEPT ![a] = Lookup(a)]
        /\ merging' = IF merged = None THEN None
                      ELSE [app |-> a, msg |-> m, pending |-> merged]
        /\ Copies(Loop, a)
        /\ requests' = IF m.type = "Write"
                       THEN requests \cup
                            {[app |-> a, owner |-> m.owner, key |-> m.key, val |-> m.data]}
                       ELSE requests
        /\ UNCHANGED <<complete, cache, task, localizer, upload, stuck, last, begun, ops>>

MergeStore ==
    /\ merging # None /\ ~stuck
    /\ Replaces(merging.app, merging.pending)
    /\ merging' = None
    /\ UNCHANGED <<complete, cache, task, localizer, upload, stuck, requests, last,
                   begun, ops, others>>

\* NetworkLoop!OnlyKnownCircles names the circles of waiting tasks the loop may be
\* in; nothing takes it out of one.
LoopStops ==
    /\ ~stuck /\ stuck' = TRUE
    /\ UNCHANGED <<complete, apps, cache, task, localizer, upload, merging, history,
                   begun, ops, others>>

-----------------------------------------------------------------------------
Init ==
    /\ complete = FALSE
    /\ apps = [a \in Apps |-> None]
    /\ cache = [a \in Apps |-> EmptyCache]
    /\ task = [c \in Clients |-> None]
    /\ localizer = [l \in Localizers |-> None]
    /\ requests = {}
    /\ last = [a \in Apps |-> [o \in Owners |-> [k \in Keys |-> None]]]
    /\ upload = [a \in Apps |-> None]
    /\ merging = None /\ stuck = FALSE
    /\ fresh = [a \in Apps |-> {}]
    /\ begun = FALSE
    /\ ops = 0 /\ others = 0

InitStep(c) ==
    \/ \E a \in Apps : InitNew(c, a)
    \/ \E a \in Apps, l \in Localizers : InitImage(c, a, l)
    \/ \E a \in Apps : ForgetApplication(c, a)

Start(c) ==
    \E a \in Apps, sam \in Sams :
        \/ \E k \in Keys, v \in Values : SetBegin(c, a, sam, k, v)
        \/ \E k \in Keys : DelBegin(c, a, sam, k) \/ GetBegin(c, a, sam, k)
        \/ TruncateBegin(c, a, sam)
        \/ \E perm \in BOOLEAN : AccessBegin(c, a, sam, perm)

Continue(c) ==
    \/ InitComplete(c)
    \/ SetCopyCache(c) \/ SetCopy(c)
    \/ DelCopyCache(c) \/ DelCopy(c)
    \/ StoreCache(c) \/ Store(c)
    \/ GetCache(c) \/ GetMemory(c) \/ GetReturn(c)

Localize(l) ==
    \/ LocalizeStart(l) \/ LocalizeCopy(l) \/ LocalizeStore(l) \/ LocalizeTell(l)
    \/ LocalizeComplete(l) \/ FlushCopy(l) \/ FlushClear(l)

Beside(a) ==
    \/ UploadCopy(a) \/ UploadPut(a) \/ UploadEnd(a)
    \/ \E m \in Heard : MergeCopy(a, m)

Next ==
    \/ \E c \in Clients : InitStep(c) \/ Start(c) \/ Continue(c)
    \/ \E l \in Localizers : Localize(l)
    \/ \E a \in Apps : Beside(a)
    \/ MergeStore \/ LoopStops

Spec == Init /\ [][Next]_vars

\* The executor runs every task it has, and the calls to IPFS return.  Nothing is
\* assumed once the network loop is stuck: tasks in such a circle hold locks, so
\* that any other task may have to wait for good.
Fairness ==
    /\ \A c \in Clients : WF_vars(~stuck /\ Continue(c))
    /\ \A l \in Localizers : WF_vars(~stuck /\ Localize(l))

FairSpec == Spec /\ Fairness

-----------------------------------------------------------------------------
(* Properties                                                                 *)

TypeOK ==
    /\ complete \in BOOLEAN
    /\ apps \in [Apps -> Table \cup {None}]
    /\ cache \in [Apps -> TempCache]
    /\ task \in [Clients -> Task \cup {None}]
    /\ localizer \in [Localizers -> Localizing \cup {None}]
    /\ requests \subseteq Request
    /\ last \in [Apps -> [Owners -> [Keys -> Values \cup {Gone, None}]]]
    /\ upload \in [Apps -> Table \cup {None}]
    /\ merging \in Merging \cup {None}
    /\ stuck \in BOOLEAN /\ begun \in BOOLEAN
    /\ fresh \in [Apps -> SUBSET (Clients \cup Localizers \cup {Uploader, Loop})]
    /\ ops \in Nat /\ others \in Nat

Fetched(a, o, k, v) ==
    Image[a] # None /\ Has(Image[a], o, k) /\ Image[a][o].data[k].data = v

(* get_db_value answers, from the cache or from memory, a value that was set  *)
(* for the very application, owner and key it is asked for, here or by a peer, *)
(* or that is in the application's image; the cache holds one write per key,  *)
(* whoever owns it, and five kinds of tasks put back copies of the table.     *)
AnswersAreWrites ==
    \A c \in Clients :
        LET t == task[c]
            o == OwnerOf(t.app, t.sam)
        IN  (t # None /\ t.phase = "answered") =>
               \/ [app |-> t.app, owner |-> o, key |-> t.key, val |-> t.val] \in requests
               \/ Fetched(t.app, o, t.key, t.val)

(* Writes go to the cache only while there is a task that will end that: the  *)
(* flag never stays down with nobody left to raise it.                        *)
FlagDownWhileInitializing ==
    ~complete =>
        \/ ~begun
        \/ \E c \in Clients : task[c] # None /\ task[c].cmd = "init"
        \/ \E l \in Localizers : localizer[l] # None /\
               localizer[l].phase \in {"start", "copy", "store", "tell", "complete"}

\* What a table, and memory, hold of a key.
Shown(table, o, k) == IF Has(table, o, k) THEN table[o].data[k].data ELSE Gone

Memory(a, o, k) == Shown(Lookup(a), o, k)

\* What get answers to one who may read the owner's data.
Answer(a, sam, k) ==
    IF cache[a][k] # None /\ cache[a][k].sam = sam
    THEN cache[a][k].value
    ELSE Memory(a, OwnerOf(a, sam), k)

Unread(a, sam, k) ==
    LET outcome == last[a][OwnerOf(a, sam)][k]
    IN  outcome # None /\ Answer(a, sam, k) # outcome

\* The data that a command, and a change of a peer, mean to change.
MeantBy(t, o, k) ==
    /\ o = OwnerOf(t.app, t.sam)
    /\ t.cmd \in {"set", "del"} => k = t.key
    /\ t.cmd # "access"

HeardOf(m, o, k) ==
    /\ o = m.owner
    /\ m.type \in {"Write", "Delete"} => k = m.key
    /\ m.type # "Access"

\* The step changes the data of o's k as somebody means it to, or puts a copy back
\* that was not the latest.
ChangeMeant(a, o, k) ==
    \/ \E c \in Clients :
          \/ InitNew(c, a) \/ ForgetApplication(c, a)
          \/ \E l \in Localizers : InitImage(c, a, l)
          \/ Store(c) /\ task[c].app = a /\ (c \in fresh[a] => MeantBy(task[c], o, k))
    \/ \E l \in Localizers :
          LocalizeStore(l) /\ localizer[l].app = a /\ (l \in fresh[a] => Image[a][o] # None)
    \/ UploadPut(a) /\ Uploader \notin fresh[a]
    \/ /\ MergeStore /\ merging.app = a
       /\ Loop \in fresh[a] =>
             \/ HeardOf(merging.msg, o, k)
             \/ merging.msg.type = "Write" /\ Lookup(a)[merging.msg.owner] = None

(* Commands, localizers, uploads and the network loop put back copies of the  *)
(* same table.  What memory holds of a key only changes when somebody means   *)
(* it: a command on that very key, a localizer with the key's owner in the    *)
(* image, a gossiped change of the owner or one that begins the table anew,   *)
(* init and leave; unless the copy that was put back was not the latest.      *)
DataChangesAsMeant ==
    [][\A a \in Apps, o \in Owners, k \in Keys :
          Memory(a, o, k)' # Memory(a, o, k) => ChangeMeant(a, o, k)]_vars

(* Once an application was initialized, writes do reach memory at some time:  *)
(* the initialization phase ends, whichever tasks take part in it, unless the *)
(* network loop, which the localizer tells of the new data first (prelude     *)
(* 788), is stuck.                                                            *)
CacheModeEnds == begun ~> (complete \/ stuck)

(* prelude.rs: the flag is there "to prevent race conditions and possible     *)
(* loss of data when we're still intializing the database and SET is run".    *)
(* When all is done, the last accepted write of each key is what get answers. *)
AcceptedWritesRead ==
    ((\A c \in Clients : task[c] = None) /\ (\A l \in Localizers : localizer[l] = None))
        => \A a \in Apps, sam \in Sams, k \in Keys :
               last[a][OwnerOf(a, sam)][k] \in Values => ~Unread(a, sam, k)
=============================================================================
