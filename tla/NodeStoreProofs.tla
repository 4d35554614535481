--------------------------- MODULE NodeStoreProofs ---------------------------
(* Proofs about NodeStore, for any applications, users, keys, values, images, *)
(* client commands and localizers, and any number of them.                    *)
EXTENDS NodeStore, AppStoreTheorems

USE OwnersAssumption, ImageAssumption, HeardAssumption, OpsAssumption, TasksAssumption,
    NoneAssumption DEF history, beside, Replaces, Copies

-----------------------------------------------------------------------------
(* Types.  What is pending depends on the phase: a table or a cache.          *)

WellFormed(t) ==
    /\ t \in Task
    /\ t.cmd = "init" => t.phase = "complete"
    /\ t.cmd \in {"set", "del", "get"} => t.key \in Keys
    /\ t.cmd = "set" => t.val \in Values
    /\ t.phase = "store" => t.pending \in Table
    /\ t.phase = "store_cache" => t.cmd \in {"set", "del"} /\ t.pending \in TempCache
    /\ t.phase = "answered" => t.cmd = "get" /\ t.val \in Values

WellLocalizing(l) ==
    /\ l \in Localizing
    /\ Image[l.app] # None
    /\ l.phase = "store" => l.pending \in Table

StoreTyped ==
    /\ complete \in BOOLEAN
    /\ apps \in [Apps -> Table \cup {None}]
    /\ cache \in [Apps -> TempCache]

TasksTyped ==
    /\ task \in [Clients -> Task \cup {None}]
    /\ \A c \in Clients : task[c] # None => WellFormed(task[c])

LocalizersTyped ==
    /\ localizer \in [Localizers -> Localizing \cup {None}]
    /\ \A l \in Localizers : localizer[l] # None => WellLocalizing(localizer[l])

HistoryTyped ==
    /\ requests \subseteq Request
    /\ last \in [Apps -> [Owners -> [Keys -> Values \cup {Gone, None}]]]
    /\ ops \in Nat

TypeInv == StoreTyped /\ TasksTyped /\ LocalizersTyped /\ HistoryTyped

LEMMA OwnerOfType ==
    ASSUME NEW a \in Apps, NEW sam \in Sams PROVE OwnerOf(a, sam) \in Owners
BY DEF OwnerOf, Sams

LEMMA EmptyTypes ==
    /\ EmptyData \in [Keys -> Units(Values) \cup {None}]
    /\ EmptyTable \in Table
    /\ EmptyCache \in TempCache
    /\ NewEntry(EmptyData) \in Entries(Values)
<1>1. EmptyData \in [Keys -> Units(Values) \cup {None}]
    BY DEF EmptyData
<1> QED
    BY <1>1 DEF EmptyTable, Table, Tables, EmptyCache, TempCache, NewEntry, Entries

LEMMA FreshTableType == ASSUME NEW a \in Apps PROVE FreshTable(a) \in Table
BY EmptyTypes DEF FreshTable, Table, Tables

LEMMA ListedType ==
    ASSUME NEW image \in Table PROVE Listed(image) \in Table
<1>1. ASSUME NEW o \in Owners, image[o] # None
      PROVE  [NewEntry(EmptyData) EXCEPT !.access = image[o].access] \in Entries(Values)
    <2>1. image[o] \in Entries(Values)
        BY <1>1 DEF Table, Tables
    <2> QED
        BY <2>1, EmptyTypes DEF Entries
<1> QED
    BY <1>1 DEF Listed, Table, Tables

LEMMA LookupType == ASSUME StoreTyped, NEW a \in Apps PROVE Lookup(a) \in Table
BY EmptyTypes DEF Lookup, StoreTyped

LEMMA ImageType == ASSUME NEW a \in Apps, Image[a] # None PROVE Image[a] \in Table
BY DEF Table

\* A task becomes another one, or ends.
LEMMA TaskTypes ==
    ASSUME TasksTyped, NEW c \in Clients, NEW t, t = None \/ WellFormed(t),
           task' = [task EXCEPT ![c] = t]
    PROVE  TasksTyped'
<1>1. t \in Task \cup {None}
    BY DEF WellFormed
<1> QED
    BY <1>1 DEF TasksTyped

LEMMA LocalizerTypes ==
    ASSUME LocalizersTyped, NEW l \in Localizers, NEW loc,
           loc = None \/ WellLocalizing(loc),
           localizer' = [localizer EXCEPT ![l] = loc]
    PROVE  LocalizersTyped'
<1>1. loc \in Localizing \cup {None}
    BY DEF WellLocalizing
<1> QED
    BY <1>1 DEF LocalizersTyped

\* The task a command starts as.
LEMMA CommandTypes ==
    ASSUME NEW cmd \in {"init", "set", "get", "del", "truncate", "access"},
           NEW phase \in {"complete", "cache", "memory", "store"},
           NEW a \in Apps, NEW sam \in Sams, NEW k \in Keys \cup {None},
           NEW v \in Values \cup {None},
           cmd = "init" => phase = "complete",
           cmd \in {"set", "del", "get"} => k \in Keys,
           cmd = "set" => v \in Values
    PROVE  /\ phase # "store" => WellFormed(Command(cmd, phase, a, sam, k, v))
           /\ \A table \in Table :
                 WellFormed([Command(cmd, phase, a, sam, k, v) EXCEPT !.pending = table])
BY DEF Command, WellFormed, Task

\* The history variables keep their types, whatever is recorded.
LEMMA HistoryTypes ==
    ASSUME HistoryTyped, NEW a \in Apps
    PROVE  /\ \A o \in Owners, k \in Keys, v \in Values \cup {Gone, None} :
                 Outcome(a, o, k, v) =>
                     last' \in [Apps -> [Owners -> [Keys -> Values \cup {Gone, None}]]]
           /\ \A o \in Owners : Forget(a, o) =>
                 last' \in [Apps -> [Owners -> [Keys -> Values \cup {Gone, None}]]]
           /\ last' = [last EXCEPT ![a] = [o \in Owners |-> [k \in Keys |-> None]]] =>
                 last' \in [Apps -> [Owners -> [Keys -> Values \cup {Gone, None}]]]
<1> DEFINE Outcomes == Values \cup {Gone, None}
<1>3. last \in [Apps -> [Owners -> [Keys -> Outcomes]]]
    BY DEF HistoryTyped
<1>4. last[a] \in [Owners -> [Keys -> Outcomes]]
    BY <1>3
<1>5. ASSUME NEW o \in Owners, NEW k \in Keys, NEW v \in Outcomes, Outcome(a, o, k, v)
      PROVE  last' \in [Apps -> [Owners -> [Keys -> Outcomes]]]
    <2> DEFINE row == [last[a][o] EXCEPT ![k] = v]
    <2>1. row \in [Keys -> Outcomes]
        BY <1>4
    <2>2. [last[a] EXCEPT ![o] = row] \in [Owners -> [Keys -> Outcomes]]
        BY <1>4, <2>1
    <2>3. last' = [last EXCEPT ![a] = [last[a] EXCEPT ![o] = row]]
        BY <1>5 DEF Outcome
    <2> QED
        BY <1>3, <2>2, <2>3
<1>6. ASSUME NEW o \in Owners, Forget(a, o)
      PROVE  last' \in [Apps -> [Owners -> [Keys -> Outcomes]]]
    <2> DEFINE row == [k \in Keys |-> Gone]
    <2>1. row \in [Keys -> Outcomes]
        OBVIOUS
    <2>2. [last[a] EXCEPT ![o] = row] \in [Owners -> [Keys -> Outcomes]]
        BY <1>4, <2>1
    <2>3. last' = [last EXCEPT ![a] = [last[a] EXCEPT ![o] = row]]
        BY <1>6 DEF Forget
    <2> QED
        BY <1>3, <2>2, <2>3
<1>7. ASSUME last' = [last EXCEPT ![a] = [o \in Owners |-> [k \in Keys |-> None]]]
      PROVE  last' \in [Apps -> [Owners -> [Keys -> Outcomes]]]
    <2>1. [o \in Owners |-> [k \in Keys |-> None]] \in [Owners -> [Keys -> Outcomes]]
        OBVIOUS
    <2> QED
        BY <1>3, <1>7, <2>1
<1> QED
    BY <1>5, <1>6, <1>7

\* What is left alone keeps its type.
LEMMA UnchangedTypes ==
    ASSUME TypeInv
    PROVE  /\ UNCHANGED <<complete, apps, cache>> => StoreTyped'
           /\ UNCHANGED task => TasksTyped'
           /\ UNCHANGED localizer => LocalizersTyped'
           /\ UNCHANGED <<requests, last, ops>> => HistoryTyped'
BY DEF TypeInv, StoreTyped, TasksTyped, LocalizersTyped, HistoryTyped

\* A command begins: it has written nothing yet.
LEMMA BeginTypes ==
    ASSUME TypeInv, NEW c \in Clients, NEW a \in Apps, NEW t, WellFormed(t),
           Begin(c, t), requests' \subseteq Request,
           UNCHANGED <<complete, apps, cache, localizer, last>>
    PROVE  TypeInv'
<1>1. TasksTyped'
    BY TaskTypes DEF Begin, TypeInv
<1>2. ops' \in Nat
    BY DEF Begin, TypeInv, HistoryTyped
<1>3. HistoryTyped'
    BY <1>2, HistoryTypes DEF TypeInv, HistoryTyped
<1> QED
    BY <1>1, <1>3, UnchangedTypes DEF TypeInv

\* A command takes a copy, or returns.
LEMMA TaskStepTypes ==
    ASSUME TypeInv, NEW c \in Clients, NEW t, t = None \/ WellFormed(t),
           task' = [task EXCEPT ![c] = t],
           UNCHANGED <<complete, apps, cache, localizer, requests, last, ops>>
    PROVE  TypeInv'
<1>1. TasksTyped'
    BY TaskTypes DEF TypeInv
<1> QED
    BY <1>1, UnchangedTypes DEF TypeInv

LEMMA TypeInit == ASSUME Init PROVE TypeInv
BY EmptyTypes DEF Init, TypeInv, StoreTyped, TasksTyped, LocalizersTyped, HistoryTyped

LEMMA InitStepTypes ==
    ASSUME TypeInv, NEW c \in Clients, InitStep(c) PROVE TypeInv'
<1>1. ASSUME NEW a \in Apps, InitNew(c, a) PROVE TypeInv'
    <2>1. WellFormed(Command("init", "complete", a, None, None, None))
        BY CommandTypes DEF Sams
    <2>2. TasksTyped'
        BY <1>1, <2>1, TaskTypes DEF InitNew, Begin, TypeInv
    <2>3. StoreTyped'
        BY <1>1, FreshTableType DEF InitNew, TypeInv, StoreTyped
    <2>4. HistoryTyped'
        <3>1. ops' \in Nat /\ requests' \subseteq Request
            BY <1>1 DEF InitNew, Begin, TypeInv, HistoryTyped
        <3> QED
            BY <1>1, <3>1, HistoryTypes DEF InitNew, TypeInv, HistoryTyped
    <2> QED
        BY <1>1, <2>2, <2>3, <2>4, UnchangedTypes DEF InitNew, TypeInv
<1>2. ASSUME NEW a \in Apps, NEW l \in Localizers, InitImage(c, a, l) PROVE TypeInv'
    <2>1. WellLocalizing([app |-> a, phase |-> "start", pending |-> None])
        BY <1>2 DEF InitImage, WellLocalizing, Localizing
    <2>2. LocalizersTyped'
        BY <1>2, <2>1, LocalizerTypes DEF InitImage, TypeInv
    <2>3. StoreTyped'
        BY <1>2, ImageType, ListedType DEF InitImage, TypeInv, StoreTyped
    <2>4. HistoryTyped'
        <3>1. ops' \in Nat /\ requests' \subseteq Request
            BY <1>2 DEF InitImage, TypeInv, HistoryTyped
        <3> QED
            BY <1>2, <3>1, HistoryTypes DEF InitImage, TypeInv, HistoryTyped
    <2> QED
        BY <1>2, <2>2, <2>3, <2>4, UnchangedTypes DEF InitImage, TypeInv
<1>3. ASSUME NEW a \in Apps, ForgetApplication(c, a) PROVE TypeInv'
    <2>1. StoreTyped'
        BY <1>3 DEF ForgetApplication, TypeInv, StoreTyped
    <2>2. HistoryTyped'
        <3>1. ops' \in Nat /\ requests' \subseteq Request
            BY <1>3 DEF ForgetApplication, TypeInv, HistoryTyped
        <3> QED
            BY <1>3, <3>1, HistoryTypes DEF ForgetApplication, TypeInv, HistoryTyped
    <2> QED
        BY <1>3, <2>1, <2>2, UnchangedTypes DEF ForgetApplication, TypeInv
<1> QED
    BY <1>1, <1>2, <1>3 DEF InitStep

LEMMA StartTypes ==
    ASSUME TypeInv, NEW c \in Clients, Start(c) PROVE TypeInv'
<1> SUFFICES ASSUME NEW a \in Apps, NEW sam \in Sams,
                    \/ \E k \in Keys, v \in Values : SetBegin(c, a, sam, k, v)
                    \/ \E k \in Keys : DelBegin(c, a, sam, k) \/ GetBegin(c, a, sam, k)
                    \/ TruncateBegin(c, a, sam)
                    \/ \E perm \in BOOLEAN : AccessBegin(c, a, sam, perm)
             PROVE  TypeInv'
    BY DEF Start
<1>1. OwnerOf(a, sam) \in Owners /\ Lookup(a) \in Table
    BY OwnerOfType, LookupType DEF TypeInv
<1>2. requests \subseteq Request
    BY DEF TypeInv, HistoryTyped
<1>3. ASSUME NEW k \in Keys, NEW v \in Values, SetBegin(c, a, sam, k, v) PROVE TypeInv'
    <2> DEFINE phase == IF complete THEN "memory" ELSE "cache"
    <2>1. WellFormed(Command("set", phase, a, sam, k, v))
        BY CommandTypes
    <2>2. requests' \subseteq Request
        BY <1>1, <1>2, <1>3 DEF SetBegin, Request
    <2>3. Begin(c, Command("set", phase, a, sam, k, v))
        BY <1>3 DEF SetBegin
    <2> HIDE DEF phase
    <2> QED
        BY <1>3, <2>1, <2>2, <2>3, BeginTypes DEF SetBegin
<1>4. ASSUME NEW k \in Keys, DelBegin(c, a, sam, k) PROVE TypeInv'
    <2>1. WellFormed(Command("del", "cache", a, sam, k, None))
        BY CommandTypes
    <2> QED
        BY <1>2, <1>4, <2>1, BeginTypes DEF DelBegin
<1>5. ASSUME NEW k \in Keys, GetBegin(c, a, sam, k) PROVE TypeInv'
    <2>1. WellFormed(Command("get", "cache", a, sam, k, None))
        BY CommandTypes
    <2> QED
        BY <1>2, <1>5, <2>1, BeginTypes DEF GetBegin
<1>6. ASSUME TruncateBegin(c, a, sam) PROVE TypeInv'
    <2> DEFINE t == [Command("truncate", "store", a, sam, None, None)
                         EXCEPT !.pending = WithoutData(Lookup(a), OwnerOf(a, sam))]
    <2>1. WithoutData(Lookup(a), OwnerOf(a, sam)) \in Table
        BY <1>1, <1>6, WithoutDataFacts DEF TruncateBegin, Readable, Table
    <2>2. WellFormed(t)
        BY <2>1, CommandTypes
    <2>3. Begin(c, t)
        BY <1>6 DEF TruncateBegin
    <2> HIDE DEF t
    <2> QED
        BY <1>2, <1>6, <2>2, <2>3, BeginTypes DEF TruncateBegin
<1>7. ASSUME NEW perm \in BOOLEAN, AccessBegin(c, a, sam, perm) PROVE TypeInv'
    <2> DEFINE t == [Command("access", "store", a, sam, None, None)
                         EXCEPT !.pending = WithAccess(Lookup(a), OwnerOf(a, sam), perm, 0)]
    <2>1. WithAccess(Lookup(a), OwnerOf(a, sam), perm, 0) \in Table
        BY <1>1, <1>7, WithAccessFacts DEF AccessBegin, Table
    <2>2. WellFormed(t)
        BY <2>1, CommandTypes
    <2>3. Begin(c, t)
        BY <1>7 DEF AccessBegin
    <2> HIDE DEF t
    <2> QED
        BY <1>2, <1>7, <2>2, <2>3, BeginTypes DEF AccessBegin
<1> QED
    BY <1>3, <1>4, <1>5, <1>6, <1>7

\* What a task may become.
LEMMA WellFormedSteps ==
    ASSUME NEW t, WellFormed(t), t.cmd # "init"
    PROVE  /\ \A table \in Table :
                 WellFormed([t EXCEPT !.phase = "store", !.pending = table])
           /\ t.cmd \in {"set", "del"} => \A tc \in TempCache :
                 WellFormed([t EXCEPT !.phase = "store_cache", !.pending = tc])
           /\ WellFormed([t EXCEPT !.phase = "memory"])
           /\ t.cmd = "get" => \A v \in Values :
                 WellFormed([t EXCEPT !.phase = "answered", !.val = v])
<1>1. ASSUME NEW table \in Table
      PROVE  WellFormed([t EXCEPT !.phase = "store", !.pending = table])
    BY DEF WellFormed, Task
<1>2. ASSUME t.cmd \in {"set", "del"}, NEW tc \in TempCache
      PROVE  WellFormed([t EXCEPT !.phase = "store_cache", !.pending = tc])
    BY <1>2 DEF WellFormed, Task
<1>3. WellFormed([t EXCEPT !.phase = "memory"])
    BY DEF WellFormed, Task
<1>4. ASSUME t.cmd = "get", NEW v \in Values
      PROVE  WellFormed([t EXCEPT !.phase = "answered", !.val = v])
    BY <1>4 DEF WellFormed, Task
<1> QED
    BY <1>1, <1>2, <1>3, <1>4

\* What a running task refers to.
LEMMA TaskParts ==
    ASSUME TypeInv, NEW c \in Clients, task[c] # None
    PROVE  /\ WellFormed(task[c])
           /\ task[c].app \in Apps /\ task[c].sam \in Sams
           /\ OwnerOf(task[c].app, task[c].sam) \in Owners
           /\ Lookup(task[c].app) \in Table
           /\ cache[task[c].app] \in TempCache
           /\ \A k \in Keys : cache[task[c].app][k] # None =>
                 cache[task[c].app][k].value \in Values
<1>1. WellFormed(task[c])
    BY DEF TypeInv, TasksTyped
<1>2. task[c].app \in Apps /\ task[c].sam \in Sams
    BY <1>1 DEF WellFormed, Task
<1>3. cache[task[c].app] \in TempCache
    BY <1>2 DEF TypeInv, StoreTyped
<1>4. \A k \in Keys : cache[task[c].app][k] # None => cache[task[c].app][k].value \in Values
    BY <1>3 DEF TempCache, CacheData
<1> QED
    BY <1>1, <1>2, <1>3, <1>4, OwnerOfType, LookupType DEF TypeInv

LEMMA ContinueTypes ==
    ASSUME TypeInv, NEW c \in Clients, Continue(c) PROVE TypeInv'
<1> DEFINE t == task[c]
           a == t.app
           o == OwnerOf(t.app, t.sam)
<1>1. t # None
    BY DEF Continue, InitComplete, SetCopyCache, SetCopy, DelCopyCache, DelCopy,
           StoreCache, Store, GetCache, GetMemory, GetReturn
<1>2. /\ WellFormed(t) /\ a \in Apps /\ t.sam \in Sams /\ o \in Owners
      /\ Lookup(a) \in Table /\ cache[a] \in TempCache
      /\ \A k \in Keys : cache[a][k] # None => cache[a][k].value \in Values
    BY <1>1, TaskParts
<1>3. CASE InitComplete(c)
    <2>1. TasksTyped'
        BY <1>3, TaskTypes DEF InitComplete, Return, TypeInv
    <2>2. StoreTyped'
        BY <1>3 DEF InitComplete, TypeInv, StoreTyped
    <2> QED
        BY <1>3, <2>1, <2>2, UnchangedTypes DEF InitComplete, TypeInv
<1>4. CASE SetCopyCache(c)
    <2> DEFINE tc == [cache[a] EXCEPT ![t.key] = [sam |-> t.sam, value |-> t.val]]
    <2>1. t.cmd = "set" /\ t.key \in Keys /\ t.val \in Values
        BY <1>2, <1>4 DEF SetCopyCache, WellFormed
    <2>2. tc \in TempCache
        BY <1>2, <2>1 DEF TempCache, CacheData
    <2>3. task' = [task EXCEPT ![c] = [t EXCEPT !.phase = "store_cache", !.pending = tc]]
        BY <1>4 DEF SetCopyCache
    <2>4. WellFormed([t EXCEPT !.phase = "store_cache", !.pending = tc])
        BY <1>2, <2>1, <2>2, WellFormedSteps
    <2> HIDE DEF tc, t
    <2> QED
        BY <1>4, <2>3, <2>4, TaskStepTypes DEF SetCopyCache
<1>5. CASE SetCopy(c)
    <2> DEFINE table == Put(Lookup(a), o, t.key, t.val, 0)
    <2>1. t.cmd = "set" /\ t.key \in Keys /\ t.val \in Values
        BY <1>2, <1>5 DEF SetCopy, WellFormed
    <2>2. table \in Table
        BY <1>2, <2>1, PutType DEF Table
    <2>3. task' = [task EXCEPT ![c] = [t EXCEPT !.phase = "store", !.pending = table]]
        BY <1>5 DEF SetCopy
    <2>4. WellFormed([t EXCEPT !.phase = "store", !.pending = table])
        BY <1>2, <2>1, <2>2, WellFormedSteps
    <2> HIDE DEF table, t
    <2> QED
        BY <1>5, <2>3, <2>4, TaskStepTypes DEF SetCopy
<1>6. CASE DelCopyCache(c)
    <2> DEFINE tc == [cache[a] EXCEPT ![t.key] = None]
               u == IF CacheHit(t)
                    THEN [t EXCEPT !.phase = "store_cache", !.pending = tc]
                    ELSE [t EXCEPT !.phase = "memory"]
    <2>1. t.cmd = "del" /\ t.key \in Keys
        BY <1>2, <1>6 DEF DelCopyCache, WellFormed
    <2>2. tc \in TempCache
        BY <1>2, <2>1 DEF TempCache
    <2>3. task' = [task EXCEPT ![c] = u]
        BY <1>6 DEF DelCopyCache
    <2>4. WellFormed(u)
        BY <1>2, <2>1, <2>2, WellFormedSteps
    <2> HIDE DEF u, tc, t
    <2> QED
        BY <1>6, <2>3, <2>4, TaskStepTypes DEF DelCopyCache
<1>7. CASE DelCopy(c)
    <2> DEFINE found == Readable(Lookup(a), o) /\ Has(Lookup(a), o, t.key)
               table == WithoutKey(Lookup(a), o, t.key)
               u == IF found THEN [t EXCEPT !.phase = "store", !.pending = table] ELSE None
    <2>1. t.cmd = "del" /\ t.key \in Keys
        BY <1>2, <1>7 DEF DelCopy, WellFormed
    <2>2. found => table \in Table
        BY <1>2, <2>1, WithoutKeyFacts DEF Has, Table
    <2>3. task' = [task EXCEPT ![c] = u]
        BY <1>7 DEF DelCopy, Return
    <2> HIDE DEF found, table
    <2>4. u = None \/ WellFormed(u)
        BY <1>2, <2>1, <2>2, WellFormedSteps
    <2> HIDE DEF u, t
    <2> QED
        BY <1>7, <2>3, <2>4, TaskStepTypes DEF DelCopy
<1>8. CASE StoreCache(c)
    <2>1. t.cmd \in {"set", "del"} /\ t.key \in Keys /\ t.pending \in TempCache
          /\ (t.cmd = "set" => t.val \in Values)
        BY <1>2, <1>8 DEF StoreCache, WellFormed
    <2>2. TasksTyped'
        BY <1>8, TaskTypes DEF StoreCache, Return, TypeInv
    <2>3. StoreTyped'
        BY <1>2, <1>8, <2>1 DEF StoreCache, TypeInv, StoreTyped
    <2>4. HistoryTyped'
        <3> DEFINE v == IF t.cmd = "set" THEN t.val ELSE Gone
        <3>1. v \in Values \cup {Gone, None}
            BY <2>1
        <3>2. Outcome(a, o, t.key, v)
            BY <1>8 DEF StoreCache
        <3> HIDE DEF v, t
        <3> QED
            BY <1>2, <1>8, <2>1, <3>1, <3>2, HistoryTypes
            DEF StoreCache, TypeInv, HistoryTyped
    <2> QED
        BY <1>8, <2>2, <2>3, <2>4, UnchangedTypes DEF StoreCache, TypeInv
<1>9. CASE Store(c)
    <2>1. t.pending \in Table
          /\ (t.cmd \in {"set", "del"} => t.key \in Keys)
          /\ (t.cmd = "set" => t.val \in Values)
        BY <1>2, <1>9 DEF Store, WellFormed
    <2>2. TasksTyped'
        BY <1>9, TaskTypes DEF Store, Return, TypeInv
    <2>3. StoreTyped'
        BY <1>2, <1>9, <2>1 DEF Store, TypeInv, StoreTyped
    <2>4. HistoryTyped'
        <3>1. \/ t.cmd = "set" /\ Outcome(a, o, t.key, t.val)
              \/ t.cmd = "del" /\ Outcome(a, o, t.key, Gone)
              \/ Forget(a, o)
              \/ UNCHANGED last
            BY <1>9 DEF Store
        <3> HIDE DEF t
        <3>2. last' \in [Apps -> [Owners -> [Keys -> Values \cup {Gone, None}]]]
            BY <1>2, <2>1, <3>1, HistoryTypes DEF TypeInv, HistoryTyped
        <3> QED
            BY <1>9, <3>2 DEF Store, TypeInv, HistoryTyped
    <2> QED
        BY <1>9, <2>2, <2>3, <2>4, UnchangedTypes DEF Store, TypeInv
<1>10. CASE GetCache(c)
    <2> DEFINE u == IF CacheHit(t)
                    THEN [t EXCEPT !.phase = "answered", !.val = cache[a][t.key].value]
                    ELSE [t EXCEPT !.phase = "memory"]
    <2>1. t.cmd = "get" /\ t.key \in Keys
        BY <1>2, <1>10 DEF GetCache, WellFormed
    <2>2. CacheHit(t) => cache[a][t.key].value \in Values
        BY <1>2, <2>1 DEF CacheHit
    <2>3. task' = [task EXCEPT ![c] = u]
        BY <1>10 DEF GetCache
    <2>4. WellFormed(u)
        BY <1>2, <2>1, <2>2, WellFormedSteps
    <2> HIDE DEF u, t
    <2> QED
        BY <1>10, <2>3, <2>4, TaskStepTypes DEF GetCache
<1>11. CASE GetMemory(c)
    <2> DEFINE found == Readable(Lookup(a), o) /\ Has(Lookup(a), o, t.key)
               v == Lookup(a)[o].data[t.key].data
               u == IF found THEN [t EXCEPT !.phase = "answered", !.val = v] ELSE None
    <2>1. t.cmd = "get" /\ t.key \in Keys
        BY <1>2, <1>11 DEF GetMemory, WellFormed
    <2>2. found => v \in Values
        BY <1>2, <2>1 DEF Has, Table, Tables, Entries, Units
    <2>3. task' = [task EXCEPT ![c] = u]
        BY <1>11 DEF GetMemory
    <2> HIDE DEF found, v
    <2>4. u = None \/ WellFormed(u)
        BY <1>2, <2>1, <2>2, WellFormedSteps
    <2> HIDE DEF u, t
    <2> QED
        BY <1>11, <2>3, <2>4, TaskStepTypes DEF GetMemory
<1>12. CASE GetReturn(c)
    BY <1>12, TaskStepTypes DEF GetReturn, Return
<1> QED
    BY <1>3, <1>4, <1>5, <1>6, <1>7, <1>8, <1>9, <1>10, <1>11, <1>12 DEF Continue

\* What a localizer fetches and puts back.
LEMMA LocalizerParts ==
    ASSUME TypeInv, NEW l \in Localizers, localizer[l] # None
    PROVE  /\ WellLocalizing(localizer[l])
           /\ localizer[l].app \in Apps
           /\ Lookup(localizer[l].app) \in Table
<1>1. WellLocalizing(localizer[l])
    BY DEF TypeInv, LocalizersTyped
<1> QED
    BY <1>1, LookupType DEF TypeInv, WellLocalizing, Localizing

\* A table with the data of some of its owners replaced is one.
Patched(table, image, fetched) ==
    [o \in Owners |-> IF o \in fetched
                      THEN [table[o] EXCEPT !.data = image[o].data]
                      ELSE table[o]]

LEMMA PatchedType ==
    ASSUME NEW table \in Table, NEW image \in Table, NEW fetched \in SUBSET Owners,
           \A o \in fetched : table[o] # None /\ image[o] # None
    PROVE  Patched(table, image, fetched) \in Table
<1>1. ASSUME NEW o \in fetched
      PROVE  [table[o] EXCEPT !.data = image[o].data] \in Entries(Values)
    <2>1. table[o] \in Entries(Values) /\ image[o] \in Entries(Values)
        BY DEF Table, Tables
    <2> QED
        BY <2>1 DEF Entries
<1> QED
    BY <1>1 DEF Patched, Table, Tables

LEMMA LocalizeTypes ==
    ASSUME TypeInv, NEW l \in Localizers, Localize(l) PROVE TypeInv'
<1> DEFINE loc == localizer[l]
           a == loc.app
<1>1. loc # None
    BY DEF Localize, LocalizeStart, LocalizeCopy, LocalizeStore, LocalizeTell,
           LocalizeComplete, FlushCopy, FlushClear, LocalizerAt
<1>2. WellLocalizing(loc) /\ a \in Apps /\ Lookup(a) \in Table /\ Image[a] \in Table
    BY <1>1, LocalizerParts, ImageType DEF WellLocalizing
<1>3. WellLocalizing([loc EXCEPT !.phase = "copy"])
      /\ WellLocalizing([loc EXCEPT !.phase = "complete"])
      /\ WellLocalizing([loc EXCEPT !.phase = "flush"])
      /\ WellLocalizing([loc EXCEPT !.phase = "clear"])
    BY <1>2 DEF WellLocalizing, Localizing
<1>4. CASE LocalizeStart(l)
    <2>1. localizer' = [localizer EXCEPT ![l] = [loc EXCEPT !.phase = "copy"]]
        BY <1>4 DEF LocalizeStart, Move
    <2>2. LocalizersTyped'
        BY <1>3, <2>1, LocalizerTypes DEF TypeInv
    <2>3. StoreTyped'
        BY <1>4 DEF LocalizeStart, TypeInv, StoreTyped
    <2> QED
        BY <1>4, <2>2, <2>3, UnchangedTypes DEF LocalizeStart, TypeInv
<1>5. CASE LocalizeCopy(l)
    <2>1. PICK fetched \in SUBSET {o \in Owners : Lookup(a)[o] # None /\ Image[a][o] # None} :
              localizer' = [localizer EXCEPT ![l] =
                  [app |-> a, phase |-> "store",
                   pending |-> Patched(Lookup(a), Image[a], fetched)]]
        BY <1>5 DEF LocalizeCopy, Patched
    <2> DEFINE table == Patched(Lookup(a), Image[a], fetched)
    <2>2. table \in Table
        BY <1>2, PatchedType
    <2>3. localizer' = [localizer EXCEPT ![l] =
                            [app |-> a, phase |-> "store", pending |-> table]]
        BY <2>1
    <2> HIDE DEF table
    <2>4. WellLocalizing([app |-> a, phase |-> "store", pending |-> table])
        BY <1>2, <2>2 DEF WellLocalizing, Localizing
    <2>5. LocalizersTyped'
        BY <2>3, <2>4, LocalizerTypes DEF TypeInv
    <2> QED
        BY <1>5, <2>5, UnchangedTypes DEF LocalizeCopy, TypeInv
<1>6. CASE LocalizeStore(l)
    <2>1. WellLocalizing([app |-> a, phase |-> "tell", pending |-> None])
        BY <1>2 DEF WellLocalizing, Localizing
    <2>2. LocalizersTyped'
        BY <1>6, <2>1, LocalizerTypes DEF LocalizeStore, TypeInv
    <2>3. loc.pending \in Table
        BY <1>2, <1>6 DEF LocalizeStore, LocalizerAt, WellLocalizing
    <2>4. StoreTyped'
        BY <1>2, <1>6, <2>3 DEF LocalizeStore, TypeInv, StoreTyped
    <2> QED
        BY <1>6, <2>2, <2>4, UnchangedTypes DEF LocalizeStore, TypeInv
<1>10. CASE LocalizeTell(l)
    <2>1. localizer' = [localizer EXCEPT ![l] = [loc EXCEPT !.phase = "complete"]]
        BY <1>10 DEF LocalizeTell, Move
    <2>2. LocalizersTyped'
        BY <1>3, <2>1, LocalizerTypes DEF TypeInv
    <2> QED
        BY <1>10, <2>2, UnchangedTypes DEF LocalizeTell, TypeInv
<1>7. CASE LocalizeComplete(l)
    <2>1. localizer' = [localizer EXCEPT ![l] = [loc EXCEPT !.phase = "flush"]]
        BY <1>7 DEF LocalizeComplete, Move
    <2>2. LocalizersTyped'
        BY <1>3, <2>1, LocalizerTypes DEF TypeInv
    <2>3. StoreTyped'
        BY <1>7 DEF LocalizeComplete, TypeInv, StoreTyped
    <2> QED
        BY <1>7, <2>2, <2>3, UnchangedTypes DEF LocalizeComplete, TypeInv
<1>8. CASE FlushCopy(l)
    <2> DEFINE m == IF cache[a] = EmptyCache THEN None ELSE [loc EXCEPT !.phase = "clear"]
    <2>1. localizer' = [localizer EXCEPT ![l] = m]
        BY <1>8 DEF FlushCopy
    <2>2. m = None \/ WellLocalizing(m)
        BY <1>3
    <2> HIDE DEF m
    <2>3. LocalizersTyped'
        BY <2>1, <2>2, LocalizerTypes DEF TypeInv
    <2> QED
        BY <1>8, <2>3, UnchangedTypes DEF FlushCopy, TypeInv
<1>9. CASE FlushClear(l)
    <2>1. LocalizersTyped'
        BY <1>9, LocalizerTypes DEF FlushClear, TypeInv
    <2>2. StoreTyped'
        BY <1>9, EmptyTypes DEF FlushClear, TypeInv, StoreTyped
    <2> QED
        BY <1>9, <2>1, <2>2, UnchangedTypes DEF FlushClear, TypeInv
<1> QED
    BY <1>4, <1>5, <1>6, <1>7, <1>8, <1>9, <1>10 DEF Localize

(* Uploads and the network loop.                                              *)

BesideTyped ==
    /\ upload \in [Apps -> Table \cup {None}]
    /\ merging \in Merging \cup {None}
    /\ stuck \in BOOLEAN /\ begun \in BOOLEAN
    /\ fresh \in [Apps -> SUBSET (Clients \cup Localizers \cup {Uploader, Loop})]
    /\ others \in Nat

\* What merging a change can make of a table.
LEMMA MergeCases ==
    ASSUME NEW table \in Table, NEW m \in Change, Merge(table, m, 0) # None
    PROVE  /\ m.owner \in Owners /\ m.key \in Keys /\ m.data \in Values
           /\ m.perm \in BOOLEAN
           /\ \/ /\ m.type = "Write" /\ table[m.owner] = None
                 /\ Merge(table, m, 0) = Put(EmptyTable, m.owner, m.key, m.data, 0)
              \/ /\ m.type = "Write" /\ table[m.owner] # None
                 /\ Merge(table, m, 0) = Put(table, m.owner, m.key, m.data, 0)
              \/ /\ m.type = "Delete" /\ table[m.owner] # None
                 /\ Merge(table, m, 0) = WithoutKey(table, m.owner, m.key)
              \/ /\ m.type = "Truncate" /\ table[m.owner] # None
                 /\ Merge(table, m, 0) =
                        SetData(table, m.owner, Retained(table[m.owner].data, m.write_time))
              \/ /\ m.type = "Access" /\ table[m.owner] # None
                 /\ Merge(table, m, 0) = WithAccess(table, m.owner, m.perm, 0)
<1>1. /\ m.type \in {"Write", "Delete", "Truncate", "Access"} /\ m.owner \in Owners
      /\ m.key \in Keys /\ m.data \in Values /\ m.perm \in BOOLEAN
    BY DEF Change
<1>2. CASE m.type = "Write"
    <2>1. EmptyTable[m.owner] = None
        BY <1>1 DEF EmptyTable
    <2> QED
        BY <1>1, <1>2, <2>1 DEF Merge, MergeWrite, Put
<1>3. CASE m.type = "Delete"
    BY <1>1, <1>3 DEF Merge, MergeDelete, Has
<1>4. CASE m.type = "Truncate"
    BY <1>1, <1>4 DEF Merge, MergeTruncate
<1>5. CASE m.type = "Access"
    BY <1>1, <1>5 DEF Merge, MergeAccess
<1> QED
    BY <1>1, <1>2, <1>3, <1>4, <1>5

LEMMA RetainedPart ==
    ASSUME NEW data \in [Keys -> Units(Values) \cup {None}], NEW time
    PROVE  /\ Retained(data, time) \in [Keys -> Units(Values) \cup {None}]
           /\ \A k \in Keys : Retained(data, time)[k] # None =>
                 Retained(data, time)[k] = data[k]
BY DEF Retained

LEMMA DataType ==
    ASSUME NEW table \in Table, NEW o \in Owners, table[o] # None
    PROVE  table[o].data \in [Keys -> Units(Values) \cup {None}]
BY DEF Table, Tables, Entries

LEMMA MergeType ==
    ASSUME NEW table \in Table, NEW m \in Change, Merge(table, m, 0) # None
    PROVE  Merge(table, m, 0) \in Table
<1> DEFINE kept == Retained(table[m.owner].data, m.write_time)
<1>1. m.owner \in Owners /\ m.key \in Keys /\ m.data \in Values /\ m.perm \in BOOLEAN
    BY MergeCases
<1>2. /\ Put(EmptyTable, m.owner, m.key, m.data, 0) \in Table
      /\ Put(table, m.owner, m.key, m.data, 0) \in Table
    BY <1>1, EmptyTypes, PutType DEF Table
<1>3. ASSUME table[m.owner] # None
      PROVE  /\ WithoutKey(table, m.owner, m.key) \in Table
             /\ WithAccess(table, m.owner, m.perm, 0) \in Table
             /\ SetData(table, m.owner, kept) \in Table
    <2>1. WithoutKey(table, m.owner, m.key) \in Table
        BY <1>1, <1>3, WithoutKeyFacts DEF Table
    <2>2. WithAccess(table, m.owner, m.perm, 0) \in Table
        BY <1>1, <1>3, WithAccessFacts DEF Table
    <2>3. kept \in [Keys -> Units(Values) \cup {None}]
        BY <1>1, <1>3, DataType, RetainedPart
    <2>4. SetData(table, m.owner, kept) \in Table
        BY <1>1, <1>3, <2>3, SetDataFacts DEF Table, Tables
    <2> QED
        BY <2>1, <2>2, <2>4
<1> QED
    BY <1>2, <1>3, MergeCases

LEMMA MergingParts ==
    ASSUME BesideTyped, merging # None
    PROVE  /\ merging.app \in Apps /\ merging.msg \in Change /\ merging.pending \in Table
BY DEF BesideTyped, Merging

LEMMA BesideTypes ==
    ASSUME TypeInv, BesideTyped, NEW a \in Apps, Beside(a) PROVE TypeInv' /\ BesideTyped'
<1>1. CASE UploadCopy(a)
    <2>1. apps[a] \in Table
        BY <1>1 DEF UploadCopy, TypeInv, StoreTyped
    <2> QED
        BY <1>1, <2>1, UnchangedTypes DEF UploadCopy, BesideTyped, TypeInv
<1>2. CASE UploadPut(a)
    <2>1. upload[a] \in Table
        BY <1>2 DEF UploadPut, BesideTyped
    <2>2. StoreTyped'
        BY <1>2, <2>1 DEF UploadPut, TypeInv, StoreTyped
    <2> QED
        BY <1>2, <2>2, UnchangedTypes DEF UploadPut, BesideTyped, TypeInv
<1>3. CASE UploadEnd(a)
    BY <1>3, UnchangedTypes DEF UploadEnd, BesideTyped, TypeInv
<1>4. ASSUME NEW m \in Heard, MergeCopy(a, m) PROVE TypeInv' /\ BesideTyped'
    <2>1. m \in Change /\ Lookup(a) \in Table
        BY LookupType DEF TypeInv
    <2>2. StoreTyped'
        BY <1>4, <2>1 DEF MergeCopy, TypeInv, StoreTyped
    <2>3. HistoryTyped'
        <3>1. m.type = "Write" =>
                  [app |-> a, owner |-> m.owner, key |-> m.key, val |-> m.data] \in Request
            BY <2>1 DEF Change, Request
        <3> QED
            BY <1>4, <3>1 DEF MergeCopy, TypeInv, HistoryTyped
    <2>4. merging' \in Merging \cup {None}
        <3>1. Merge(Lookup(a), m, 0) # None =>
                  [app |-> a, msg |-> m, pending |-> Merge(Lookup(a), m, 0)] \in Merging
            BY <2>1, MergeType DEF Merging
        <3> QED
            BY <1>4, <3>1 DEF MergeCopy
    <2>5. BesideTyped'
        BY <1>4, <2>4 DEF MergeCopy, BesideTyped
    <2> QED
        BY <1>4, <2>2, <2>3, <2>5, UnchangedTypes DEF MergeCopy, TypeInv
<1> QED
    BY <1>1, <1>2, <1>3, <1>4 DEF Beside

LEMMA LoopTypes ==
    ASSUME TypeInv, BesideTyped, MergeStore \/ LoopStops PROVE TypeInv' /\ BesideTyped'
<1>1. CASE MergeStore
    <2>1. merging.app \in Apps /\ merging.pending \in Table
        BY <1>1, MergingParts DEF MergeStore
    <2>2. StoreTyped'
        BY <1>1, <2>1 DEF MergeStore, TypeInv, StoreTyped
    <2> QED
        BY <1>1, <2>2, UnchangedTypes DEF MergeStore, BesideTyped, TypeInv
<1>2. CASE LoopStops
    BY <1>2, UnchangedTypes DEF LoopStops, BesideTyped, TypeInv
<1> QED
    BY <1>1, <1>2

\* The commands and localizers leave the others' state alone.
LEMMA OwnBeside ==
    ASSUME BesideTyped, NEW h \in Clients \cup Localizers,
           UNCHANGED <<upload, merging, stuck, others>>, begun' \in BOOLEAN,
           \/ UNCHANGED fresh
           \/ \E a \in Apps : fresh' = [fresh EXCEPT ![a] = @ \cup {h}]
           \/ \E a \in Apps : fresh' = [fresh EXCEPT ![a] = {}]
    PROVE  BesideTyped'
BY DEF BesideTyped

LEMMA InitStepBeside ==
    ASSUME BesideTyped, NEW c \in Clients, InitStep(c) PROVE BesideTyped'
<1>1. /\ UNCHANGED <<upload, merging, stuck, others>> /\ begun' \in BOOLEAN
      /\ \E a \in Apps : fresh' = [fresh EXCEPT ![a] = {}]
    BY DEF InitStep, InitNew, InitImage, ForgetApplication, BesideTyped
<1> QED
    BY <1>1, OwnBeside

LEMMA StartBeside ==
    ASSUME BesideTyped, NEW c \in Clients, Start(c) PROVE BesideTyped'
<1>1. /\ UNCHANGED <<upload, merging, stuck, others>> /\ begun' \in BOOLEAN
      /\ \/ UNCHANGED fresh
         \/ \E a \in Apps : fresh' = [fresh EXCEPT ![a] = @ \cup {c}]
    BY DEF Start, SetBegin, DelBegin, GetBegin, TruncateBegin, AccessBegin, BesideTyped
<1> QED
    BY <1>1, OwnBeside

LEMMA ContinueBeside ==
    ASSUME TypeInv, BesideTyped, NEW c \in Clients, Continue(c) PROVE BesideTyped'
<1>1. task[c] # None
    BY DEF Continue, InitComplete, SetCopyCache, SetCopy, DelCopyCache, DelCopy,
           StoreCache, Store, GetCache, GetMemory, GetReturn
<1>2. task[c].app \in Apps
    BY <1>1, TaskParts
<1>3. /\ UNCHANGED <<upload, merging, stuck, others>> /\ begun' \in BOOLEAN
      /\ \/ UNCHANGED fresh
         \/ fresh' = [fresh EXCEPT ![task[c].app] = @ \cup {c}]
         \/ fresh' = [fresh EXCEPT ![task[c].app] = {}]
    BY DEF Continue, InitComplete, SetCopyCache, SetCopy, DelCopyCache, DelCopy,
           StoreCache, Store, GetCache, GetMemory, GetReturn, BesideTyped
<1> QED
    BY <1>2, <1>3, OwnBeside

LEMMA LocalizeBeside ==
    ASSUME TypeInv, BesideTyped, NEW l \in Localizers, Localize(l) PROVE BesideTyped'
<1>1. localizer[l] # None
    BY DEF Localize, LocalizeStart, LocalizeCopy, LocalizeStore, LocalizeTell,
           LocalizeComplete, FlushCopy, FlushClear, LocalizerAt
<1>2. localizer[l].app \in Apps
    BY <1>1, LocalizerParts
<1>3. /\ UNCHANGED <<upload, merging, stuck, others>> /\ begun' \in BOOLEAN
      /\ \/ UNCHANGED fresh
         \/ fresh' = [fresh EXCEPT ![localizer[l].app] = @ \cup {l}]
         \/ fresh' = [fresh EXCEPT ![localizer[l].app] = {}]
    BY DEF Localize, LocalizeStart, LocalizeCopy, LocalizeStore, LocalizeTell,
           LocalizeComplete, FlushCopy, FlushClear, BesideTyped
<1> QED
    BY <1>2, <1>3, OwnBeside

AllTyped == TypeInv /\ BesideTyped

LEMMA TypeNext == ASSUME AllTyped, [Next]_vars PROVE AllTyped'
<1>1. CASE UNCHANGED vars
    BY <1>1, UnchangedTypes DEF vars, AllTyped, TypeInv, BesideTyped
<1> QED
    BY <1>1, InitStepTypes, StartTypes, ContinueTypes, LocalizeTypes, BesideTypes,
       LoopTypes, InitStepBeside, StartBeside, ContinueBeside, LocalizeBeside
    DEF Next, AllTyped

LEMMA TypeAlways == Spec => []AllTyped
<1>1. Init => AllTyped
    <2> SUFFICES ASSUME Init PROVE AllTyped
        OBVIOUS
    <2>1. BesideTyped
        BY DEF Init, BesideTyped
    <2>2. TypeInv
        BY TypeInit
    <2> QED
        BY <2>1, <2>2 DEF AllTyped
<1> QED
    BY <1>1, TypeNext, PTL DEF Spec

(* The tables, caches and copies of the tasks keep their types: what a        *)
(* command, a localizer, an upload or the network loop puts back over the     *)
(* state is always a table, or a cache, as the case may be (DBState in        *)
(* prelude.rs).                                                               *)
THEOREM TypeCorrect == Spec => []TypeOK
<1>1. AllTyped => TypeOK
    BY DEF AllTyped, TypeInv, StoreTyped, TasksTyped, LocalizersTyped, HistoryTyped,
           BesideTyped, TypeOK
<1> QED
    BY <1>1, TypeAlways, PTL

-----------------------------------------------------------------------------
(* Answers.  Every value that a table, a cache or a copy of one of them holds *)
(* was asked for at its application, owner and key, or is in the image there. *)

Sourced(asked, a, o, k, v) ==
    [app |-> a, owner |-> o, key |-> k, val |-> v] \in asked \/ Fetched(a, o, k, v)

GroundedTable(asked, a, table) ==
    \A o \in Owners, k \in Keys :
        Has(table, o, k) => Sourced(asked, a, o, k, table[o].data[k].data)

GroundedCache(asked, a, tc) ==
    \A k \in Keys :
        tc[k] # None => Sourced(asked, a, OwnerOf(a, tc[k].sam), k, tc[k].value)

GroundedTask(asked, t) ==
    /\ t.cmd = "set" \/ t.phase = "answered" =>
           Sourced(asked, t.app, OwnerOf(t.app, t.sam), t.key, t.val)
    /\ t.phase = "store" => GroundedTable(asked, t.app, t.pending)
    /\ t.phase = "store_cache" => GroundedCache(asked, t.app, t.pending)

GroundedLocalizer(asked, l) ==
    l.phase = "store" => GroundedTable(asked, l.app, l.pending)

AppsGrounded ==
    \A a \in Apps : apps[a] # None => GroundedTable(requests, a, apps[a])

CacheGrounded ==
    \A a \in Apps : GroundedCache(requests, a, cache[a])

TasksGrounded ==
    \A c \in Clients : task[c] # None => GroundedTask(requests, task[c])

LocalizersGrounded ==
    \A l \in Localizers :
        localizer[l] # None => GroundedLocalizer(requests, localizer[l])

GroundInv == AppsGrounded /\ CacheGrounded /\ TasksGrounded /\ LocalizersGrounded

\* A request, once made, stays made.
LEMMA GroundGrows ==
    ASSUME NEW asked, NEW more, asked \subseteq more
    PROVE  /\ \A a, table : GroundedTable(asked, a, table) => GroundedTable(more, a, table)
           /\ \A a, tc : GroundedCache(asked, a, tc) => GroundedCache(more, a, tc)
           /\ \A t : GroundedTask(asked, t) => GroundedTask(more, t)
           /\ \A l : GroundedLocalizer(asked, l) => GroundedLocalizer(more, l)
<1>1. \A a, table : GroundedTable(asked, a, table) => GroundedTable(more, a, table)
    BY DEF GroundedTable, Sourced
<1>2. \A a, tc : GroundedCache(asked, a, tc) => GroundedCache(more, a, tc)
    BY DEF GroundedCache, Sourced
<1>3. \A t : GroundedTask(asked, t) => GroundedTask(more, t)
    BY <1>1, <1>2 DEF GroundedTask, Sourced
<1> QED
    BY <1>1, <1>2, <1>3 DEF GroundedLocalizer

\* Tables without data, and tables whose units were all in a grounded one.
LEMMA GroundedTables ==
    ASSUME NEW asked, NEW a \in Apps
    PROVE  /\ GroundedTable(asked, a, EmptyTable)
           /\ GroundedTable(asked, a, FreshTable(a))
           /\ \A image : GroundedTable(asked, a, Listed(image))
           /\ GroundedCache(asked, a, EmptyCache)
           /\ \A old, new :
                 /\ GroundedTable(asked, a, old)
                 /\ \A o \in Owners, k \in Keys : Has(new, o, k) => Kept(old, new, o, k)
                 => GroundedTable(asked, a, new)
<1>1. GroundedTable(asked, a, EmptyTable) /\ GroundedCache(asked, a, EmptyCache)
    BY DEF GroundedTable, Has, EmptyTable, GroundedCache, EmptyCache
<1>2. GroundedTable(asked, a, FreshTable(a))
    <2>1. \A o \in Owners, k \in Keys : ~Has(FreshTable(a), o, k)
        BY DEF FreshTable, EmptyTable, NewEntry, EmptyData, Has
    <2> QED
        BY <2>1 DEF GroundedTable
<1>3. ASSUME NEW image PROVE GroundedTable(asked, a, Listed(image))
    <2>1. \A o \in Owners, k \in Keys : ~Has(Listed(image), o, k)
        BY DEF Listed, NewEntry, EmptyData, Has
    <2> QED
        BY <2>1 DEF GroundedTable
<1>4. ASSUME NEW old, NEW new, GroundedTable(asked, a, old),
             \A o \in Owners, k \in Keys : Has(new, o, k) => Kept(old, new, o, k)
      PROVE  GroundedTable(asked, a, new)
    BY <1>4 DEF GroundedTable, Kept
<1> QED
    BY <1>1, <1>2, <1>3, <1>4

LEMMA PutGrounded ==
    ASSUME NEW asked, NEW a \in Apps, NEW table \in Table, GroundedTable(asked, a, table),
           NEW o \in Owners, NEW k \in Keys, NEW v \in Values, Sourced(asked, a, o, k, v)
    PROVE  GroundedTable(asked, a, Put(table, o, k, v, 0))
<1> SUFFICES ASSUME NEW p \in Owners, NEW j \in Keys, Has(Put(table, o, k, v, 0), p, j)
             PROVE  Sourced(asked, a, p, j, Put(table, o, k, v, 0)[p].data[j].data)
    BY DEF GroundedTable
<1>1. \/ /\ p = o /\ j = k
         /\ Put(table, o, k, v, 0)[p].data[j] = [data |-> v, write_time |-> 0]
      \/ Kept(table, Put(table, o, k, v, 0), p, j)
    BY PutUnits DEF Table
<1> QED
    BY <1>1 DEF GroundedTable, Kept

LEMMA PatchedGrounded ==
    ASSUME NEW asked, NEW a \in Apps, NEW table \in Table, GroundedTable(asked, a, table),
           Image[a] \in Table, NEW fetched \in SUBSET Owners,
           \A o \in fetched : table[o] # None /\ Image[a][o] # None
    PROVE  GroundedTable(asked, a, Patched(table, Image[a], fetched))
<1> SUFFICES ASSUME NEW o \in Owners, NEW k \in Keys,
                    Has(Patched(table, Image[a], fetched), o, k)
             PROVE  Sourced(asked, a, o, k,
                            Patched(table, Image[a], fetched)[o].data[k].data)
    BY DEF GroundedTable
<1>1. CASE o \in fetched
    <2>1. Patched(table, Image[a], fetched)[o] = [table[o] EXCEPT !.data = Image[a][o].data]
        BY <1>1 DEF Patched
    <2>2. table[o] \in Entries(Values)
        BY <1>1 DEF Table, Tables
    <2>3. Patched(table, Image[a], fetched)[o].data = Image[a][o].data
        BY <2>1, <2>2 DEF Entries
    <2> QED
        BY <1>1, <2>3 DEF Sourced, Fetched, Has
<1>2. CASE o \notin fetched
    <2>1. Patched(table, Image[a], fetched)[o] = table[o]
        BY <1>2 DEF Patched
    <2> QED
        BY <2>1 DEF GroundedTable, Has
<1> QED
    BY <1>1, <1>2

\* What a step leaves alone, or puts in the place of what was there.
LEMMA GroundKept ==
    ASSUME GroundInv, requests \subseteq requests'
    PROVE  /\ UNCHANGED apps => AppsGrounded'
           /\ UNCHANGED cache => CacheGrounded'
           /\ UNCHANGED task => TasksGrounded'
           /\ UNCHANGED localizer => LocalizersGrounded'
BY GroundGrows DEF GroundInv, AppsGrounded, CacheGrounded, TasksGrounded, LocalizersGrounded

LEMMA GroundReplaced ==
    ASSUME TypeInv, GroundInv, requests \subseteq requests'
    PROVE  /\ \A a \in Apps : \A table :
                 /\ apps' = [apps EXCEPT ![a] = table]
                 /\ table # None => GroundedTable(requests, a, table)
                 => AppsGrounded'
           /\ \A a \in Apps : \A tc :
                 /\ cache' = [cache EXCEPT ![a] = tc]
                 /\ GroundedCache(requests, a, tc)
                 => CacheGrounded'
           /\ \A c \in Clients : \A t :
                 /\ task' = [task EXCEPT ![c] = t]
                 /\ t # None => GroundedTask(requests', t)
                 => TasksGrounded'
           /\ \A l \in Localizers : \A loc :
                 /\ localizer' = [localizer EXCEPT ![l] = loc]
                 /\ loc # None => GroundedLocalizer(requests, loc)
                 => LocalizersGrounded'
<1>1. /\ apps \in [Apps -> Table \cup {None}] /\ cache \in [Apps -> TempCache]
      /\ task \in [Clients -> Task \cup {None}]
      /\ localizer \in [Localizers -> Localizing \cup {None}]
    BY DEF TypeInv, StoreTyped, TasksTyped, LocalizersTyped
<1>2. ASSUME NEW a \in Apps, NEW table, apps' = [apps EXCEPT ![a] = table],
             table # None => GroundedTable(requests, a, table)
      PROVE  AppsGrounded'
    BY <1>1, <1>2, GroundGrows DEF GroundInv, AppsGrounded
<1>3. ASSUME NEW a \in Apps, NEW tc, cache' = [cache EXCEPT ![a] = tc],
             GroundedCache(requests, a, tc)
      PROVE  CacheGrounded'
    BY <1>1, <1>3, GroundGrows DEF GroundInv, CacheGrounded
<1>4. ASSUME NEW c \in Clients, NEW t, task' = [task EXCEPT ![c] = t],
             t # None => GroundedTask(requests', t)
      PROVE  TasksGrounded'
    BY <1>1, <1>4, GroundGrows DEF GroundInv, TasksGrounded
<1>5. ASSUME NEW l \in Localizers, NEW loc, localizer' = [localizer EXCEPT ![l] = loc],
             loc # None => GroundedLocalizer(requests, loc)
      PROVE  LocalizersGrounded'
    BY <1>1, <1>5, GroundGrows DEF GroundInv, LocalizersGrounded
<1> QED
    BY <1>2, <1>3, <1>4, <1>5

LEMMA LookupGrounded ==
    ASSUME GroundInv, NEW a \in Apps PROVE GroundedTable(requests, a, Lookup(a))
BY GroundedTables DEF GroundInv, AppsGrounded, Lookup

LEMMA GroundInit == ASSUME Init PROVE GroundInv
BY GroundedTables
DEF Init, GroundInv, AppsGrounded, CacheGrounded, TasksGrounded, LocalizersGrounded

LEMMA InitStepGrounded ==
    ASSUME TypeInv, GroundInv, NEW c \in Clients, InitStep(c) PROVE GroundInv'
<1>1. ASSUME NEW a \in Apps, InitNew(c, a) PROVE GroundInv'
    <2> DEFINE t == Command("init", "complete", a, None, None, None)
    <2>1. GroundedTask(requests', t)
        BY DEF Command, GroundedTask
    <2>2. task' = [task EXCEPT ![c] = t]
        BY <1>1 DEF InitNew, Begin
    <2> HIDE DEF t
    <2>3. AppsGrounded'
        BY <1>1, GroundReplaced, GroundedTables DEF InitNew
    <2>4. TasksGrounded'
        BY <1>1, <2>1, <2>2, GroundReplaced DEF InitNew
    <2> QED
        BY <1>1, <2>3, <2>4, GroundKept DEF InitNew, GroundInv
<1>2. ASSUME NEW a \in Apps, NEW l \in Localizers, InitImage(c, a, l) PROVE GroundInv'
    <2> DEFINE loc == [app |-> a, phase |-> "start", pending |-> None]
    <2>1. GroundedLocalizer(requests, loc)
        BY DEF GroundedLocalizer
    <2>2. localizer' = [localizer EXCEPT ![l] = loc]
        BY <1>2 DEF InitImage
    <2> HIDE DEF loc
    <2>3. AppsGrounded'
        BY <1>2, GroundReplaced, GroundedTables DEF InitImage
    <2>4. LocalizersGrounded'
        BY <1>2, <2>1, <2>2, GroundReplaced DEF InitImage
    <2> QED
        BY <1>2, <2>3, <2>4, GroundKept DEF InitImage, GroundInv
<1>3. ASSUME NEW a \in Apps, ForgetApplication(c, a) PROVE GroundInv'
    <2>1. AppsGrounded'
        BY <1>3, GroundReplaced DEF ForgetApplication
    <2> QED
        BY <1>3, <2>1, GroundKept DEF ForgetApplication, GroundInv
<1> QED
    BY <1>1, <1>2, <1>3 DEF InitStep

\* A command begins, or takes a copy: only its task changes.
LEMMA TaskGrounded ==
    ASSUME TypeInv, GroundInv, requests \subseteq requests',
           NEW c \in Clients, NEW t, t # None => GroundedTask(requests', t),
           task' = [task EXCEPT ![c] = t], UNCHANGED <<apps, cache, localizer>>
    PROVE  GroundInv'
<1>1. TasksGrounded'
    BY GroundReplaced
<1> QED
    BY <1>1, GroundKept DEF GroundInv

LEMMA StartGrounded ==
    ASSUME TypeInv, GroundInv, NEW c \in Clients, Start(c) PROVE GroundInv'
<1> SUFFICES ASSUME NEW a \in Apps, NEW sam \in Sams,
                    \/ \E k \in Keys, v \in Values : SetBegin(c, a, sam, k, v)
                    \/ \E k \in Keys : DelBegin(c, a, sam, k) \/ GetBegin(c, a, sam, k)
                    \/ TruncateBegin(c, a, sam)
                    \/ \E perm \in BOOLEAN : AccessBegin(c, a, sam, perm)
             PROVE  GroundInv'
    BY DEF Start
<1> DEFINE o == OwnerOf(a, sam)
<1>1. o \in Owners /\ Lookup(a) \in Table /\ GroundedTable(requests, a, Lookup(a))
    BY OwnerOfType, LookupType, LookupGrounded DEF TypeInv
<1>2. ASSUME NEW k \in Keys, NEW v \in Values, SetBegin(c, a, sam, k, v) PROVE GroundInv'
    <2> DEFINE t == Command("set", IF complete THEN "memory" ELSE "cache", a, sam, k, v)
    <2>1. GroundedTask(requests', t)
        BY <1>2 DEF SetBegin, Command, GroundedTask, Sourced
    <2>2. task' = [task EXCEPT ![c] = t]
        BY <1>2 DEF SetBegin, Begin
    <2> HIDE DEF t
    <2> QED
        BY <1>2, <2>1, <2>2, TaskGrounded DEF SetBegin
<1>3. ASSUME NEW k \in Keys, NEW cmd \in {"del", "get"},
             Begin(c, Command(cmd, "cache", a, sam, k, None)),
             UNCHANGED <<apps, cache, localizer, requests>>
      PROVE  GroundInv'
    <2>1. GroundedTask(requests', Command(cmd, "cache", a, sam, k, None))
        BY DEF Command, GroundedTask
    <2> QED
        BY <1>3, <2>1, TaskGrounded DEF Begin
<1>4. ASSUME NEW cmd \in {"truncate", "access"}, NEW table,
             GroundedTable(requests, a, table),
             Begin(c, [Command(cmd, "store", a, sam, None, None) EXCEPT !.pending = table]),
             UNCHANGED <<apps, cache, localizer, requests>>
      PROVE  GroundInv'
    <2> DEFINE t == [Command(cmd, "store", a, sam, None, None) EXCEPT !.pending = table]
    <2>1. GroundedTask(requests', t)
        BY <1>4 DEF Command, GroundedTask
    <2>2. task' = [task EXCEPT ![c] = t]
        BY <1>4 DEF Begin
    <2> HIDE DEF t
    <2> QED
        BY <1>4, <2>1, <2>2, TaskGrounded
<1>5. ASSUME TruncateBegin(c, a, sam) PROVE GroundInv'
    <2>1. GroundedTable(requests, a, WithoutData(Lookup(a), o))
        <3>1. \A p \in Owners, k \in Keys : Has(WithoutData(Lookup(a), o), p, k) =>
                  Kept(Lookup(a), WithoutData(Lookup(a), o), p, k)
            BY <1>1, <1>5, WithoutDataFacts DEF TruncateBegin, Readable, Table
        <3> QED
            BY <1>1, <3>1, GroundedTables
    <2> HIDE DEF o
    <2> QED
        BY <1>4, <1>5, <2>1 DEF TruncateBegin, o
<1>6. ASSUME NEW perm \in BOOLEAN, AccessBegin(c, a, sam, perm) PROVE GroundInv'
    <2>1. GroundedTable(requests, a, WithAccess(Lookup(a), o, perm, 0))
        <3>1. \A p \in Owners, k \in Keys : Has(WithAccess(Lookup(a), o, perm, 0), p, k) =>
                  Kept(Lookup(a), WithAccess(Lookup(a), o, perm, 0), p, k)
            BY <1>1, <1>6, WithAccessFacts DEF AccessBegin, Table
        <3> QED
            BY <1>1, <3>1, GroundedTables
    <2> HIDE DEF o
    <2> QED
        BY <1>4, <1>6, <2>1 DEF AccessBegin, o
<1> QED
    BY <1>2, <1>3, <1>5, <1>6 DEF DelBegin, GetBegin

\* A task that takes a grounded copy, or answers a sourced value.
LEMMA GroundedSteps ==
    ASSUME NEW asked, NEW t, t \in Task, GroundedTask(asked, t)
    PROVE  /\ \A table : GroundedTable(asked, t.app, table) =>
                 GroundedTask(asked, [t EXCEPT !.phase = "store", !.pending = table])
           /\ \A tc : GroundedCache(asked, t.app, tc) =>
                 GroundedTask(asked, [t EXCEPT !.phase = "store_cache", !.pending = tc])
           /\ GroundedTask(asked, [t EXCEPT !.phase = "memory"])
           /\ \A v : Sourced(asked, t.app, OwnerOf(t.app, t.sam), t.key, v) =>
                 GroundedTask(asked, [t EXCEPT !.phase = "answered", !.val = v])
BY DEF GroundedTask, Task

LEMMA ContinueGrounded ==
    ASSUME TypeInv, GroundInv, NEW c \in Clients, Continue(c) PROVE GroundInv'
<1> DEFINE t == task[c]
           a == t.app
           o == OwnerOf(t.app, t.sam)
<1>1. t # None
    BY DEF Continue, InitComplete, SetCopyCache, SetCopy, DelCopyCache, DelCopy,
           StoreCache, Store, GetCache, GetMemory, GetReturn
<1>2. /\ WellFormed(t) /\ a \in Apps /\ t.sam \in Sams /\ o \in Owners
      /\ Lookup(a) \in Table /\ cache[a] \in TempCache
    BY <1>1, TaskParts
<1>3. /\ t \in Task /\ GroundedTask(requests, t)
      /\ GroundedTable(requests, a, Lookup(a)) /\ GroundedCache(requests, a, cache[a])
    BY <1>1, <1>2, LookupGrounded DEF WellFormed, GroundInv, TasksGrounded, CacheGrounded
<1>4. UNCHANGED requests
    BY DEF Continue, InitComplete, SetCopyCache, SetCopy, DelCopyCache, DelCopy,
           StoreCache, Store, GetCache, GetMemory, GetReturn
<1>5. CASE InitComplete(c)
    BY <1>4, <1>5, TaskGrounded DEF InitComplete, Return
<1>6. CASE SetCopyCache(c)
    <2> DEFINE tc == [cache[a] EXCEPT ![t.key] = [sam |-> t.sam, value |-> t.val]]
               u == [t EXCEPT !.phase = "store_cache", !.pending = tc]
    <2>1. t.key \in Keys /\ t.phase = "cache" /\ Sourced(requests, a, o, t.key, t.val)
        BY <1>2, <1>3, <1>6 DEF SetCopyCache, WellFormed, GroundedTask
    <2>2. GroundedCache(requests, a, tc)
        BY <1>2, <1>3, <2>1 DEF GroundedCache, TempCache
    <2> HIDE DEF tc
    <2>3. GroundedTask(requests, u)
        BY <1>3, <2>1, <2>2, GroundedSteps
    <2>4. task' = [task EXCEPT ![c] = u]
        BY <1>6 DEF SetCopyCache, tc
    <2> HIDE DEF u, t
    <2> QED
        BY <1>4, <1>6, <2>3, <2>4, TaskGrounded DEF SetCopyCache
<1>7. CASE SetCopy(c)
    <2> DEFINE table == Put(Lookup(a), o, t.key, t.val, 0)
               u == [t EXCEPT !.phase = "store", !.pending = table]
    <2>1. /\ t.key \in Keys /\ t.val \in Values /\ t.phase = "memory"
          /\ Sourced(requests, a, o, t.key, t.val)
        BY <1>2, <1>3, <1>7 DEF SetCopy, WellFormed, GroundedTask
    <2>2. GroundedTable(requests, a, table)
        BY <1>2, <1>3, <2>1, PutGrounded
    <2> HIDE DEF table
    <2>3. GroundedTask(requests, u)
        BY <1>3, <2>1, <2>2, GroundedSteps
    <2>4. task' = [task EXCEPT ![c] = u]
        BY <1>7 DEF SetCopy, table
    <2> HIDE DEF u, t
    <2> QED
        BY <1>4, <1>7, <2>3, <2>4, TaskGrounded DEF SetCopy
<1>8. CASE DelCopyCache(c)
    <2> DEFINE tc == [cache[a] EXCEPT ![t.key] = None]
               u == IF CacheHit(t)
                    THEN [t EXCEPT !.phase = "store_cache", !.pending = tc]
                    ELSE [t EXCEPT !.phase = "memory"]
    <2>1. t.key \in Keys /\ t.phase = "cache"
        BY <1>2, <1>8 DEF DelCopyCache, WellFormed
    <2>2. GroundedCache(requests, a, tc)
        BY <1>2, <1>3, <2>1 DEF GroundedCache, TempCache
    <2> HIDE DEF tc
    <2>3. GroundedTask(requests, u)
        BY <1>3, <2>1, <2>2, GroundedSteps
    <2>4. task' = [task EXCEPT ![c] = u]
        BY <1>8 DEF DelCopyCache, tc
    <2> HIDE DEF u, t
    <2> QED
        BY <1>4, <1>8, <2>3, <2>4, TaskGrounded DEF DelCopyCache
<1>9. CASE DelCopy(c)
    <2> DEFINE found == Readable(Lookup(a), o) /\ Has(Lookup(a), o, t.key)
               table == WithoutKey(Lookup(a), o, t.key)
               u == IF found THEN [t EXCEPT !.phase = "store", !.pending = table] ELSE None
    <2>1. t.key \in Keys /\ t.phase = "memory"
        BY <1>2, <1>9 DEF DelCopy, WellFormed
    <2>2. found => GroundedTable(requests, a, table)
        <3>1. found => \A p \in Owners, j \in Keys :
                  Has(table, p, j) => Kept(Lookup(a), table, p, j)
            BY <1>2, <2>1, WithoutKeyFacts DEF Has, Table
        <3> QED
            BY <1>2, <1>3, <3>1, GroundedTables
    <2>3. task' = [task EXCEPT ![c] = u]
        BY <1>9 DEF DelCopy, Return
    <2> HIDE DEF found, table
    <2>4. u # None => GroundedTask(requests, u)
        BY <1>3, <2>1, <2>2, GroundedSteps
    <2> HIDE DEF u, t
    <2> QED
        BY <1>4, <1>9, <2>3, <2>4, TaskGrounded DEF DelCopy
<1>10. CASE StoreCache(c)
    <2>1. GroundedCache(requests, a, t.pending)
        BY <1>3, <1>10 DEF StoreCache, GroundedTask
    <2>2. CacheGrounded'
        BY <1>2, <1>4, <1>10, <2>1, GroundReplaced DEF StoreCache
    <2>3. TasksGrounded'
        BY <1>4, <1>10, GroundReplaced DEF StoreCache, Return
    <2> QED
        BY <1>4, <1>10, <2>2, <2>3, GroundKept DEF StoreCache, GroundInv
<1>11. CASE Store(c)
    <2>1. GroundedTable(requests, a, t.pending)
        BY <1>3, <1>11 DEF Store, GroundedTask
    <2>2. AppsGrounded'
        BY <1>2, <1>4, <1>11, <2>1, GroundReplaced DEF Store
    <2>3. TasksGrounded'
        BY <1>4, <1>11, GroundReplaced DEF Store, Return
    <2> QED
        BY <1>4, <1>11, <2>2, <2>3, GroundKept DEF Store, GroundInv
<1>12. CASE GetCache(c)
    <2> DEFINE u == IF CacheHit(t)
                    THEN [t EXCEPT !.phase = "answered", !.val = cache[a][t.key].value]
                    ELSE [t EXCEPT !.phase = "memory"]
    <2>1. t.key \in Keys
        BY <1>2, <1>12 DEF GetCache, WellFormed
    <2>2. CacheHit(t) => Sourced(requests, a, o, t.key, cache[a][t.key].value)
        BY <1>3, <2>1 DEF CacheHit, GroundedCache
    <2>3. GroundedTask(requests, u)
        BY <1>3, <2>2, GroundedSteps
    <2>4. task' = [task EXCEPT ![c] = u]
        BY <1>12 DEF GetCache
    <2> HIDE DEF u, t
    <2> QED
        BY <1>4, <1>12, <2>3, <2>4, TaskGrounded DEF GetCache
<1>13. CASE GetMemory(c)
    <2> DEFINE found == Readable(Lookup(a), o) /\ Has(Lookup(a), o, t.key)
               v == Lookup(a)[o].data[t.key].data
               u == IF found THEN [t EXCEPT !.phase = "answered", !.val = v] ELSE None
    <2>1. t.key \in Keys
        BY <1>2, <1>13 DEF GetMemory, WellFormed
    <2>2. found => Sourced(requests, a, o, t.key, v)
        BY <1>2, <1>3, <2>1 DEF GroundedTable
    <2>3. task' = [task EXCEPT ![c] = u]
        BY <1>13 DEF GetMemory
    <2> HIDE DEF found, v
    <2>4. u # None => GroundedTask(requests, u)
        BY <1>3, <2>2, GroundedSteps
    <2> HIDE DEF u, t
    <2> QED
        BY <1>4, <1>13, <2>3, <2>4, TaskGrounded DEF GetMemory
<1>14. CASE GetReturn(c)
    BY <1>4, <1>14, TaskGrounded DEF GetReturn, Return
<1> QED
    BY <1>5, <1>6, <1>7, <1>8, <1>9, <1>10, <1>11, <1>12, <1>13, <1>14 DEF Continue

LEMMA LocalizeGrounded ==
    ASSUME TypeInv, GroundInv, NEW l \in Localizers, Localize(l) PROVE GroundInv'
<1> DEFINE loc == localizer[l]
           a == loc.app
<1>1. loc # None
    BY DEF Localize, LocalizeStart, LocalizeCopy, LocalizeStore, LocalizeTell,
           LocalizeComplete, FlushCopy, FlushClear, LocalizerAt
<1>2. /\ WellLocalizing(loc) /\ loc \in Localizing /\ a \in Apps
      /\ Lookup(a) \in Table /\ Image[a] \in Table
    BY <1>1, LocalizerParts, ImageType DEF WellLocalizing
<1>3. GroundedTable(requests, a, Lookup(a)) /\ GroundedLocalizer(requests, loc)
    BY <1>1, <1>2, LookupGrounded DEF GroundInv, LocalizersGrounded
<1>4. UNCHANGED requests
    BY DEF Localize, LocalizeStart, LocalizeCopy, LocalizeStore, LocalizeTell,
           LocalizeComplete, FlushCopy, FlushClear
\* A step of the localizer that puts nothing back.
<1>5. ASSUME NEW m, localizer' = [localizer EXCEPT ![l] = m],
             m # None => GroundedLocalizer(requests, m), UNCHANGED <<apps, cache, task>>
      PROVE  GroundInv'
    <2>1. LocalizersGrounded'
        BY <1>4, <1>5, GroundReplaced
    <2> QED
        BY <1>4, <1>5, <2>1, GroundKept DEF GroundInv
<1>6. /\ GroundedLocalizer(requests, [loc EXCEPT !.phase = "copy"])
      /\ GroundedLocalizer(requests, [loc EXCEPT !.phase = "complete"])
      /\ GroundedLocalizer(requests, [loc EXCEPT !.phase = "flush"])
      /\ GroundedLocalizer(requests, [loc EXCEPT !.phase = "clear"])
    BY <1>2 DEF GroundedLocalizer, Localizing
<1>7. CASE LocalizeStart(l)
    BY <1>5, <1>6, <1>7 DEF LocalizeStart, Move
<1>8. CASE LocalizeCopy(l)
    <2>1. PICK fetched \in SUBSET {o \in Owners : Lookup(a)[o] # None /\ Image[a][o] # None} :
              localizer' = [localizer EXCEPT ![l] =
                  [app |-> a, phase |-> "store",
                   pending |-> Patched(Lookup(a), Image[a], fetched)]]
        BY <1>8 DEF LocalizeCopy, Patched
    <2> DEFINE table == Patched(Lookup(a), Image[a], fetched)
               m == [app |-> a, phase |-> "store", pending |-> table]
    <2>2. GroundedTable(requests, a, table)
        BY <1>2, <1>3, PatchedGrounded
    <2>3. localizer' = [localizer EXCEPT ![l] = m]
        BY <2>1
    <2> HIDE DEF table
    <2>4. GroundedLocalizer(requests, m)
        BY <2>2 DEF GroundedLocalizer
    <2> HIDE DEF m
    <2> QED
        BY <1>5, <1>8, <2>3, <2>4 DEF LocalizeCopy
<1>9. CASE LocalizeStore(l)
    <2> DEFINE m == [app |-> a, phase |-> "tell", pending |-> None]
    <2>1. GroundedTable(requests, a, loc.pending)
        BY <1>3, <1>9 DEF LocalizeStore, LocalizerAt, GroundedLocalizer
    <2>2. GroundedLocalizer(requests, m)
        BY DEF GroundedLocalizer
    <2>3. localizer' = [localizer EXCEPT ![l] = m]
        BY <1>9 DEF LocalizeStore
    <2>4. AppsGrounded'
        BY <1>2, <1>4, <1>9, <2>1, GroundReplaced DEF LocalizeStore
    <2> HIDE DEF m
    <2>5. LocalizersGrounded'
        BY <1>4, <2>2, <2>3, GroundReplaced
    <2> QED
        BY <1>4, <1>9, <2>4, <2>5, GroundKept DEF LocalizeStore, GroundInv
<1>10. CASE LocalizeTell(l) \/ LocalizeComplete(l)
    BY <1>5, <1>6, <1>10 DEF LocalizeTell, LocalizeComplete, Move
<1>11. CASE FlushCopy(l)
    <2> DEFINE m == IF cache[a] = EmptyCache THEN None ELSE [loc EXCEPT !.phase = "clear"]
    <2>1. localizer' = [localizer EXCEPT ![l] = m]
        BY <1>11 DEF FlushCopy
    <2>2. m # None => GroundedLocalizer(requests, m)
        BY <1>6
    <2> HIDE DEF m
    <2> QED
        BY <1>5, <1>11, <2>1, <2>2 DEF FlushCopy
<1>12. CASE FlushClear(l)
    <2>1. CacheGrounded'
        BY <1>12, GroundedTables DEF FlushClear, CacheGrounded
    <2>2. LocalizersGrounded'
        BY <1>4, <1>12, GroundReplaced DEF FlushClear
    <2> QED
        BY <1>4, <1>12, <2>1, <2>2, GroundKept DEF FlushClear, GroundInv
<1> QED
    BY <1>7, <1>8, <1>9, <1>10, <1>11, <1>12 DEF Localize

(* Uploads and the network loop.                                              *)

BesideGrounded ==
    /\ \A a \in Apps : upload[a] # None => GroundedTable(requests, a, upload[a])
    /\ merging # None => GroundedTable(requests, merging.app, merging.pending)

AllGrounded == GroundInv /\ BesideGrounded

LEMMA BesideKept ==
    ASSUME BesideGrounded, requests \subseteq requests', UNCHANGED <<upload, merging>>
    PROVE  BesideGrounded'
BY GroundGrows DEF BesideGrounded

LEMMA MergeGrounded ==
    ASSUME NEW asked, NEW a \in Apps, NEW table \in Table, GroundedTable(asked, a, table),
           NEW m \in Change, Merge(table, m, 0) # None,
           m.type = "Write" => Sourced(asked, a, m.owner, m.key, m.data)
    PROVE  GroundedTable(asked, a, Merge(table, m, 0))
<1> DEFINE kept == Retained(table[m.owner].data, m.write_time)
<1>1. m.owner \in Owners /\ m.key \in Keys /\ m.data \in Values /\ m.perm \in BOOLEAN
    BY MergeCases
<1>2. ASSUME m.type = "Write"
      PROVE  /\ GroundedTable(asked, a, Put(EmptyTable, m.owner, m.key, m.data, 0))
             /\ GroundedTable(asked, a, Put(table, m.owner, m.key, m.data, 0))
    BY <1>1, <1>2, EmptyTypes, GroundedTables, PutGrounded
<1>3. ASSUME table[m.owner] # None
      PROVE  /\ GroundedTable(asked, a, WithoutKey(table, m.owner, m.key))
             /\ GroundedTable(asked, a, WithAccess(table, m.owner, m.perm, 0))
             /\ GroundedTable(asked, a, SetData(table, m.owner, kept))
    <2>1. \A o \in Owners, k \in Keys : Has(WithoutKey(table, m.owner, m.key), o, k) =>
              Kept(table, WithoutKey(table, m.owner, m.key), o, k)
        BY <1>1, <1>3, WithoutKeyFacts DEF Table
    <2>2. \A o \in Owners, k \in Keys : Has(WithAccess(table, m.owner, m.perm, 0), o, k) =>
              Kept(table, WithAccess(table, m.owner, m.perm, 0), o, k)
        BY <1>1, <1>3, WithAccessFacts DEF Table
    <2>3. \A o \in Owners, k \in Keys : Has(SetData(table, m.owner, kept), o, k) =>
              Kept(table, SetData(table, m.owner, kept), o, k)
        <3>1. /\ kept \in [Keys -> Units(Values) \cup {None}]
              /\ \A k \in Keys : kept[k] # None => kept[k] = table[m.owner].data[k]
            BY <1>1, <1>3, DataType, RetainedPart
        <3> HIDE DEF kept
        <3> QED
            BY <1>1, <1>3, <3>1, SetDataPart DEF Table
    <2> HIDE DEF kept
    <2> QED
        BY <2>1, <2>2, <2>3, GroundedTables
<1> QED
    BY <1>2, <1>3, MergeCases

LEMMA BesideGrounds ==
    ASSUME AllTyped, AllGrounded, NEW a \in Apps, Beside(a) PROVE AllGrounded'
<1>t. TypeInv /\ BesideTyped /\ GroundInv /\ BesideGrounded
    BY DEF AllTyped, AllGrounded
<1>1. CASE UploadCopy(a)
    <2>1. GroundedTable(requests, a, apps[a])
        BY <1>1, <1>t DEF UploadCopy, GroundInv, AppsGrounded
    <2>2. BesideGrounded'
        BY <1>1, <1>t, <2>1 DEF UploadCopy, BesideGrounded, BesideTyped
    <2> QED
        BY <1>1, <1>t, <2>2, GroundKept DEF UploadCopy, AllGrounded, GroundInv
<1>2. CASE UploadPut(a)
    <2>1. GroundedTable(requests, a, upload[a])
        BY <1>2, <1>t DEF UploadPut, BesideGrounded
    <2>2. AppsGrounded'
        BY <1>2, <1>t, <2>1, GroundReplaced DEF UploadPut
    <2>3. BesideGrounded'
        BY <1>2, <1>t, BesideKept DEF UploadPut
    <2> QED
        BY <1>2, <1>t, <2>2, <2>3, GroundKept DEF UploadPut, AllGrounded, GroundInv
<1>3. CASE UploadEnd(a)
    <2>1. BesideGrounded'
        BY <1>3, <1>t DEF UploadEnd, BesideGrounded, BesideTyped
    <2> QED
        BY <1>3, <1>t, <2>1, GroundKept DEF UploadEnd, AllGrounded, GroundInv
<1>4. ASSUME NEW m \in Heard, MergeCopy(a, m) PROVE AllGrounded'
    <2>1. m \in Change /\ Lookup(a) \in Table /\ requests \subseteq requests'
        BY <1>4, <1>t, LookupType DEF TypeInv, MergeCopy
    <2>2. GroundedTable(requests, a, Lookup(a)) /\ GroundedTable(requests', a, Lookup(a))
        BY <1>t, <2>1, LookupGrounded, GroundGrows
    <2>3. AppsGrounded'
        BY <1>4, <1>t, <2>1, <2>2, GroundReplaced DEF MergeCopy
    <2>4. m.type = "Write" => Sourced(requests', a, m.owner, m.key, m.data)
        BY <1>4 DEF MergeCopy, Sourced
    <2> DEFINE merged == Merge(Lookup(a), m, 0)
    <2>5. merged # None => GroundedTable(requests', a, merged)
        BY <2>1, <2>2, <2>4, MergeGrounded
    <2>6. merging' = IF merged = None THEN None
                     ELSE [app |-> a, msg |-> m, pending |-> merged]
        BY <1>4 DEF MergeCopy
    <2> HIDE DEF merged
    <2>7. merging' # None => GroundedTable(requests', merging'.app, merging'.pending)
        BY <2>5, <2>6
    <2>8. \A b \in Apps : upload'[b] # None => GroundedTable(requests', b, upload'[b])
        BY <1>4, <1>t, <2>1, GroundGrows DEF MergeCopy, BesideGrounded
    <2>9. BesideGrounded'
        BY <2>7, <2>8 DEF BesideGrounded
    <2> QED
        BY <1>4, <1>t, <2>1, <2>3, <2>9, GroundKept DEF MergeCopy, AllGrounded, GroundInv
<1> QED
    BY <1>1, <1>2, <1>3, <1>4 DEF Beside

LEMMA LoopGrounds ==
    ASSUME AllTyped, AllGrounded, MergeStore \/ LoopStops PROVE AllGrounded'
<1>t. TypeInv /\ BesideTyped /\ GroundInv /\ BesideGrounded
    BY DEF AllTyped, AllGrounded
<1>1. CASE MergeStore
    <2>1. merging.app \in Apps /\ GroundedTable(requests, merging.app, merging.pending)
        BY <1>1, <1>t, MergingParts DEF MergeStore, BesideGrounded
    <2>2. AppsGrounded'
        BY <1>1, <1>t, <2>1, GroundReplaced DEF MergeStore
    <2>3. BesideGrounded'
        BY <1>1, <1>t DEF MergeStore, BesideGrounded
    <2> QED
        BY <1>1, <1>t, <2>2, <2>3, GroundKept DEF MergeStore, AllGrounded, GroundInv
<1>2. CASE LoopStops
    BY <1>2, <1>t, GroundKept, BesideKept DEF LoopStops, AllGrounded, GroundInv
<1> QED
    BY <1>1, <1>2

\* The commands and localizers.
LEMMA OwnGrounds ==
    ASSUME BesideGrounded,
           \/ \E c \in Clients : InitStep(c) \/ Start(c) \/ Continue(c)
           \/ \E l \in Localizers : Localize(l)
    PROVE  BesideGrounded'
<1>1. ASSUME NEW c \in Clients, InitStep(c) \/ Start(c) \/ Continue(c)
      PROVE  requests \subseteq requests' /\ UNCHANGED <<upload, merging>>
    BY <1>1 DEF InitStep, InitNew, InitImage, ForgetApplication, Start, SetBegin, DelBegin,
       GetBegin, TruncateBegin, AccessBegin, Continue, InitComplete, SetCopyCache, SetCopy,
       DelCopyCache, DelCopy, StoreCache, Store, GetCache, GetMemory, GetReturn
<1>2. ASSUME NEW l \in Localizers, Localize(l)
      PROVE  requests \subseteq requests' /\ UNCHANGED <<upload, merging>>
    BY <1>2 DEF Localize, LocalizeStart, LocalizeCopy, LocalizeStore, LocalizeTell,
       LocalizeComplete, FlushCopy, FlushClear
<1> QED
    BY <1>1, <1>2, BesideKept

LEMMA GroundNext == ASSUME AllTyped, AllGrounded, [Next]_vars PROVE AllGrounded'
<1>1. CASE UNCHANGED vars
    BY <1>1, GroundKept, BesideKept DEF vars, AllGrounded, GroundInv
<1> QED
    BY <1>1, InitStepGrounded, StartGrounded, ContinueGrounded, LocalizeGrounded,
       OwnGrounds, BesideGrounds, LoopGrounds DEF Next, AllGrounded, AllTyped

(* Whatever the commands, localizers, uploads and the network loop overwrite  *)
(* of one another, get answers a value that was set for the application,      *)
(* owner and key it is asked for, here or by a peer, or that the image has    *)
(* there (get_db_value, set_db_value, localize_application_data,              *)
(* update_data_image, handle_gossiped_data).                                  *)
THEOREM AnswersCorrect == Spec => []AnswersAreWrites
<1>1. AllGrounded => AnswersAreWrites
    BY DEF AllGrounded, GroundInv, TasksGrounded, GroundedTask, Sourced, AnswersAreWrites
<1>2. Init => AllGrounded
    <2>1. Init => BesideGrounded
        BY DEF Init, BesideGrounded
    <2> QED
        BY <2>1, GroundInit DEF AllGrounded
<1>3. AllTyped /\ AllGrounded /\ [Next]_vars => AllGrounded'
    BY GroundNext
<1> QED
    BY <1>1, <1>2, <1>3, TypeAlways, PTL DEF Spec

-----------------------------------------------------------------------------
(* The flag.  Once an initialization has begun the flag is up or somebody is  *)
(* about to raise it.                                                         *)

InitRunning == \E c \in Clients : task[c] # None /\ task[c].cmd = "init"

Localizes(l) ==
    localizer[l] # None /\ localizer[l].phase \in {"start", "copy", "store", "tell", "complete"}

FlagInv == ~complete => ~begun \/ InitRunning \/ \E l \in Localizers : Localizes(l)

LEMMA FlagInit == ASSUME Init PROVE FlagInv
BY DEF Init, FlagInv

LEMMA InitStepFlag ==
    ASSUME TypeInv, FlagInv, NEW c \in Clients, InitStep(c) PROVE FlagInv'
<1>1. ASSUME NEW a \in Apps, InitNew(c, a) PROVE FlagInv'
    <2>1. task'[c] # None /\ task'[c].cmd = "init"
        <3>1. Command("init", "complete", a, None, None, None) # None
            BY CommandTypes DEF Sams, WellFormed
        <3> QED
            BY <1>1, <3>1 DEF InitNew, Begin, Command, TypeInv, TasksTyped
    <2> QED
        BY <2>1 DEF FlagInv, InitRunning
<1>2. ASSUME NEW a \in Apps, NEW l \in Localizers, InitImage(c, a, l) PROVE FlagInv'
    <2>1. [app |-> a, phase |-> "start", pending |-> None] # None
        BY DEF Localizing
    <2>2. Localizes(l)'
        BY <1>2, <2>1 DEF InitImage, Localizes, TypeInv, LocalizersTyped
    <2> QED
        BY <2>2 DEF FlagInv
<1>3. ASSUME NEW a \in Apps, ForgetApplication(c, a) PROVE FlagInv'
    BY <1>3 DEF ForgetApplication, FlagInv, InitRunning, Localizes
<1> QED
    BY <1>1, <1>2, <1>3 DEF InitStep

\* The command of c, which initializes nothing, begins, goes on or ends.
LEMMA TaskFlag ==
    ASSUME TypeInv, FlagInv, NEW c \in Clients, NEW t,
           task[c] = None \/ task[c].cmd # "init",
           task' = [task EXCEPT ![c] = t], UNCHANGED <<complete, localizer, begun>>
    PROVE  FlagInv'
<1>1. task \in [Clients -> Task \cup {None}]
    BY DEF TypeInv, TasksTyped
<1>2. InitRunning => InitRunning'
    BY <1>1 DEF InitRunning
<1> QED
    BY <1>2 DEF FlagInv, Localizes

LEMMA StartFlag ==
    ASSUME TypeInv, FlagInv, NEW c \in Clients, Start(c) PROVE FlagInv'
<1>1. /\ UNCHANGED <<complete, localizer, begun>> /\ task[c] = None
      /\ \E t : task' = [task EXCEPT ![c] = t]
    BY DEF Start, SetBegin, DelBegin, GetBegin, TruncateBegin, AccessBegin, Begin
<1> QED
    BY <1>1, TaskFlag

LEMMA ContinueFlag ==
    ASSUME TypeInv, FlagInv, NEW c \in Clients, Continue(c) PROVE FlagInv'
<1>1. CASE InitComplete(c)
    BY <1>1 DEF InitComplete, FlagInv
<1>2. CASE ~InitComplete(c)
    <2>1. /\ task[c] # None
          /\ \/ task[c].cmd \in {"set", "del", "get"}
             \/ task[c].phase \in {"store_cache", "store", "answered"}
          /\ UNCHANGED <<complete, localizer, begun>>
        BY <1>2 DEF Continue, SetCopyCache, SetCopy, DelCopyCache, DelCopy,
                    StoreCache, Store, GetCache, GetMemory, GetReturn
    <2>2. \E t : task' = [task EXCEPT ![c] = t]
        BY <1>2 DEF Continue, SetCopyCache, SetCopy, DelCopyCache, DelCopy,
                    StoreCache, Store, GetCache, GetMemory, GetReturn, Return
    <2>3. task[c].cmd # "init"
        BY <2>1, TaskParts DEF WellFormed
    <2> QED
        BY <2>1, <2>2, <2>3, TaskFlag
<1> QED
    BY <1>1, <1>2

LEMMA LocalizeFlag ==
    ASSUME TypeInv, FlagInv, NEW l \in Localizers, Localize(l) PROVE FlagInv'
<1>1. /\ localizer \in [Localizers -> Localizing \cup {None}] /\ localizer[l] \in Localizing
      /\ UNCHANGED <<task, begun>>
    BY DEF TypeInv, LocalizersTyped, Localize, LocalizeStart, LocalizeCopy, LocalizeStore,
           LocalizeTell, LocalizeComplete, FlushCopy, FlushClear, LocalizerAt
<1>2. ASSUME NEW loc, localizer' = [localizer EXCEPT ![l] = loc], loc # None,
             loc.phase \in {"copy", "store", "tell", "complete"}
      PROVE  FlagInv'
    BY <1>1, <1>2 DEF FlagInv, Localizes
<1>3. CASE LocalizeStart(l) \/ LocalizeTell(l)
    <2>1. /\ [localizer[l] EXCEPT !.phase = "copy"] \in Localizing
          /\ [localizer[l] EXCEPT !.phase = "complete"] \in Localizing
        BY <1>1 DEF Localizing
    <2>2. /\ [localizer[l] EXCEPT !.phase = "copy"].phase = "copy"
          /\ [localizer[l] EXCEPT !.phase = "complete"].phase = "complete"
        BY <1>1 DEF Localizing
    <2> QED
        BY <1>2, <1>3, <2>1, <2>2 DEF LocalizeStart, LocalizeTell, Move
<1>4. CASE LocalizeCopy(l)
    <2> DEFINE a == localizer[l].app
    <2>1. PICK fetched \in SUBSET {o \in Owners : Lookup(a)[o] # None /\ Image[a][o] # None} :
              localizer' = [localizer EXCEPT ![l] =
                  [app |-> a, phase |-> "store",
                   pending |-> Patched(Lookup(a), Image[a], fetched)]]
        BY <1>4 DEF LocalizeCopy, Patched
    <2> DEFINE table == Patched(Lookup(a), Image[a], fetched)
    <2>2. WellLocalizing(localizer[l]) /\ a \in Apps /\ Lookup(a) \in Table
        BY <1>1, LocalizerParts
    <2>3. table \in Table
        BY <2>2, ImageType, PatchedType DEF WellLocalizing
    <2>4. localizer' = [localizer EXCEPT ![l] =
                            [app |-> a, phase |-> "store", pending |-> table]]
        BY <2>1
    <2> HIDE DEF table
    <2>5. [app |-> a, phase |-> "store", pending |-> table] \in Localizing
        BY <2>2, <2>3 DEF Localizing
    <2> QED
        BY <1>2, <2>4, <2>5
<1>5. CASE LocalizeStore(l)
    <2>1. [app |-> localizer[l].app, phase |-> "tell", pending |-> None] \in Localizing
        BY <1>1 DEF Localizing
    <2> QED
        BY <1>2, <1>5, <2>1 DEF LocalizeStore
<1>6. CASE LocalizeComplete(l)
    BY <1>6 DEF LocalizeComplete, FlagInv
<1>7. CASE FlushCopy(l) \/ FlushClear(l)
    <2>1. ~Localizes(l)
        BY <1>7 DEF FlushCopy, FlushClear, LocalizerAt, Localizes
    <2>2. \A m \in Localizers : Localizes(m) => localizer'[m] = localizer[m]
        BY <1>1, <1>7, <2>1 DEF FlushCopy, FlushClear
    <2> QED
        BY <1>1, <1>7, <2>2 DEF FlushCopy, FlushClear, FlagInv, InitRunning, Localizes
<1> QED
    BY <1>3, <1>4, <1>5, <1>6, <1>7 DEF Localize

LEMMA FlagNext == ASSUME AllTyped, FlagInv, [Next]_vars PROVE FlagInv'
<1>1. CASE \/ UNCHANGED vars \/ MergeStore \/ LoopStops
          \/ \E a \in Apps : Beside(a)
    <2>1. UNCHANGED <<complete, task, localizer, begun>>
        BY <1>1 DEF vars, Beside, UploadCopy, UploadPut, UploadEnd, MergeCopy, MergeStore,
                    LoopStops
    <2> QED
        BY <2>1 DEF FlagInv, InitRunning, Localizes
<1> QED
    BY <1>1, InitStepFlag, StartFlag, ContinueFlag, LocalizeFlag DEF Next, AllTyped

(* Whenever writes go to the cache there is an initialization on its way to   *)
(* raising the flag, or none has begun at all (init_application,              *)
(* localize_application_data).                                                *)
THEOREM FlagCorrect == Spec => []FlagDownWhileInitializing
<1>1. FlagInv => FlagDownWhileInitializing
    BY DEF FlagInv, FlagDownWhileInitializing, InitRunning, Localizes
<1>2. AllTyped /\ FlagInv /\ [Next]_vars => FlagInv'
    BY FlagNext
<1> QED
    BY <1>1, <1>2, TypeAlways, FlagInit, PTL DEF Spec

-----------------------------------------------------------------------------
(* What a table shows of a key, and how each command changes it.              *)

LEMMA PutShown ==
    ASSUME NEW table \in Table, NEW o \in Owners, NEW k \in Keys, NEW v \in Values,
           NEW p \in Owners, NEW j \in Keys
    PROVE  Shown(Put(table, o, k, v, 0), p, j) =
               IF p = o /\ j = k THEN v ELSE Shown(table, p, j)
<1> DEFINE unit == [data |-> v, write_time |-> 0]
           new == Put(table, o, k, v, 0)
<1>1. unit \in Units(Values) /\ unit # None /\ unit.data = v
    BY DEF Units
<1>2. CASE table[o] = None
    <2> DEFINE data == [EmptyData EXCEPT ![k] = unit]
    <2>1. new = [table EXCEPT ![o] = NewEntry(data)]
        BY <1>2 DEF Put, DataMapInsert
    <2>2. \A i \in Keys : data[i] = IF i = k THEN unit ELSE None
        BY DEF EmptyData
    <2>3. data \in [Keys -> Units(Values) \cup {None}]
        BY <1>1 DEF EmptyData
    <2> HIDE DEF data
    <2>4. NewEntry(data) \in Entries(Values) /\ NewEntry(data).data = data
        BY <2>3 DEF NewEntry, Entries
    <2>5. /\ new[o] = NewEntry(data)
          /\ \A q \in Owners \ {o} : new[q] = table[q]
        BY <2>1 DEF Table, Tables
    <2> HIDE DEF unit
    <2>6. CASE p = o
        BY <1>1, <1>2, <2>2, <2>4, <2>5, <2>6 DEF Shown, Has
    <2>7. CASE p # o
        BY <2>5, <2>7 DEF Shown, Has
    <2> QED
        BY <2>6, <2>7
<1>3. CASE table[o] # None
    <2> DEFINE data == [table[o].data EXCEPT ![k] = unit]
    <2>1. table[o].data \in [Keys -> Units(Values) \cup {None}]
        BY <1>3 DEF Table, Tables, Entries
    <2>2. /\ data \in [Keys -> Units(Values) \cup {None}]
          /\ \A i \in Keys : data[i] = IF i = k THEN unit ELSE table[o].data[i]
        BY <1>1, <2>1
    <2>3. new = SetData(table, o, data)
        BY <1>3 DEF Put, DataMapInsert
    <2> HIDE DEF data
    <2>4. /\ new[o] \in Entries(Values) /\ new[o].data = data
          /\ \A q \in Owners \ {o} : new[q] = table[q]
        BY <1>3, <2>2, <2>3, SetDataFacts DEF Table
    <2> HIDE DEF unit
    <2>5. CASE p = o
        BY <1>1, <1>3, <2>2, <2>4, <2>5 DEF Shown, Has
    <2>6. CASE p # o
        BY <2>4, <2>6 DEF Shown, Has
    <2> QED
        BY <2>5, <2>6
<1> QED
    BY <1>2, <1>3

LEMMA WithoutShown ==
    ASSUME NEW table \in Table, NEW o \in Owners, table[o] # None,
           NEW p \in Owners, NEW j \in Keys
    PROVE  /\ \A k \in Keys : Shown(WithoutKey(table, o, k), p, j) =
                 IF p = o /\ j = k THEN Gone ELSE Shown(table, p, j)
           /\ Shown(WithoutData(table, o), p, j) =
                 IF p = o THEN Gone ELSE Shown(table, p, j)
<1>1. table[o].data \in [Keys -> Units(Values) \cup {None}]
    BY DEF Table, Tables, Entries
<1>2. ASSUME NEW data \in [Keys -> Units(Values) \cup {None}]
      PROVE  /\ SetData(table, o, data)[o] # None /\ SetData(table, o, data)[o].data = data
             /\ \A q \in Owners \ {o} : SetData(table, o, data)[q] = table[q]
    BY SetDataFacts DEF Table
<1>3. ASSUME NEW k \in Keys
      PROVE  Shown(WithoutKey(table, o, k), p, j) =
                 IF p = o /\ j = k THEN Gone ELSE Shown(table, p, j)
    <2> DEFINE data == [table[o].data EXCEPT ![k] = None]
               new == SetData(table, o, data)
    <2>1. /\ data \in [Keys -> Units(Values) \cup {None}]
          /\ \A i \in Keys : data[i] = IF i = k THEN None ELSE table[o].data[i]
        BY <1>1
    <2>2. WithoutKey(table, o, k) = new
        BY DEF WithoutKey
    <2> HIDE DEF data
    <2>3. /\ new[o] # None /\ new[o].data = data
          /\ \A q \in Owners \ {o} : new[q] = table[q]
        BY <1>2, <2>1
    <2>4. CASE p = o
        BY <2>1, <2>2, <2>3, <2>4 DEF Shown, Has
    <2>5. CASE p # o
        BY <2>2, <2>3, <2>5 DEF Shown, Has
    <2> QED
        BY <2>4, <2>5
<1>4. Shown(WithoutData(table, o), p, j) = IF p = o THEN Gone ELSE Shown(table, p, j)
    <2>1. EmptyData \in [Keys -> Units(Values) \cup {None}] /\ EmptyData[j] = None
        BY DEF EmptyData
    <2>2. /\ WithoutData(table, o)[o].data = EmptyData
          /\ \A q \in Owners \ {o} : WithoutData(table, o)[q] = table[q]
        BY <1>2, <2>1 DEF WithoutData
    <2>3. CASE p = o
        BY <2>1, <2>2, <2>3 DEF Shown, Has
    <2>4. CASE p # o
        BY <2>2, <2>4 DEF Shown, Has
    <2> QED
        BY <2>3, <2>4
<1> QED
    BY <1>3, <1>4

LEMMA WithAccessShown ==
    ASSUME NEW table \in Table, NEW o \in Owners, table[o] # None,
           NEW perm \in BOOLEAN, NEW p \in Owners, NEW j \in Keys
    PROVE  Shown(WithAccess(table, o, perm, 0), p, j) = Shown(table, p, j)
<1> DEFINE entry == [table[o] EXCEPT !.access = perm, !.access_modification_time = 0]
           new == WithAccess(table, o, perm, 0)
<1>1. table[o] \in Entries(Values)
    BY DEF Table, Tables
<1>2. entry \in Entries(Values) /\ entry.data = table[o].data
    BY <1>1 DEF Entries
<1>3. new = [table EXCEPT ![o] = entry]
    BY DEF WithAccess
<1> HIDE DEF entry
<1>4. new[o] = entry /\ \A q \in Owners \ {o} : new[q] = table[q]
    BY <1>3 DEF Table, Tables
<1>5. CASE p = o
    BY <1>2, <1>4, <1>5 DEF Shown, Has
<1>6. CASE p # o
    BY <1>4, <1>6 DEF Shown, Has
<1> QED
    BY <1>5, <1>6

LEMMA PatchedShown ==
    ASSUME NEW table, NEW image, NEW fetched, NEW o \in Owners, NEW k \in Keys, o \notin fetched
    PROVE  Shown(Patched(table, image, fetched), o, k) = Shown(table, o, k)
BY DEF Patched, Shown, Has

LEMMA MergeShown ==
    ASSUME NEW table \in Table, NEW m \in Change, Merge(table, m, 0) # None,
           NEW o \in Owners, NEW k \in Keys,
           Shown(Merge(table, m, 0), o, k) # Shown(table, o, k)
    PROVE  HeardOf(m, o, k) \/ (m.type = "Write" /\ table[m.owner] = None)
<1> DEFINE kept == Retained(table[m.owner].data, m.write_time)
<1>1. m.owner \in Owners /\ m.key \in Keys /\ m.data \in Values /\ m.perm \in BOOLEAN
    BY MergeCases
<1>2. Shown(Put(table, m.owner, m.key, m.data, 0), o, k) =
          IF o = m.owner /\ k = m.key THEN m.data ELSE Shown(table, o, k)
    BY <1>1, PutShown
<1>3. ASSUME table[m.owner] # None
      PROVE  /\ Shown(WithoutKey(table, m.owner, m.key), o, k) =
                    IF o = m.owner /\ k = m.key THEN Gone ELSE Shown(table, o, k)
             /\ Shown(WithAccess(table, m.owner, m.perm, 0), o, k) = Shown(table, o, k)
             /\ o # m.owner => Shown(SetData(table, m.owner, kept), o, k) = Shown(table, o, k)
    <2>1. Shown(WithoutKey(table, m.owner, m.key), o, k) =
              IF o = m.owner /\ k = m.key THEN Gone ELSE Shown(table, o, k)
        BY <1>1, <1>3, WithoutShown
    <2>2. Shown(WithAccess(table, m.owner, m.perm, 0), o, k) = Shown(table, o, k)
        BY <1>1, <1>3, WithAccessShown
    <2>3. kept \in [Keys -> Units(Values) \cup {None}]
        BY <1>1, <1>3, DataType, RetainedPart
    <2>4. \A p \in Owners \ {m.owner} : SetData(table, m.owner, kept)[p] = table[p]
        BY <1>1, <1>3, <2>3, SetDataFacts DEF Table
    <2> QED
        BY <2>1, <2>2, <2>4 DEF Shown, Has
<1> HIDE DEF kept
<1> QED
    BY <1>2, <1>3, MergeCases DEF HeardOf, kept

-----------------------------------------------------------------------------
(* The invariant.  As long as the copy a task is to put back is the latest,   *)
(* what it would change of the table that is there now is meant.              *)

CommandMeans(c, a) ==
    (c \in fresh[a] /\ task[c] # None /\ task[c].phase = "store" /\ task[c].app = a) =>
        \A o \in Owners, k \in Keys :
            Shown(task[c].pending, o, k) # Memory(a, o, k) => MeantBy(task[c], o, k)

LocalizerMeans(l, a) ==
    (l \in fresh[a] /\ LocalizerAt(l, "store") /\ localizer[l].app = a) =>
        \A o \in Owners, k \in Keys :
            Shown(localizer[l].pending, o, k) # Memory(a, o, k) => Image[a][o] # None

UploadMeans(a) ==
    (Uploader \in fresh[a] /\ upload[a] # None) =>
        \A o \in Owners, k \in Keys : Shown(upload[a], o, k) = Memory(a, o, k)

MergeMeans(m, table, o, k) ==
    HeardOf(m, o, k) \/ (m.type = "Write" /\ table[m.owner] = None)

LoopMeans(a) ==
    (Loop \in fresh[a] /\ merging # None /\ merging.app = a) =>
        \A o \in Owners, k \in Keys :
            Shown(merging.pending, o, k) # Memory(a, o, k) =>
                MergeMeans(merging.msg, Lookup(a), o, k)

MeansAt(a) ==
    /\ \A c \in Clients : CommandMeans(c, a)
    /\ \A l \in Localizers : LocalizerMeans(l, a)
    /\ UploadMeans(a)
    /\ LoopMeans(a)

MeansInv == \A a \in Apps : MeansAt(a)

LEMMA MeansInit == ASSUME Init PROVE MeansInv
BY DEF Init, MeansInv, MeansAt, CommandMeans, LocalizerMeans, UploadMeans, LoopMeans

\* After the table was replaced no copy is the latest.
LEMMA NoneFresh == ASSUME NEW a \in Apps, fresh'[a] = {} PROVE MeansAt(a)'
BY DEF MeansAt, CommandMeans, LocalizerMeans, UploadMeans, LoopMeans

\* The table stays: every task goes on, puts back something else than a copy of
\* it, or has its copy made anew.
LEMMA MeansKept ==
    ASSUME MeansInv, NEW a \in Apps, apps'[a] = apps[a] \/ Lookup(a)' = Lookup(a),
           \A c \in Clients :
               \/ task'[c] = task[c] /\ (c \in fresh'[a] => c \in fresh[a])
               \/ task'[c] = None \/ task'[c].phase # "store" \/ task'[c].app # a
               \/ CommandMeans(c, a)',
           \A l \in Localizers :
               \/ localizer'[l] = localizer[l] /\ (l \in fresh'[a] => l \in fresh[a])
               \/ localizer'[l] = None \/ localizer'[l].phase # "store"
               \/ localizer'[l].app # a
               \/ LocalizerMeans(l, a)',
           \/ upload'[a] = upload[a] /\ (Uploader \in fresh'[a] => Uploader \in fresh[a])
           \/ upload'[a] = None
           \/ UploadMeans(a)',
           \/ merging' = merging /\ (Loop \in fresh'[a] => Loop \in fresh[a])
           \/ merging' = None
           \/ LoopMeans(a)'
    PROVE  MeansAt(a)'
<1>1. Lookup(a)' = Lookup(a) /\ \A o \in Owners, k \in Keys : Memory(a, o, k)' = Memory(a, o, k)
    BY DEF Lookup, Memory
<1>2. MeansAt(a)
    BY DEF MeansInv
<1>3. ASSUME NEW c \in Clients PROVE CommandMeans(c, a)'
    BY <1>1, <1>2 DEF MeansAt, CommandMeans, MeantBy
<1>4. ASSUME NEW l \in Localizers PROVE LocalizerMeans(l, a)'
    BY <1>1, <1>2 DEF MeansAt, LocalizerMeans, LocalizerAt
<1>5. UploadMeans(a)'
    BY <1>1, <1>2 DEF MeansAt, UploadMeans
<1>6. LoopMeans(a)'
    BY <1>1, <1>2 DEF MeansAt, LoopMeans
<1> QED
    BY <1>3, <1>4, <1>5, <1>6 DEF MeansAt

\* A command or an initialization that replaces the table of b.
LEMMA ReplacesMeans ==
    ASSUME AllTyped, MeansInv, NEW a \in Apps, NEW b \in Apps, NEW t, Replaces(b, t),
           \A c \in Clients :
               task'[c] = task[c] \/ task'[c] = None \/ task'[c].phase # "store",
           \A l \in Localizers :
               localizer'[l] = localizer[l] \/ localizer'[l] = None
                   \/ localizer'[l].phase # "store",
           UNCHANGED upload, UNCHANGED merging \/ merging' = None
    PROVE  MeansAt(a)'
<1>1. apps \in [Apps -> Table \cup {None}] /\ DOMAIN fresh = Apps
    BY DEF AllTyped, TypeInv, StoreTyped, BesideTyped
<1>2. CASE a = b
    BY <1>1, <1>2, NoneFresh
<1>3. CASE a # b
    BY <1>1, <1>3, MeansKept
<1> QED
    BY <1>2, <1>3

LEMMA InitStepMeans ==
    ASSUME AllTyped, MeansInv, NEW c \in Clients, InitStep(c), NEW a \in Apps
    PROVE  MeansAt(a)'
<1>1. /\ task \in [Clients -> Task \cup {None}]
      /\ localizer \in [Localizers -> Localizing \cup {None}]
    BY DEF AllTyped, TypeInv, TasksTyped, LocalizersTyped
<1>2. ASSUME NEW b \in Apps, InitNew(c, b) PROVE MeansAt(a)'
    <2>1. \A d \in Clients : task'[d] = task[d] \/ task'[d].phase # "store"
        BY <1>1, <1>2 DEF InitNew, Begin, Command
    <2>2. Replaces(b, FreshTable(b)) /\ UNCHANGED <<localizer, upload, merging>>
        BY <1>2 DEF InitNew
    <2> QED
        BY <2>1, <2>2, ReplacesMeans
<1>3. ASSUME NEW b \in Apps, NEW l \in Localizers, InitImage(c, b, l) PROVE MeansAt(a)'
    <2>1. \A m \in Localizers : localizer'[m] = localizer[m] \/ localizer'[m].phase # "store"
        BY <1>1, <1>3 DEF InitImage
    <2>2. Replaces(b, Listed(Image[b])) /\ UNCHANGED <<task, upload, merging>>
        BY <1>3 DEF InitImage
    <2> QED
        BY <2>1, <2>2, ReplacesMeans
<1>4. ASSUME NEW b \in Apps, ForgetApplication(c, b) PROVE MeansAt(a)'
    <2>1. Replaces(b, None) /\ UNCHANGED <<task, localizer, upload, merging>>
        BY <1>4 DEF ForgetApplication
    <2> QED
        BY <2>1, ReplacesMeans
<1> QED
    BY <1>2, <1>3, <1>4 DEF InitStep

\* The command of c takes a copy of b's table with its change made.
LEMMA CopyMeans ==
    ASSUME AllTyped, MeansInv, NEW a \in Apps, NEW b \in Apps, NEW c \in Clients, NEW t,
           task' = [task EXCEPT ![c] = t], t.app = b,
           \A o \in Owners, k \in Keys :
               Shown(t.pending, o, k) # Memory(b, o, k) => MeantBy(t, o, k),
           Copies(c, b), UNCHANGED <<apps, localizer, upload, merging>>
    PROVE  MeansAt(a)'
<1>1. /\ task \in [Clients -> Task \cup {None}]
      /\ fresh \in [Apps -> SUBSET (Clients \cup Localizers \cup {Uploader, Loop})]
    BY DEF AllTyped, TypeInv, TasksTyped, BesideTyped
<1>2. \A h : h # c /\ h \in fresh'[a] => h \in fresh[a]
    BY <1>1
<1>3. task'[c] = t /\ \A d \in Clients \ {c} : task'[d] = task[d]
    BY <1>1
<1>4. \A o \in Owners, k \in Keys : Memory(b, o, k)' = Memory(b, o, k)
    BY DEF Memory, Lookup
<1>5. CommandMeans(c, a)'
    BY <1>3, <1>4 DEF CommandMeans, MeantBy
<1>6. c \notin Localizers /\ c # Uploader /\ c # Loop
    OBVIOUS
<1>7. UNCHANGED <<localizer, upload, merging>>
    OBVIOUS
<1>8. \A d \in Clients :
          \/ task'[d] = task[d] /\ (d \in fresh'[a] => d \in fresh[a])
          \/ CommandMeans(d, a)'
    BY <1>2, <1>3, <1>5
<1>9. \A l \in Localizers :
          localizer'[l] = localizer[l] /\ (l \in fresh'[a] => l \in fresh[a])
    BY <1>2, <1>6, <1>7
<1>10. /\ upload'[a] = upload[a] /\ (Uploader \in fresh'[a] => Uploader \in fresh[a])
       /\ merging' = merging /\ (Loop \in fresh'[a] => Loop \in fresh[a])
    BY <1>2, <1>6, <1>7
<1> HIDE DEF Copies
<1> QED
    BY <1>8, <1>9, <1>10, MeansKept

\* The command of c begins, or goes on, and puts nothing back.
LEMMA TaskMeans ==
    ASSUME AllTyped, MeansInv, NEW a \in Apps, NEW c \in Clients, NEW t,
           task' = [task EXCEPT ![c] = t], t = None \/ t.phase # "store",
           UNCHANGED <<apps, localizer, upload, merging, fresh>>
    PROVE  MeansAt(a)'
<1>1. \A d \in Clients : task'[d] = task[d] \/ task'[d] = None \/ task'[d].phase # "store"
    BY DEF AllTyped, TypeInv, TasksTyped
<1> QED
    BY <1>1, MeansKept

LEMMA StartMeans ==
    ASSUME AllTyped, MeansInv, NEW c \in Clients, Start(c), NEW a \in Apps
    PROVE  MeansAt(a)'
<1> SUFFICES ASSUME NEW b \in Apps, NEW sam \in Sams,
                    \/ \E k \in Keys, v \in Values : SetBegin(c, b, sam, k, v)
                    \/ \E k \in Keys : DelBegin(c, b, sam, k) \/ GetBegin(c, b, sam, k)
                    \/ TruncateBegin(c, b, sam)
                    \/ \E perm \in BOOLEAN : AccessBegin(c, b, sam, perm)
             PROVE  MeansAt(a)'
    BY DEF Start
<1> DEFINE o == OwnerOf(b, sam)
<1>1. o \in Owners /\ Lookup(b) \in Table
    BY OwnerOfType, LookupType DEF AllTyped, TypeInv
<1>2. ASSUME NEW k \in Keys, NEW v \in Values, SetBegin(c, b, sam, k, v) PROVE MeansAt(a)'
    <2> DEFINE t == Command("set", IF complete THEN "memory" ELSE "cache", b, sam, k, v)
    <2>1. t.phase # "store"
        BY DEF Command
    <2>2. /\ task' = [task EXCEPT ![c] = t]
          /\ UNCHANGED <<apps, localizer, upload, merging, fresh>>
        BY <1>2 DEF SetBegin, Begin
    <2> HIDE DEF t
    <2> QED
        BY <2>1, <2>2, TaskMeans
<1>3. ASSUME NEW k \in Keys, DelBegin(c, b, sam, k) \/ GetBegin(c, b, sam, k)
      PROVE  MeansAt(a)'
    <2>1. \E cmd : /\ task' = [task EXCEPT ![c] = Command(cmd, "cache", b, sam, k, None)]
                   /\ UNCHANGED <<apps, localizer, upload, merging, fresh>>
        BY <1>3 DEF DelBegin, GetBegin, Begin
    <2>2. \A cmd : Command(cmd, "cache", b, sam, k, None).phase # "store"
        BY DEF Command
    <2> QED
        BY <2>1, <2>2, TaskMeans
<1>4. ASSUME NEW cmd \in {"truncate", "access"}, NEW table,
             \A p \in Owners, j \in Keys :
                 Shown(table, p, j) # Memory(b, p, j) => cmd = "truncate" /\ p = o,
             Begin(c, [Command(cmd, "store", b, sam, None, None) EXCEPT !.pending = table]),
             Copies(c, b), UNCHANGED <<apps, localizer, upload, merging>>
      PROVE  MeansAt(a)'
    <2> DEFINE t == [Command(cmd, "store", b, sam, None, None) EXCEPT !.pending = table]
    <2>1. t.app = b /\ t.cmd = cmd /\ t.sam = sam /\ t.pending = table
        BY DEF Command
    <2>2. task' = [task EXCEPT ![c] = t]
        BY <1>4 DEF Begin
    <2> HIDE DEF t
    <2>3. \A p \in Owners, j \in Keys :
              Shown(t.pending, p, j) # Memory(b, p, j) => MeantBy(t, p, j)
        BY <1>4, <2>1 DEF MeantBy
    <2> QED
        BY <1>4, <2>1, <2>2, <2>3, CopyMeans
<1>5. ASSUME TruncateBegin(c, b, sam) PROVE MeansAt(a)'
    <2>1. \A p \in Owners, j \in Keys :
              Shown(WithoutData(Lookup(b), o), p, j) # Memory(b, p, j) => p = o
        BY <1>1, <1>5, WithoutShown DEF TruncateBegin, Readable, Memory
    <2> QED
        BY <1>4, <1>5, <2>1 DEF TruncateBegin
<1>6. ASSUME NEW perm \in BOOLEAN, AccessBegin(c, b, sam, perm) PROVE MeansAt(a)'
    <2>1. \A p \in Owners, j \in Keys :
              Shown(WithAccess(Lookup(b), o, perm, 0), p, j) = Memory(b, p, j)
        BY <1>1, <1>6, WithAccessShown DEF AccessBegin, Memory
    <2> QED
        BY <1>4, <1>6, <2>1 DEF AccessBegin
<1> QED
    BY <1>2, <1>3, <1>5, <1>6

LEMMA ContinueMeans ==
    ASSUME AllTyped, MeansInv, NEW c \in Clients, Continue(c), NEW a \in Apps
    PROVE  MeansAt(a)'
<1> DEFINE t == task[c]
           b == t.app
           o == OwnerOf(t.app, t.sam)
<1>1. t # None
    BY DEF Continue, InitComplete, SetCopyCache, SetCopy, DelCopyCache, DelCopy,
           StoreCache, Store, GetCache, GetMemory, GetReturn
<1>2. /\ WellFormed(t) /\ t \in Task /\ b \in Apps /\ o \in Owners /\ Lookup(b) \in Table
    BY <1>1, TaskParts DEF AllTyped, WellFormed
<1>3. ASSUME NEW u, t.phase # "store",
             task' = [task EXCEPT ![c] = u], u = None \/ u.phase # "store",
             UNCHANGED <<apps, localizer, upload, merging, fresh>>
      PROVE  MeansAt(a)'
    BY <1>3, TaskMeans
<1>4. CASE InitComplete(c) \/ StoreCache(c) \/ GetReturn(c)
    <2>1. /\ task' = [task EXCEPT ![c] = None]
          /\ UNCHANGED <<apps, localizer, upload, merging, fresh>>
        BY <1>4 DEF InitComplete, StoreCache, GetReturn, Return
    <2> QED
        BY <2>1, TaskMeans
<1>5. CASE SetCopyCache(c) \/ DelCopyCache(c) \/ GetCache(c) \/ GetMemory(c)
    <2>1. UNCHANGED <<apps, localizer, upload, merging, fresh>>
        BY <1>5 DEF SetCopyCache, DelCopyCache, GetCache, GetMemory
    <2>2. \E tc : task' = [task EXCEPT ![c] = [t EXCEPT !.phase = "store_cache", !.pending = tc]]
          \/ task' = [task EXCEPT ![c] = [t EXCEPT !.phase = "memory"]]
          \/ \E v : task' = [task EXCEPT ![c] = [t EXCEPT !.phase = "answered", !.val = v]]
          \/ task' = [task EXCEPT ![c] = None]
        BY <1>5 DEF SetCopyCache, DelCopyCache, GetCache, GetMemory
    <2>3. /\ \A tc : [t EXCEPT !.phase = "store_cache", !.pending = tc].phase # "store"
          /\ [t EXCEPT !.phase = "memory"].phase # "store"
          /\ \A v : [t EXCEPT !.phase = "answered", !.val = v].phase # "store"
        BY <1>2 DEF Task
    <2> HIDE DEF t
    <2> QED
        BY <2>1, <2>2, <2>3, TaskMeans
<1>6. PICK b1, u :
          /\ b1 = b
          /\ u = [t EXCEPT !.phase = "store",
                           !.pending = IF t.cmd = "set"
                                       THEN Put(Lookup(b), o, t.key, t.val, 0)
                                       ELSE WithoutKey(Lookup(b), o, t.key)]
    OBVIOUS
<1>10. /\ u.app = b /\ u.cmd = t.cmd /\ u.sam = t.sam /\ u.key = t.key
       /\ u.pending = IF t.cmd = "set" THEN Put(Lookup(b), o, t.key, t.val, 0)
                      ELSE WithoutKey(Lookup(b), o, t.key)
    BY <1>2, <1>6 DEF Task
<1>11. ASSUME t.cmd \in {"set", "del"}, task' = [task EXCEPT ![c] = u],
              \A p \in Owners, j \in Keys :
                  Shown(u.pending, p, j) # Memory(b, p, j) => p = o /\ j = t.key,
              Copies(c, b), UNCHANGED <<apps, localizer, upload, merging>>
       PROVE  MeansAt(a)'
    <2>1. b1 \in Apps /\ u.app = b1 /\ Copies(c, b1)
        BY <1>2, <1>6, <1>10, <1>11
    <2>2. \A p \in Owners, j \in Keys :
              Shown(u.pending, p, j) # Memory(b1, p, j) => MeantBy(u, p, j)
        <3>1. \A p \in Owners, j \in Keys :
                  Shown(u.pending, p, j) # Memory(b1, p, j) => p = o /\ j = t.key
            BY <1>6, <1>11
        <3> QED
            BY <1>10, <1>11, <3>1 DEF MeantBy
    <2> HIDE DEF t, b, o
    <2> QED
        BY <1>11, <2>1, <2>2, CopyMeans
<1>7. CASE SetCopy(c)
    <2>1. t.cmd = "set" /\ t.key \in Keys /\ t.val \in Values
        BY <1>2, <1>7 DEF SetCopy, WellFormed
    <2>2. \A p \in Owners, j \in Keys :
              Shown(u.pending, p, j) # Memory(b, p, j) => p = o /\ j = t.key
        BY <1>2, <1>10, <2>1, PutShown DEF Memory
    <2>3. task' = [task EXCEPT ![c] = u]
        BY <1>6, <1>7, <2>1 DEF SetCopy
    <2>4. Copies(c, b) /\ UNCHANGED <<apps, localizer, upload, merging>>
        BY <1>7 DEF SetCopy
    <2> QED
        BY <1>11, <2>1, <2>2, <2>3, <2>4
<1>8. CASE DelCopy(c)
    <2>1. t.cmd = "del" /\ t.key \in Keys
        BY <1>2, <1>8 DEF DelCopy, WellFormed
    <2>2. CASE Readable(Lookup(b), o) /\ Has(Lookup(b), o, t.key)
        <3>1. \A p \in Owners, j \in Keys :
                  Shown(u.pending, p, j) # Memory(b, p, j) => p = o /\ j = t.key
            BY <1>2, <1>10, <2>1, <2>2, WithoutShown DEF Memory, Readable
        <3>2. task' = [task EXCEPT ![c] = u]
            BY <1>6, <1>8, <2>1, <2>2 DEF DelCopy
        <3>3. Copies(c, b) /\ UNCHANGED <<apps, localizer, upload, merging>>
            BY <1>8, <2>2 DEF DelCopy
        <3> QED
            BY <1>11, <2>1, <3>1, <3>2, <3>3
    <2>3. CASE ~(Readable(Lookup(b), o) /\ Has(Lookup(b), o, t.key))
        <3>1. /\ task' = [task EXCEPT ![c] = None]
              /\ UNCHANGED <<apps, localizer, upload, merging, fresh>>
            BY <1>8, <2>3 DEF DelCopy, Return
        <3> QED
            BY <3>1, TaskMeans
    <2> QED
        BY <2>2, <2>3
<1>9. CASE Store(c)
    <2>1. \A d \in Clients : task'[d] = task[d] \/ task'[d] = None
        BY <1>9 DEF Store, Return, AllTyped, TypeInv, TasksTyped
    <2>2. Replaces(b, t.pending) /\ UNCHANGED <<localizer, upload, merging>>
        BY <1>9 DEF Store
    <2> QED
        BY <1>2, <2>1, <2>2, ReplacesMeans
<1> QED
    BY <1>4, <1>5, <1>7, <1>8, <1>9 DEF Continue

LEMMA LocalizeMeans ==
    ASSUME AllTyped, MeansInv, NEW l \in Localizers, Localize(l), NEW a \in Apps
    PROVE  MeansAt(a)'
<1> DEFINE b == localizer[l].app
<1>1. localizer[l] # None
    BY DEF Localize, LocalizeStart, LocalizeCopy, LocalizeStore, LocalizeTell,
           LocalizeComplete, FlushCopy, FlushClear, LocalizerAt
<1>2. /\ b \in Apps /\ localizer[l] \in Localizing
      /\ localizer \in [Localizers -> Localizing \cup {None}]
      /\ fresh \in [Apps -> SUBSET (Clients \cup Localizers \cup {Uploader, Loop})]
    BY <1>1, LocalizerParts DEF AllTyped, TypeInv, LocalizersTyped, BesideTyped
<1>3. CASE LocalizeStart(l) \/ LocalizeTell(l) \/ LocalizeComplete(l) \/ FlushCopy(l)
          \/ FlushClear(l)
    <2>1. UNCHANGED <<apps, task, upload, merging, fresh>>
        BY <1>3 DEF LocalizeStart, LocalizeTell, LocalizeComplete, FlushCopy, FlushClear
    <2>2. \A m \in Localizers :
              localizer'[m] = localizer[m] \/ localizer'[m] = None
                  \/ localizer'[m].phase # "store"
        BY <1>2, <1>3 DEF LocalizeStart, LocalizeTell, LocalizeComplete, FlushCopy,
                          FlushClear, Move, Localizing
    <2> QED
        BY <2>1, <2>2, MeansKept
<1>4. CASE LocalizeCopy(l)
    <2>1. PICK fetched \in SUBSET {o \in Owners : Lookup(b)[o] # None /\ Image[b][o] # None} :
              localizer' = [localizer EXCEPT ![l] =
                  [app |-> b, phase |-> "store",
                   pending |-> Patched(Lookup(b), Image[b], fetched)]]
        BY <1>4 DEF LocalizeCopy, Patched
    <2> DEFINE table == Patched(Lookup(b), Image[b], fetched)
    <2>2. /\ localizer'[l] = [app |-> b, phase |-> "store", pending |-> table]
          /\ \A m \in Localizers \ {l} : localizer'[m] = localizer[m]
        BY <1>2, <2>1
    <2>3. \A o \in Owners, k \in Keys :
              Shown(table, o, k) # Memory(b, o, k) => Image[b][o] # None
        BY PatchedShown DEF Memory
    <2> HIDE DEF table
    <2>4. Copies(l, b) /\ UNCHANGED <<apps, task, upload, merging>>
        BY <1>4 DEF LocalizeCopy
    <2>5. \A h : h # l /\ h \in fresh'[a] => h \in fresh[a]
        BY <1>2, <2>4
    <2>6. \A e \in Apps, o \in Owners, k \in Keys : Memory(e, o, k)' = Memory(e, o, k)
        BY <2>4 DEF Memory, Lookup
    <2>7. LocalizerMeans(l, a)'
        BY <1>2, <2>2, <2>3, <2>6 DEF LocalizerMeans
    <2>8. l \notin Clients /\ l # Uploader /\ l # Loop
        OBVIOUS
    <2>9. \A c \in Clients : task'[c] = task[c] /\ (c \in fresh'[a] => c \in fresh[a])
        BY <2>4, <2>5, <2>8
    <2>10. \A m \in Localizers :
              \/ localizer'[m] = localizer[m] /\ (m \in fresh'[a] => m \in fresh[a])
              \/ LocalizerMeans(m, a)'
        BY <2>2, <2>5, <2>7
    <2>11. /\ upload'[a] = upload[a] /\ (Uploader \in fresh'[a] => Uploader \in fresh[a])
           /\ merging' = merging /\ (Loop \in fresh'[a] => Loop \in fresh[a])
        BY <2>4, <2>5, <2>8
    <2>12. apps'[a] = apps[a]
        BY <2>4
    <2> QED
        BY <2>9, <2>10, <2>11, <2>12, MeansKept
<1>5. CASE LocalizeStore(l)
    <2>1. \A m \in Localizers : localizer'[m] = localizer[m] \/ localizer'[m].phase # "store"
        BY <1>2, <1>5 DEF LocalizeStore
    <2>2. Replaces(b, localizer[l].pending) /\ UNCHANGED <<task, upload, merging>>
        BY <1>5 DEF LocalizeStore
    <2> QED
        BY <1>2, <2>1, <2>2, ReplacesMeans
<1> QED
    BY <1>3, <1>4, <1>5 DEF Localize

LEMMA BesideMeans ==
    ASSUME AllTyped, MeansInv, NEW b \in Apps, Beside(b), NEW a \in Apps
    PROVE  MeansAt(a)'
<1>1. /\ apps \in [Apps -> Table \cup {None}] /\ upload \in [Apps -> Table \cup {None}]
      /\ fresh \in [Apps -> SUBSET (Clients \cup Localizers \cup {Uploader, Loop})]
    BY DEF AllTyped, TypeInv, StoreTyped, BesideTyped
<1>2. CASE UploadCopy(b)
    <2>1. /\ UNCHANGED <<apps, task, localizer, merging>>
          /\ upload' = [upload EXCEPT ![b] = apps[b]] /\ Copies(Uploader, b) /\ apps[b] # None
        BY <1>2 DEF UploadCopy
    <2>2. \A h : h # Uploader /\ h \in fresh'[a] => h \in fresh[a]
        BY <1>1, <2>1
    <2>3. (upload'[a] = upload[a] /\ fresh'[a] = fresh[a]) \/ UploadMeans(a)'
        BY <1>1, <2>1 DEF UploadMeans, Memory, Lookup
    <2>4. /\ Uploader \notin Clients \cup Localizers /\ Uploader # Loop
        OBVIOUS
    <2> HIDE DEF Copies
    <2> QED
        BY <2>1, <2>2, <2>3, <2>4, MeansKept
<1>3. CASE UploadPut(b)
    <2>1. /\ UNCHANGED <<task, localizer, upload, merging>> /\ upload[b] # None
          /\ apps' = [apps EXCEPT ![b] = upload[b]]
          /\ fresh' = [fresh EXCEPT ![b] = {Uploader}]
        BY <1>3 DEF UploadPut
    <2>2. CASE a = b
        <3>1. fresh'[a] = {Uploader}
            BY <1>1, <2>1, <2>2
        <3>2. UploadMeans(a)'
            BY <1>1, <2>1, <2>2 DEF UploadMeans, Memory, Lookup
        <3> QED
            BY <3>1, <3>2 DEF MeansAt, CommandMeans, LocalizerMeans, LoopMeans
    <2>3. CASE a # b
        BY <1>1, <2>1, <2>3, MeansKept
    <2> QED
        BY <2>2, <2>3
<1>4. CASE UploadEnd(b)
    <2>1. /\ UNCHANGED <<apps, task, localizer, merging>>
          /\ upload'[a] = upload[a] \/ upload'[a] = None
          /\ fresh'[a] \subseteq fresh[a]
        BY <1>1, <1>4 DEF UploadEnd
    <2> QED
        BY <2>1, MeansKept
<1>5. ASSUME NEW m \in Heard, MergeCopy(b, m) PROVE MeansAt(a)'
    <2> DEFINE merged == Merge(Lookup(b), m, 0)
    <2>1. /\ UNCHANGED <<task, localizer, upload>> /\ Copies(Loop, b)
          /\ apps' = [apps EXCEPT ![b] = Lookup(b)]
          /\ merging' = IF merged = None THEN None
                        ELSE [app |-> b, msg |-> m, pending |-> merged]
        BY <1>5 DEF MergeCopy
    <2>2. Lookup(b) \in Table /\ m \in Change
        BY LookupType DEF AllTyped, TypeInv
    <2>3. /\ Lookup(a)' = Lookup(a)
          /\ \A o \in Owners, k \in Keys : Memory(a, o, k)' = Memory(a, o, k)
        BY <1>1, <2>1, <2>2 DEF Lookup, Memory
    <2>4. merged # None => \A o \in Owners, k \in Keys :
              Shown(merged, o, k) # Memory(b, o, k) => MergeMeans(m, Lookup(b), o, k)
        BY <2>2, MergeShown DEF MergeMeans, Memory
    <2> HIDE DEF merged
    <2>5. LoopMeans(a)'
        BY <2>1, <2>3, <2>4 DEF LoopMeans
    <2>6. \A h : h # Loop /\ h \in fresh'[a] => h \in fresh[a]
        BY <1>1, <2>1
    <2>7. Loop \notin Clients \cup Localizers /\ Uploader # Loop
        OBVIOUS
    <2> HIDE DEF Copies
    <2> QED
        BY <2>1, <2>3, <2>5, <2>6, <2>7, MeansKept
<1> QED
    BY <1>2, <1>3, <1>4, <1>5 DEF Beside

LEMMA MeansNext == ASSUME AllTyped, MeansInv, [Next]_vars PROVE MeansInv'
<1> SUFFICES ASSUME NEW a \in Apps PROVE MeansAt(a)'
    BY DEF MeansInv
<1>1. CASE UNCHANGED vars \/ LoopStops
    <2>1. UNCHANGED <<apps, task, localizer, upload, merging, fresh>>
        BY <1>1 DEF vars, LoopStops
    <2> QED
        BY <2>1, MeansKept
<1>2. CASE MergeStore
    <2>1. /\ Replaces(merging.app, merging.pending) /\ UNCHANGED <<task, localizer, upload>>
          /\ merging' = None /\ merging.app \in Apps
        BY <1>2, MergingParts DEF MergeStore, AllTyped
    <2> HIDE DEF Replaces
    <2> QED
        BY <2>1, ReplacesMeans
<1> QED
    BY <1>1, <1>2, InitStepMeans, StartMeans, ContinueMeans, LocalizeMeans, BesideMeans
    DEF Next

\* The table that is put back is the one the invariant speaks of.
LEMMA StepMeant ==
    ASSUME AllTyped, MeansInv, Next, NEW a \in Apps, NEW o \in Owners, NEW k \in Keys,
           Memory(a, o, k)' # Memory(a, o, k)
    PROVE  ChangeMeant(a, o, k)
<1>1. apps'[a] # apps[a] /\ Lookup(a)' # Lookup(a)
    BY DEF Memory, Lookup
<1>2. apps \in [Apps -> Table \cup {None}]
    BY DEF AllTyped, TypeInv, StoreTyped
<1>3. ASSUME NEW t \in Table, apps' = [apps EXCEPT ![a] = t]
      PROVE  Memory(a, o, k)' = Shown(t, o, k)
    BY <1>2, <1>3 DEF Memory, Lookup
<1>4. ASSUME NEW c \in Clients, InitStep(c) PROVE ChangeMeant(a, o, k)
    BY <1>1, <1>2, <1>4 DEF InitStep, InitNew, InitImage, ForgetApplication, ChangeMeant
<1>5. ASSUME NEW c \in Clients, Start(c) PROVE FALSE
    BY <1>1, <1>5 DEF Start, SetBegin, DelBegin, GetBegin, TruncateBegin, AccessBegin
<1>6. ASSUME NEW c \in Clients, Continue(c) PROVE ChangeMeant(a, o, k)
    <2>1. Store(c)
        BY <1>1, <1>6 DEF Continue, InitComplete, SetCopyCache, SetCopy, DelCopyCache, DelCopy,
                          StoreCache, GetCache, GetMemory, GetReturn
    <2>2. apps' = [apps EXCEPT ![task[c].app] = task[c].pending] /\ task[c] # None
        BY <2>1 DEF Store
    <2>3. task[c].app = a
        BY <1>1, <1>2, <2>2
    <2>4. task[c].pending \in Table /\ task[c].phase = "store"
        BY <2>1, <2>2, TaskParts DEF Store, WellFormed, AllTyped
    <2>5. Memory(a, o, k)' = Shown(task[c].pending, o, k)
        BY <1>3, <2>2, <2>3, <2>4
    <2>6. CommandMeans(c, a)
        BY DEF MeansInv, MeansAt
    <2>7. c \in fresh[a] => MeantBy(task[c], o, k)
        BY <2>2, <2>3, <2>4, <2>5, <2>6 DEF CommandMeans
    <2> QED
        BY <2>1, <2>3, <2>7 DEF ChangeMeant
<1>7. ASSUME NEW l \in Localizers, Localize(l) PROVE ChangeMeant(a, o, k)
    <2>1. LocalizeStore(l)
        BY <1>1, <1>7 DEF Localize, LocalizeStart, LocalizeCopy, LocalizeTell,
                          LocalizeComplete, FlushCopy, FlushClear
    <2>2. /\ apps' = [apps EXCEPT ![localizer[l].app] = localizer[l].pending]
          /\ LocalizerAt(l, "store") /\ localizer[l] # None
        BY <2>1 DEF LocalizeStore, LocalizerAt
    <2>3. localizer[l].app = a
        BY <1>1, <1>2, <2>2
    <2>4. localizer[l].pending \in Table
        BY <2>2, LocalizerParts DEF LocalizerAt, WellLocalizing, AllTyped
    <2>5. Memory(a, o, k)' = Shown(localizer[l].pending, o, k)
        BY <1>3, <2>2, <2>3, <2>4
    <2>6. LocalizerMeans(l, a)
        BY DEF MeansInv, MeansAt
    <2>7. l \in fresh[a] => Image[a][o] # None
        BY <2>2, <2>3, <2>5, <2>6 DEF LocalizerMeans
    <2> QED
        BY <2>1, <2>3, <2>7 DEF ChangeMeant
<1>8. ASSUME NEW b \in Apps, Beside(b) PROVE ChangeMeant(a, o, k)
    <2>1. UploadPut(b)
        <3>1. ASSUME NEW m \in Heard, MergeCopy(b, m) PROVE FALSE
            <4>1. apps' = [apps EXCEPT ![b] = Lookup(b)] /\ Lookup(b) # None
                BY <3>1, LookupType DEF MergeCopy, AllTyped, TypeInv
            <4> QED
                BY <1>1, <1>2, <4>1 DEF Lookup
        <3> QED
            BY <1>1, <1>8, <3>1 DEF Beside, UploadCopy, UploadEnd
    <2>2. apps' = [apps EXCEPT ![b] = upload[b]] /\ upload[b] # None
        BY <2>1 DEF UploadPut
    <2>3. b = a /\ upload[a] \in Table
        BY <1>1, <1>2, <2>2 DEF AllTyped, BesideTyped
    <2>4. Memory(a, o, k)' = Shown(upload[a], o, k)
        BY <1>3, <2>2, <2>3
    <2>5. UploadMeans(a)
        BY DEF MeansInv, MeansAt
    <2>6. Uploader \notin fresh[a]
        BY <2>2, <2>3, <2>4, <2>5 DEF UploadMeans
    <2> QED
        BY <2>1, <2>3, <2>6 DEF ChangeMeant
<1>9. ASSUME MergeStore PROVE ChangeMeant(a, o, k)
    <2>1. apps' = [apps EXCEPT ![merging.app] = merging.pending] /\ merging # None
        BY <1>9 DEF MergeStore
    <2>2. merging.app = a /\ merging.pending \in Table
        BY <1>1, <1>2, <2>1, MergingParts DEF AllTyped
    <2>3. Memory(a, o, k)' = Shown(merging.pending, o, k)
        BY <1>3, <2>1, <2>2
    <2>4. LoopMeans(a)
        BY DEF MeansInv, MeansAt
    <2>5. Loop \in fresh[a] => MergeMeans(merging.msg, Lookup(a), o, k)
        BY <2>1, <2>2, <2>3, <2>4 DEF LoopMeans
    <2> QED
        BY <1>9, <2>2, <2>5 DEF ChangeMeant, MergeMeans
<1>10. ASSUME LoopStops PROVE FALSE
    BY <1>1, <1>10 DEF LoopStops
<1> QED
    BY <1>4, <1>5, <1>6, <1>7, <1>8, <1>9, <1>10 DEF Next

(* The data of a key in memory only changes when a command, a localizer, a    *)
(* peer or an initialization means it, or when a task puts back a copy that   *)
(* was not the latest: neither set_db_value, del_db_value, truncate_db,       *)
(* modify_db_access, the put-backs of update_data_image, nor                  *)
(* handle_gossiped_data touches another owner or key by itself, but for a     *)
(* gossiped write of an owner the table does not know.                        *)
THEOREM ChangesAsMeant == Spec => DataChangesAsMeant
<1>1. AllTyped /\ MeansInv /\ [Next]_vars =>
          [\A a \in Apps, o \in Owners, k \in Keys :
              Memory(a, o, k)' # Memory(a, o, k) => ChangeMeant(a, o, k)]_vars
    <2> SUFFICES ASSUME AllTyped, MeansInv, Next,
                        NEW a \in Apps, NEW o \in Owners, NEW k \in Keys,
                        Memory(a, o, k)' # Memory(a, o, k)
                 PROVE  ChangeMeant(a, o, k)
        OBVIOUS
    <2> QED
        BY StepMeant
<1>2. Init => MeansInv
    BY MeansInit
<1>3. AllTyped /\ MeansInv /\ [Next]_vars => MeansInv'
    BY MeansNext
<1> QED
    BY <1>1, <1>2, <1>3, TypeAlways, PTL DEF Spec, DataChangesAsMeant
=============================================================================
