-------------------------- MODULE ReplicationProofs --------------------------
(* Proofs about Replication, for any nodes, clients, owners, keys and values, *)
(* any topology and any bound on the difference of the clocks.                *)
EXTENDS Replication, AppStoreTheorems

USE AppAssumption, PeersAssumption, BoundsAssumption

-----------------------------------------------------------------------------
(* What merging a gossiped change does to a table                             *)

\* The message denies the access to the data of owner o.
Denies(m, o) == m.type = "Access" /\ m.owner = o /\ m.perm = FALSE

LEMMA EmptyTableType == EmptyTable \in Table
BY DEF EmptyTable, Table, Tables

LEMMA FreshTableFacts ==
    /\ FreshTable \in Table
    /\ \A o \in Owners, k \in Keys : ~Has(FreshTable, o, k)
    /\ \A o \in Owners : FreshTable[o] # None => FreshTable[o].access
<1>1. NewEntry(EmptyData) \in Entries(Payloads)
    BY DEF NewEntry, EmptyData, Entries
<1>2. /\ NewEntry(EmptyData).data = EmptyData
      /\ NewEntry(EmptyData).access = TRUE
    BY DEF NewEntry
<1> QED
    BY <1>1, <1>2 DEF FreshTable, EmptyTable, Table, Tables, Has, EmptyData

(* A table the handler saves is a table.  Each unit in it was there before or *)
(* is the value of the message stamped now; in that case the message is newer *)
(* than the stamp of the unit it replaces.                                    *)
LEMMA MergeFacts ==
    ASSUME NEW table \in Table, NEW m \in Msg, NEW now \in Nat,
           Merge(table, m, now) # None
    PROVE  /\ Merge(table, m, now) \in Table
           /\ \A o \in Owners, k \in Keys : Has(Merge(table, m, now), o, k) =>
                 \/ Kept(table, Merge(table, m, now), o, k)
                 \/ /\ m.type = "Write" /\ o = m.owner /\ k = m.key
                    /\ Merge(table, m, now)[o].data[k] = [data |-> m.data, write_time |-> now]
                    /\ Has(table, o, k) => m.write_time > table[o].data[k].write_time
           /\ \A o \in Owners :
                 Denied(Merge(table, m, now), o) =>
                    \/ Denied(table, o)
                    \/ Denies(m, o) /\ m.write_time > 0
<1> DEFINE new == Merge(table, m, now)
<1>n. None \notin Units(Payloads) /\ None \notin Entries(Payloads)
    BY NoneAssumption
<1>t. table \in Tables(Payloads)
    BY DEF Table
<1>1. CASE m \in WriteMsg
    <2>1. /\ m.type = "Write" /\ m.owner \in Owners /\ m.key \in Keys
          /\ m.data \in Payloads /\ m.write_time \in Nat
        BY <1>1 DEF WriteMsg
    <2>2. new = MergeWrite(table, m, now)
        BY <2>1 DEF Merge
    <2>3. CASE table[m.owner] = None
        <3> DEFINE data == DataMapInsert(EmptyData, m.key, m.data, now)
        <3>1. new = [EmptyTable EXCEPT ![m.owner] = NewEntry(data)]
            BY <2>2, <2>3 DEF MergeWrite
        <3>2. new = Put(EmptyTable, m.owner, m.key, m.data, now)
            BY <3>1, <2>1 DEF Put, EmptyTable
        <3>3. EmptyTable \in Tables(Payloads)
            BY EmptyTableType DEF Table
        <3>4. new \in Table
            BY <1>n, <2>1, <3>2, <3>3, PutType DEF Table
        <3>5. ASSUME NEW o \in Owners, NEW k \in Keys, Has(new, o, k)
              PROVE  /\ o = m.owner /\ k = m.key
                     /\ new[o].data[k] = [data |-> m.data, write_time |-> now]
            <4>1. ~Kept(EmptyTable, new, o, k)
                BY DEF Kept, Has, EmptyTable
            <4> QED
                BY <1>n, <2>1, <3>2, <3>3, <3>5, <4>1, PutUnits
        <3>6. \A o \in Owners : ~Denied(new, o)
            <4>1. \A o \in Owners : ~Denied(EmptyTable, o)
                BY DEF Denied, EmptyTable
            <4>2. \A o \in Owners :
                      Denied(Put(EmptyTable, m.owner, m.key, m.data, now), o) =>
                          Denied(EmptyTable, o)
                BY <1>n, <2>1, <3>3, PutAccess
            <4> QED
                BY <3>2, <4>1, <4>2
        <3> QED
            BY <2>1, <2>3, <3>4, <3>5, <3>6 DEF Has
    <2>4. CASE table[m.owner] # None
        <3>1. /\ new = Put(table, m.owner, m.key, m.data, now)
              /\ m.write_time > StampOf(table, m.owner, m.key)
            BY <2>2, <2>4 DEF MergeWrite
        <3>2. new \in Table
            BY <1>n, <1>t, <2>1, <3>1, PutType DEF Table
        <3>3. Has(table, m.owner, m.key) =>
                  m.write_time > table[m.owner].data[m.key].write_time
            BY <3>1 DEF StampOf
        <3>4. ASSUME NEW o \in Owners, NEW k \in Keys, Has(new, o, k)
              PROVE  \/ Kept(table, new, o, k)
                     \/ /\ o = m.owner /\ k = m.key
                        /\ new[o].data[k] = [data |-> m.data, write_time |-> now]
            BY <1>n, <1>t, <2>1, <3>1, <3>4, PutUnits
        <3>5. \A o \in Owners : Denied(new, o) => Denied(table, o)
            BY <1>n, <1>t, <2>1, <3>1, PutAccess
        <3> QED
            BY <2>1, <3>2, <3>3, <3>4, <3>5
    <2> QED
        BY <2>3, <2>4
<1>2. CASE m \in DeleteMsg
    <2>1. m.type = "Delete" /\ m.owner \in Owners /\ m.key \in Keys
        BY <1>2 DEF DeleteMsg
    <2>2. /\ Has(table, m.owner, m.key)
          /\ new = WithoutKey(table, m.owner, m.key)
        BY <2>1 DEF Merge, MergeDelete
    <2>3. table[m.owner] # None
        BY <2>2 DEF Has
    <2>4. /\ new \in Tables(Payloads)
          /\ \A o \in Owners, k \in Keys : Has(new, o, k) => Kept(table, new, o, k)
          /\ \A o \in Owners : new[o] # None =>
                table[o] # None /\ new[o].access = table[o].access
        BY <1>t, <2>1, <2>2, <2>3, WithoutKeyFacts
    <2> QED
        BY <2>4 DEF Denied, Table
<1>3. CASE m \in TruncateMsg
    <2>1. m.type = "Truncate" /\ m.owner \in Owners /\ m.write_time \in Nat
        BY <1>3 DEF TruncateMsg
    <2> DEFINE data == Retained(table[m.owner].data, m.write_time)
    <2>2. /\ table[m.owner] # None
          /\ new = SetData(table, m.owner, data)
        BY <2>1 DEF Merge, MergeTruncate
    <2>3. table[m.owner].data \in [Keys -> Units(Payloads) \cup {None}]
        BY <1>t, <2>1, <2>2 DEF Tables, Entries
    <2>4. /\ data \in [Keys -> Units(Payloads) \cup {None}]
          /\ \A j \in Keys : data[j] # None => data[j] = table[m.owner].data[j]
        BY <2>3 DEF Retained
    <2>5. /\ new \in Tables(Payloads)
          /\ \A o \in Owners, k \in Keys : Has(new, o, k) => Kept(table, new, o, k)
          /\ \A o \in Owners : new[o] # None =>
                table[o] # None /\ new[o].access = table[o].access
        BY <1>t, <2>1, <2>2, <2>4, SetDataPart
    <2> QED
        BY <2>5 DEF Denied, Table
<1>4. CASE m \in AccessMsg
    <2>1. m.type = "Access" /\ m.owner \in Owners /\ m.perm \in BOOLEAN
        BY <1>4 DEF AccessMsg
    <2>2. /\ table[m.owner] # None
          /\ new = WithAccess(table, m.owner, m.perm, now)
          /\ m.write_time > table[m.owner].access_modification_time
        BY <2>1 DEF Merge, MergeAccess
    <2>4. m.write_time > 0
        <3>1. table[m.owner].access_modification_time \in Nat /\ m.write_time \in Nat
            BY <1>4, <1>t, <2>1, <2>2 DEF Tables, Entries, AccessMsg
        <3> QED
            BY <2>2, <3>1
    <2>3. /\ new \in Tables(Payloads)
          /\ \A o \in Owners, k \in Keys : Has(new, o, k) => Kept(table, new, o, k)
          /\ new[m.owner].access = m.perm
          /\ \A o \in Owners \ {m.owner} : new[o] = table[o]
        BY <1>t, <2>1, <2>2, WithAccessFacts
    <2> QED
        BY <2>1, <2>3, <2>4 DEF Denied, Denies, Table
<1> QED
    BY <1>1, <1>2, <1>3, <1>4 DEF Msg

(* The same, one conclusion at a time.                                        *)
LEMMA MergeType ==
    ASSUME NEW table \in Table, NEW m \in Msg, NEW now \in Nat,
           Merge(table, m, now) # None
    PROVE  Merge(table, m, now) \in Table
BY MergeFacts

LEMMA MergeUnits ==
    ASSUME NEW table \in Table, NEW m \in Msg, NEW now \in Nat,
           Merge(table, m, now) # None,
           NEW o \in Owners, NEW k \in Keys, Has(Merge(table, m, now), o, k)
    PROVE  \/ Kept(table, Merge(table, m, now), o, k)
           \/ /\ m.type = "Write" /\ o = m.owner /\ k = m.key
              /\ Merge(table, m, now)[o].data[k] = [data |-> m.data, write_time |-> now]
              /\ Has(table, o, k) => m.write_time > table[o].data[k].write_time
BY MergeFacts

LEMMA MergeDenials ==
    ASSUME NEW table \in Table, NEW m \in Msg, NEW now \in Nat,
           Merge(table, m, now) # None,
           NEW o \in Owners, Denied(Merge(table, m, now), o)
    PROVE  \/ Denied(table, o)
           \/ Denies(m, o) /\ m.write_time > 0
BY MergeFacts
-----------------------------------------------------------------------------
(* Type correctness                                                           *)

(* What the phase of a client task says about its message and its table.      *)
TaskShape ==
    \A n \in Nodes, c \in Clients : task[n][c] # None =>
        /\ task[n][c].phase # "subscribe" => task[n][c].msg \in Msg
        /\ task[n][c].phase = "read" => task[n][c].msg \in WriteMsg
        /\ task[n][c].phase = "commit" => task[n][c].pending # None

TypeInv == TypeOK /\ TaskShape

LEMMA LookupType ==
    ASSUME TypeOK, NEW n \in Nodes
    PROVE  Lookup(n) \in Table
BY EmptyTableType DEF TypeOK, Lookup

(* Marking the other tasks as holding an old copy changes nothing else.       *)
LEMMA OutdatedFacts ==
    ASSUME TypeOK, NEW n \in Nodes
    PROVE  /\ OutdatedTasks(n) \in [Clients -> Task \cup {None}]
           /\ \A c \in Clients :
                 /\ OutdatedTasks(n)[c] = None <=> task[n][c] = None
                 /\ task[n][c] # None =>
                       /\ OutdatedTasks(n)[c].msg = task[n][c].msg
                       /\ OutdatedTasks(n)[c].pending = task[n][c].pending
                       /\ OutdatedTasks(n)[c].phase = task[n][c].phase
                       /\ OutdatedTasks(n)[c].stale = TRUE
           /\ OutdatedLoop(n) \in Merging \cup {None}
           /\ OutdatedLoop(n) = None <=> loop[n] = None
           /\ loop[n] # None =>
                 /\ OutdatedLoop(n).msg = loop[n].msg
                 /\ OutdatedLoop(n).pending = loop[n].pending
                 /\ OutdatedLoop(n).stale = TRUE
<1>1. ASSUME NEW c \in Clients, task[n][c] # None
      PROVE  LET t == [task[n][c] EXCEPT !.stale = TRUE]
             IN  /\ t \in Task /\ t # None
                 /\ t.msg = task[n][c].msg /\ t.pending = task[n][c].pending
                 /\ t.phase = task[n][c].phase /\ t.stale = TRUE
    <2>1. task[n][c] \in Task
        BY <1>1 DEF TypeOK
    <2>2. [task[n][c] EXCEPT !.stale = TRUE] \in Task
        BY <2>1 DEF Task
    <2> QED
        BY <2>1, <2>2, NoneAssumption DEF Task
<1>2. ASSUME loop[n] # None
      PROVE  LET h == [loop[n] EXCEPT !.stale = TRUE]
             IN  /\ h \in Merging /\ h # None
                 /\ h.msg = loop[n].msg /\ h.pending = loop[n].pending /\ h.stale = TRUE
    <2>1. loop[n] \in Merging
        BY <1>2 DEF TypeOK
    <2>2. [loop[n] EXCEPT !.stale = TRUE] \in Merging
        BY <2>1 DEF Merging
    <2> QED
        BY <2>1, <2>2, NoneAssumption DEF Merging
<1>3. \A c \in Clients : OutdatedTasks(n)[c] =
          IF task[n][c] = None THEN None ELSE [task[n][c] EXCEPT !.stale = TRUE]
    BY DEF OutdatedTasks
<1>4. OutdatedTasks(n) = [c \in Clients |-> OutdatedTasks(n)[c]]
    BY DEF OutdatedTasks
<1>5. OutdatedLoop(n) = IF loop[n] = None THEN None ELSE [loop[n] EXCEPT !.stale = TRUE]
    BY DEF OutdatedLoop
<1>6. OutdatedLoop(n) \in Merging \cup {None}
    BY <1>2, <1>5
<1>7. OutdatedTasks(n) \in [Clients -> Task \cup {None}]
    <2>1. \A c \in Clients : OutdatedTasks(n)[c] \in Task \cup {None}
        BY <1>1, <1>3
    <2> QED
        BY <1>4, <2>1
<1> QED
    BY <1>1, <1>2, <1>3, <1>5, <1>6, <1>7
LEMMA TypeInit == Init => TypeInv
<1> SUFFICES ASSUME Init PROVE TypeInv
    OBVIOUS
<1>1. TypeOK
    BY DEF Init, TypeOK
<1>2. TaskShape
    BY DEF Init, TaskShape
<1> QED
    BY <1>1, <1>2 DEF TypeInv

(* A client command that begins with a well-shaped task keeps the types.      *)
LEMMA TypeBegin ==
    ASSUME TypeInv, NEW n \in Nodes, NEW c \in Clients, NEW t \in Task,
           Begin(n, c, t),
           UNCHANGED <<clock, apps, subscribed, loop, net, igive, seen>>,
           \/ UNCHANGED requests
           \/ \E r \in [type : {"Write"}, owner : Owners, key : Keys, data : Payloads]
                        \cup [type : {"Access"}, owner : Owners, perm : BOOLEAN] :
                 requests' = requests \cup {r},
           t.msg \in Msg,
           t.phase = "read" => t.msg \in WriteMsg,
           t.phase = "commit" => t.pending # None
    PROVE  TypeInv'
<1> USE DEF TypeInv, Begin
<1>1. TypeOK'
    <2>1. task' \in [Nodes -> [Clients -> Task \cup {None}]]
        BY DEF TypeOK
    <2> QED
        BY <2>1 DEF TypeOK
<1>2. TaskShape'
    <2>1. \A m \in Nodes, d \in Clients :
              task'[m][d] = IF m = n /\ d = c THEN t ELSE task[m][d]
        BY DEF TypeOK
    <2> QED
        BY <2>1 DEF TaskShape
<1> QED
    BY <1>1, <1>2

(* What the receivers may read of a message, and at what times.               *)
LEMMA ReadingCases ==
    ASSUME NEW m \in Msg, NEW r \in Readings(m)
    PROVE  \/ Shift(m) = 0 /\ r = m
           \/ Shift(m) # 0 /\ r \in AccessReadings(m)
           \/ /\ Shift(m) # 0 /\ ~(LastText(m) < WriteTypeField)
              /\ r \in WriteReadings(m) \cup DeleteReadings(m) \cup TruncateReadings(m)
BY DEF Readings

(* Whatever the receivers read is a message of the same sender; a write in it *)
(* has the time of the message for its origin.                                *)
LEMMA ReadingsType ==
    ASSUME NEW m \in Msg, NEW r \in Readings(m)
    PROVE  /\ r \in Msg
           /\ r.from = m.from
           /\ Shift(m) # 0 => r.write_time \in ReadTimes(m)
           /\ (Shift(m) # 0 /\ r \in WriteMsg) => r.data.at = m.write_time
           /\ (Shift(m) # 0 /\ r \notin AccessMsg) => ~(LastText(m) < WriteTypeField)
<1>1. m.from \in Nodes /\ m.write_time \in Nat
    BY DEF Msg, WriteMsg, DeleteMsg, TruncateMsg, AccessMsg
<1>2. ReadTimes(m) \subseteq Nat
    BY TextAssumption DEF ReadTimes
<1>3. CASE r \in AccessReadings(m)
    <2>1. r \in AccessMsg /\ r.type = "Access" /\ r.from = m.from /\ r.write_time \in ReadTimes(m)
        BY <1>1, <1>2, <1>3 DEF AccessReadings, AccessMsg
    <2> QED
        BY <2>1, ReadingCases DEF Msg, WriteMsg
<1>4. CASE r \in WriteReadings(m) /\ ~(LastText(m) < WriteTypeField)
    <2>1. /\ r.from = m.from /\ r.write_time \in ReadTimes(m)
          /\ r.data \in [val : Values, at : {m.write_time}]
        BY <1>4 DEF WriteReadings
    <2>2. r.data \in Payloads /\ r.data.at = m.write_time
        BY <1>1, <2>1 DEF Payloads
    <2>3. r \in WriteMsg
        BY <1>1, <1>2, <1>4, <2>2 DEF WriteReadings, WriteMsg
    <2> QED
        BY <1>4, <2>1, <2>2, <2>3 DEF Msg
<1>5. CASE r \in DeleteReadings(m) /\ ~(LastText(m) < WriteTypeField)
    <2>1. r \in DeleteMsg /\ r.type = "Delete" /\ r.from = m.from /\ r.write_time \in ReadTimes(m)
        BY <1>1, <1>2, <1>5 DEF DeleteReadings, DeleteMsg
    <2> QED
        BY <1>5, <2>1 DEF Msg, WriteMsg
<1>6. CASE r \in TruncateReadings(m) /\ ~(LastText(m) < WriteTypeField)
    <2>1. r \in TruncateMsg /\ r.type = "Truncate" /\ r.from = m.from /\ r.write_time \in ReadTimes(m)
        BY <1>1, <1>2, <1>6 DEF TruncateReadings, TruncateMsg
    <2> QED
        BY <1>6, <2>1 DEF Msg, WriteMsg
<1> QED
    BY <1>3, <1>4, <1>5, <1>6, ReadingCases

LEMMA TypeClient ==
    ASSUME TypeInv, NEW n \in Nodes, NEW c \in Clients, ClientStep(n, c)
    PROVE  TypeInv'
<1>o. TypeOK
    BY DEF TypeInv
<1>a. OutdatedTasks(n) \in [Clients -> Task \cup {None}]
    BY <1>o, OutdatedFacts
<1>b. \A d \in Clients :
          /\ OutdatedTasks(n)[d] = None <=> task[n][d] = None
          /\ task[n][d] # None =>
                /\ OutdatedTasks(n)[d].msg = task[n][d].msg
                /\ OutdatedTasks(n)[d].pending = task[n][d].pending
                /\ OutdatedTasks(n)[d].phase = task[n][d].phase
    BY <1>o, OutdatedFacts
<1>d. OutdatedLoop(n) \in Merging \cup {None}
    BY <1>o, OutdatedFacts
<1>l. Lookup(n) \in Table
    BY LookupType DEF TypeInv
<1>k. clock[n] \in Nat
    BY DEF TypeInv, TypeOK
<1>n. None \notin Table /\ None \notin Msg /\ None \notin Task
    BY NoneAssumption
<1>1. CASE InitApplication(n, c)
    <2> DEFINE t == [msg |-> None, pending |-> None, phase |-> "subscribe", stale |-> FALSE]
    <2>1. t \in Task
        BY DEF Task, Phases
    <2>2. task' = [task EXCEPT ![n] = [OutdatedTasks(n) EXCEPT ![c] = t]]
        BY <1>1 DEF InitApplication
    <2> HIDE DEF t
    <2>5. task' \in [Nodes -> [Clients -> Task \cup {None}]]
        BY <1>o, <1>a, <2>1, <2>2 DEF TypeOK
    <2>6. apps' \in [Nodes -> Table \cup {None}] /\ loop' \in [Nodes -> Merging \cup {None}]
        BY <1>1, <1>o, <1>d, FreshTableFacts DEF TypeOK, InitApplication
    <2>3. TypeOK'
        BY <1>1, <1>o, <2>5, <2>6 DEF TypeOK, InitApplication
    <2>4. TaskShape'
        <3>1. \A m \in Nodes, d \in Clients :
                  task'[m][d] = IF m = n THEN IF d = c THEN t ELSE OutdatedTasks(n)[d]
                                         ELSE task[m][d]
            BY <1>o, <1>a, <2>2 DEF TypeOK
        <3>2. t.phase = "subscribe"
            BY DEF t
        <3> QED
            BY <1>b, <3>1, <3>2 DEF TypeInv, TaskShape
    <2> QED
        BY <2>3, <2>4 DEF TypeInv
<1>2. CASE Subscribe(n, c)
    BY <1>2 DEF TypeInv, TypeOK, TaskShape, Subscribe
<1>3. CASE \E o \in Owners, k \in Keys, v \in Values : SetRequest(n, c, o, k, v)
    <2> PICK o \in Owners, k \in Keys, v \in Values : SetRequest(n, c, o, k, v)
        BY <1>3
    <2> DEFINE payload == [val |-> v, at |-> clock[n]]
               m == [type |-> "Write", from |-> n, owner |-> o, key |-> k,
                     data |-> payload, write_time |-> clock[n]]
               t == [msg |-> m, pending |-> None, phase |-> "read", stale |-> FALSE]
               r == [type |-> "Write", owner |-> o, key |-> k, data |-> payload]
    <2>1. payload \in Payloads
        BY <1>k DEF Payloads
    <2>2. m \in WriteMsg /\ r \in [type : {"Write"}, owner : Owners, key : Keys, data : Payloads]
        BY <1>k, <2>1 DEF WriteMsg
    <2>3. t \in Task
        BY <2>2 DEF Task, Msg, Phases
    <2>4. Begin(n, c, t) /\ requests' = requests \cup {r}
        BY DEF SetRequest
    <2> QED
        BY <2>2, <2>3, <2>4, TypeBegin DEF SetRequest, Msg
<1>4. CASE SetRead(n, c)
    <2> DEFINE t == task[n][c]
               table == Put(Lookup(n), t.msg.owner, t.msg.key, t.msg.data, clock[n])
               u == [t EXCEPT !.pending = table, !.phase = "commit"]
    <2>1. t \in Task /\ t.msg \in WriteMsg
        BY <1>4 DEF TypeInv, TypeOK, TaskShape, SetRead
    <2>2. t.msg.owner \in Owners /\ t.msg.key \in Keys /\ t.msg.data \in Payloads
        BY <2>1 DEF WriteMsg
    <2>3. table \in Table
        BY <1>l, <1>k, <2>2, PutType, NoneAssumption DEF Table
    <2>4. u \in Task /\ u.msg = t.msg /\ u.phase = "commit" /\ u.pending = table
        BY <2>1, <2>3 DEF Task, Phases
    <2>5. task' = [task EXCEPT ![n][c] = u]
        BY <1>4 DEF SetRead
    <2> HIDE DEF u, table
    <2>6. TypeOK'
        BY <1>4, <2>4, <2>5 DEF TypeInv, TypeOK, SetRead
    <2>7. \A m \in Nodes, d \in Clients :
              task'[m][d] = IF m = n /\ d = c THEN u ELSE task[m][d]
        BY <2>5 DEF TypeInv, TypeOK
    <2>8. TaskShape'
        BY <1>n, <2>1, <2>3, <2>4, <2>7 DEF TypeInv, TaskShape, Msg
    <2> QED
        BY <2>6, <2>8 DEF TypeInv
<1>5. CASE \E o \in Owners, k \in Keys : DelRead(n, c, o, k)
    <2> PICK o \in Owners, k \in Keys : DelRead(n, c, o, k)
        BY <1>5
    <2> DEFINE m == [type |-> "Delete", from |-> n, owner |-> o, key |-> k, write_time |-> 0]
               table == WithoutKey(Lookup(n), o, k)
               t == [msg |-> m, pending |-> table, phase |-> "commit", stale |-> FALSE]
    <2>1. table \in Table
        BY <1>l, WithoutKeyFacts DEF DelRead, Readable, Table
    <2>2. t \in Task /\ t.msg \in Msg /\ t.pending = table /\ t.phase = "commit"
        BY <2>1 DEF Task, Phases, Msg, DeleteMsg
    <2> QED
        BY <1>n, <2>1, <2>2, TypeBegin DEF DelRead, Change
<1>6. CASE \E o \in Owners : TruncateRead(n, c, o)
    <2> PICK o \in Owners : TruncateRead(n, c, o)
        BY <1>6
    <2> DEFINE m == [type |-> "Truncate", from |-> n, owner |-> o, write_time |-> 0]
               table == WithoutData(Lookup(n), o)
               t == [msg |-> m, pending |-> table, phase |-> "commit", stale |-> FALSE]
    <2>1. table \in Table
        BY <1>l, WithoutDataFacts DEF TruncateRead, Readable, Table
    <2>2. t \in Task /\ t.msg \in Msg /\ t.pending = table /\ t.phase = "commit"
        BY <2>1 DEF Task, Phases, Msg, TruncateMsg
    <2> QED
        BY <1>n, <2>1, <2>2, TypeBegin DEF TruncateRead, Change
<1>7. CASE \E o \in Owners, perm \in BOOLEAN : AccessRead(n, c, o, perm)
    <2> PICK o \in Owners, perm \in BOOLEAN : AccessRead(n, c, o, perm)
        BY <1>7
    <2> DEFINE m == [type |-> "Access", from |-> n, owner |-> o, perm |-> perm, write_time |-> 0]
               table == WithAccess(Lookup(n), o, perm, clock[n])
               t == [msg |-> m, pending |-> table, phase |-> "commit", stale |-> FALSE]
               r == [type |-> "Access", owner |-> o, perm |-> perm]
    <2>1. table \in Table
        BY <1>l, <1>k, WithAccessFacts DEF AccessRead, Table
    <2>2. t \in Task /\ t.msg \in Msg /\ t.pending = table /\ t.phase = "commit"
        BY <2>1 DEF Task, Phases, Msg, AccessMsg
    <2>3. r \in [type : {"Access"}, owner : Owners, perm : BOOLEAN]
        OBVIOUS
    <2>4. requests' = requests \cup {r}
        BY DEF AccessRead
    <2> QED
        BY <1>n, <2>1, <2>2, <2>3, <2>4, TypeBegin DEF AccessRead, Change
<1>8. CASE Commit(n, c)
    <2> DEFINE t == task[n][c]
               u == [t EXCEPT !.pending = None, !.phase = "flag"]
    <2>1. t \in Task /\ t # None /\ t.msg \in Msg /\ t.pending \in Table \cup {None}
        BY <1>8 DEF TypeInv, TypeOK, TaskShape, Commit, Task
    <2>2. u \in Task /\ u.msg = t.msg /\ u.phase = "flag"
        BY <2>1 DEF Task, Phases
    <2>3. task' = [task EXCEPT ![n] = [OutdatedTasks(n) EXCEPT ![c] = u]]
        BY <1>8 DEF Commit
    <2> HIDE DEF u
    <2>7. task' \in [Nodes -> [Clients -> Task \cup {None}]]
        BY <1>o, <1>a, <2>2, <2>3 DEF TypeOK
    <2>8. apps' \in [Nodes -> Table \cup {None}] /\ loop' \in [Nodes -> Merging \cup {None}]
        BY <1>8, <1>o, <1>d, <2>1 DEF TypeOK, Commit
    <2>4. TypeOK'
        BY <1>8, <1>o, <2>7, <2>8 DEF TypeOK, Commit
    <2>5. \A m \in Nodes, d \in Clients :
              task'[m][d] = IF m = n THEN IF d = c THEN u ELSE OutdatedTasks(n)[d]
                                     ELSE task[m][d]
        BY <1>o, <1>a, <2>3 DEF TypeOK
    <2>6. TaskShape'
        BY <1>b, <2>1, <2>2, <2>5 DEF TypeInv, TaskShape
    <2> QED
        BY <2>4, <2>6 DEF TypeInv
<1>9. CASE Flag(n, c)
    <2> DEFINE t == task[n][c]
               stamp == IF t.msg.type = "Write" THEN t.msg.write_time ELSE clock[n]
               m == [t.msg EXCEPT !.write_time = stamp]
               u == [t EXCEPT !.msg = m, !.phase = "gossip"]
    <2>1. t \in Task /\ t # None /\ t.msg \in Msg
        BY <1>9 DEF TypeInv, TypeOK, TaskShape, Flag
    <2>2. stamp \in Nat
        BY <1>k, <2>1 DEF Msg, WriteMsg, DeleteMsg, TruncateMsg, AccessMsg
    <2>3. m \in Msg
        BY <2>1, <2>2 DEF Msg, WriteMsg, DeleteMsg, TruncateMsg, AccessMsg
    <2>4. u \in Task /\ u.msg = m /\ u.phase = "gossip"
        BY <2>1, <2>3 DEF Task, Phases
    <2>5. task' = [task EXCEPT ![n][c] = u]
        BY <1>9 DEF Flag
    <2> HIDE DEF u, m
    <2>6. TypeOK'
        BY <1>9, <2>4, <2>5 DEF TypeInv, TypeOK, Flag
    <2>7. \A p \in Nodes, d \in Clients :
              task'[p][d] = IF p = n /\ d = c THEN u ELSE task[p][d]
        BY <2>5 DEF TypeInv, TypeOK
    <2>8. TaskShape'
        BY <2>3, <2>4, <2>7 DEF TypeInv, TaskShape
    <2> QED
        BY <2>6, <2>8 DEF TypeInv
<1>10. CASE Gossip(n, c)
    <2>1. task[n][c].msg \in Msg
        BY <1>10 DEF TypeInv, TaskShape, Gossip
    <2>2. MetadataPeers[n] \subseteq Nodes
        OBVIOUS
    <2>5. PICK m \in Readings(task[n][c].msg) : Publish(n, m)
        BY <1>10 DEF Gossip
    <2>6. m \in Msg
        BY <2>1, <2>5, ReadingsType
    <2>3. TypeOK'
        BY <1>10, <2>2, <2>5, <2>6 DEF TypeInv, TypeOK, Gossip, Publish
    <2>4. TaskShape'
        BY <1>10 DEF TypeInv, TypeOK, TaskShape, Gossip
    <2> QED
        BY <2>3, <2>4 DEF TypeInv
<1> QED
    BY <1>1, <1>2, <1>3, <1>4, <1>5, <1>6, <1>7, <1>8, <1>9, <1>10 DEF ClientStep

LEMMA TypeLoop ==
    ASSUME TypeInv, NEW n \in Nodes, LoopStep(n)
    PROVE  TypeInv'
<1>o. TypeOK
    BY DEF TypeInv
<1>a. OutdatedTasks(n) \in [Clients -> Task \cup {None}]
    BY <1>o, OutdatedFacts
<1>b. \A d \in Clients :
          /\ OutdatedTasks(n)[d] = None <=> task[n][d] = None
          /\ task[n][d] # None =>
                /\ OutdatedTasks(n)[d].msg = task[n][d].msg
                /\ OutdatedTasks(n)[d].pending = task[n][d].pending
                /\ OutdatedTasks(n)[d].phase = task[n][d].phase
    BY <1>o, OutdatedFacts
<1>1. ASSUME NEW m \in net, NEW topic \in BOOLEAN, StartMerge(n, m, topic),
             igive' \subseteq igive
      PROVE  TypeInv'
    <2> DEFINE table == Merge(Lookup(n), m, clock[n])
               h == [msg |-> m, pending |-> table, topic |-> topic, stale |-> FALSE]
    <2>1. m \in Msg /\ clock[n] \in Nat
        BY DEF TypeInv, TypeOK
    <2>2. Lookup(n) \in Table
        BY LookupType DEF TypeInv
    <2>3. table \in Table \cup {None}
        BY <2>1, <2>2, MergeFacts
    <2>4. h \in Merging
        BY <2>1, <2>3 DEF Merging
    <2>5. loop' = [loop EXCEPT ![n] = h]
        BY <1>1 DEF StartMerge
    <2> HIDE DEF h
    <2>6. TypeOK'
        BY <1>1, <2>2, <2>4, <2>5 DEF TypeInv, TypeOK, StartMerge
    <2>7. TaskShape'
        BY <1>1 DEF TypeInv, TaskShape, StartMerge
    <2> QED
        BY <2>6, <2>7 DEF TypeInv
<1>2. CASE \E m \in net : ReceiveGossip(n, m)
    BY <1>1, <1>2 DEF ReceiveGossip
<1>3. CASE \E m \in net : ReceiveIGive(n, m)
    BY <1>1, <1>3 DEF ReceiveIGive
<1>4. CASE FinishMerge(n)
    <2>1. loop[n] \in Merging
        BY <1>4 DEF TypeInv, TypeOK, FinishMerge
    <2>2. loop[n].msg \in Msg /\ loop[n].pending \in Table \cup {None}
        BY <2>1 DEF Merging
    <2>3. seen' \in [Nodes -> SUBSET Msg]
        BY <1>4, <2>2 DEF TypeInv, TypeOK, FinishMerge
    <2>4. CASE loop[n].pending = None
        <3>1. TypeOK'
            BY <1>4, <2>3, <2>4 DEF TypeInv, TypeOK, FinishMerge
        <3>2. TaskShape'
            BY <1>4, <2>4 DEF TypeInv, TaskShape, FinishMerge
        <3> QED
            BY <3>1, <3>2 DEF TypeInv
    <2>5. CASE loop[n].pending # None
        <3>1. TypeOK'
            BY <1>4, <2>2, <2>3, <2>5, OutdatedFacts DEF TypeInv, TypeOK, FinishMerge
        <3>2. \A m \in Nodes, d \in Clients :
                  task'[m][d] = IF m = n THEN OutdatedTasks(n)[d] ELSE task[m][d]
            BY <1>4, <2>5, OutdatedFacts DEF TypeInv, TypeOK, FinishMerge
        <3>3. TaskShape'
            BY <1>b, <3>2 DEF TypeInv, TaskShape
        <3> QED
            BY <3>1, <3>3 DEF TypeInv
    <2> QED
        BY <2>4, <2>5
<1> QED
    BY <1>2, <1>3, <1>4 DEF LoopStep

LEMMA TypeStep == TypeInv /\ [Next]_vars => TypeInv'
<1> SUFFICES ASSUME TypeInv, [Next]_vars PROVE TypeInv'
    OBVIOUS
<1>1. CASE \E n \in Nodes, c \in Clients : ClientStep(n, c)
    BY <1>1, TypeClient
<1>2. CASE \E n \in Nodes : LoopStep(n)
    BY <1>2, TypeLoop
<1>3. CASE \E n \in Nodes : Tick(n)
    BY <1>3 DEF TypeInv, TypeOK, TaskShape, Tick
<1>4. CASE UNCHANGED vars
    BY <1>4 DEF TypeInv, TypeOK, TaskShape, vars
<1> QED
    BY <1>1, <1>2, <1>3, <1>4 DEF Next

(* Every table, message and task is well formed in every reachable state: no  *)
(* handler hands the next one a table or a message of another shape.          *)
THEOREM TypeCorrect == Spec => []TypeOK
<1>1. Spec => []TypeInv
    BY TypeInit, TypeStep, PTL DEF Spec
<1>2. TypeInv => TypeOK
    BY DEF TypeInv
<1> QED
    BY <1>1, <1>2, PTL

-----------------------------------------------------------------------------
(* Safety.  The inductive invariant says of every table a node holds, in      *)
(* memory or in a task, where its units and its access bits come from and how *)
(* far ahead their writes may be, and of every message on its way that        *)
(* someone asked for it.                                                      *)

\* Node n holds the table: in memory, or in a task that will put it back.
Holds(n, table) ==
    /\ table # None
    /\ \/ table = apps[n]
       \/ loop[n] # None /\ table = loop[n].pending
       \/ \E c \in Clients : task[n][c] # None /\ table = task[n][c].pending

\* One step of node n works the table out.
Made(n, table) ==
    \/ table = EmptyTable
    \/ table = FreshTable
    \/ \E c \in Clients :
          /\ task[n][c] # None /\ task[n][c].phase = "read"
          /\ table = Put(Lookup(n), task[n][c].msg.owner, task[n][c].msg.key,
                         task[n][c].msg.data, clock[n])
    \/ \E o \in Owners, k \in Keys :
          Lookup(n)[o] # None /\ table = WithoutKey(Lookup(n), o, k)
    \/ \E o \in Owners :
          Lookup(n)[o] # None /\ table = WithoutData(Lookup(n), o)
    \/ \E o \in Owners, perm \in BOOLEAN :
          /\ Lookup(n)[o] # None
          /\ table = WithAccess(Lookup(n), o, perm, clock[n])
          /\ [type |-> "Access", owner |-> o, perm |-> perm] \in requests'
    \/ \E m \in net : table = Merge(Lookup(n), m, clock[n])

(* Every table a node holds after a step of its own it held before, or the    *)
(* step made it.                                                              *)
LEMMA ClientHolds ==
    ASSUME TypeInv, NEW n \in Nodes, NEW c \in Clients, ClientStep(n, c),
           NEW table, Holds(n, table)'
    PROVE  Holds(n, table) \/ Made(n, table)
<1>o. TypeOK
    BY DEF TypeInv
<1>a. OutdatedTasks(n) \in [Clients -> Task \cup {None}]
    BY <1>o, OutdatedFacts
<1>b. \A d \in Clients :
          /\ OutdatedTasks(n)[d] = None <=> task[n][d] = None
          /\ task[n][d] # None => OutdatedTasks(n)[d].pending = task[n][d].pending
    BY <1>o, OutdatedFacts
<1>d. /\ OutdatedLoop(n) = None <=> loop[n] = None
      /\ loop[n] # None => OutdatedLoop(n).pending = loop[n].pending
    BY <1>o, OutdatedFacts
<1>1. CASE InitApplication(n, c)
    <2> DEFINE t == [msg |-> None, pending |-> None, phase |-> "subscribe", stale |-> FALSE]
    <2>1. task'[n] = [OutdatedTasks(n) EXCEPT ![c] = t]
        BY <1>1, <1>o DEF InitApplication, TypeOK
    <2>2. t.pending = None
        OBVIOUS
    <2> HIDE DEF t
    <2>3. \A d \in Clients : task'[n][d] = IF d = c THEN t ELSE OutdatedTasks(n)[d]
        BY <1>a, <2>1
    <2>4. apps'[n] = FreshTable /\ loop'[n] = OutdatedLoop(n)
        BY <1>1, <1>o DEF InitApplication, TypeOK
    <2> QED
        BY <1>b, <1>d, <2>2, <2>3, <2>4 DEF Holds, Made
<1>2. CASE Subscribe(n, c)
    <2>1. \A d \in Clients : task'[n][d] = IF d = c THEN None ELSE task[n][d]
        BY <1>2, <1>o DEF Subscribe, TypeOK
    <2> QED
        BY <1>2, <2>1 DEF Subscribe, Holds
<1>3. CASE \E o \in Owners, k \in Keys, v \in Values : SetRequest(n, c, o, k, v)
    <2> PICK o \in Owners, k \in Keys, v \in Values : SetRequest(n, c, o, k, v)
        BY <1>3
    <2> DEFINE payload == [val |-> v, at |-> clock[n]]
               m == [type |-> "Write", from |-> n, owner |-> o, key |-> k,
                     data |-> payload, write_time |-> clock[n]]
               t == [msg |-> m, pending |-> None, phase |-> "read", stale |-> FALSE]
    <2>1. task' = [task EXCEPT ![n][c] = t] /\ UNCHANGED <<apps, loop>>
        BY DEF SetRequest, Begin
    <2>2. t.pending = None
        OBVIOUS
    <2> HIDE DEF t
    <2>3. \A d \in Clients : task'[n][d] = IF d = c THEN t ELSE task[n][d]
        BY <1>o, <2>1 DEF TypeOK
    <2> QED
        BY <2>1, <2>2, <2>3 DEF Holds
<1>4. CASE SetRead(n, c)
    <2> DEFINE t == task[n][c]
               new == Put(Lookup(n), t.msg.owner, t.msg.key, t.msg.data, clock[n])
               u == [t EXCEPT !.pending = new, !.phase = "commit"]
    <2>1. t \in Task /\ t # None /\ t.phase = "read"
        BY <1>4, <1>o DEF TypeOK, SetRead
    <2>2. u.pending = new
        BY <2>1 DEF Task
    <2>3. Made(n, new)
        BY <2>1 DEF Made
    <2>4. task' = [task EXCEPT ![n][c] = u] /\ UNCHANGED <<apps, loop>>
        BY <1>4 DEF SetRead
    <2> HIDE DEF u, new
    <2>5. \A d \in Clients : task'[n][d] = IF d = c THEN u ELSE task[n][d]
        BY <1>o, <2>4 DEF TypeOK
    <2> QED
        BY <2>2, <2>3, <2>4, <2>5 DEF Holds
<1>5. ASSUME NEW m, NEW new, Change(n, c, m, new), Made(n, new)
      PROVE  Holds(n, table) \/ Made(n, table)
    <2> DEFINE t == [msg |-> m, pending |-> new, phase |-> "commit", stale |-> FALSE]
    <2>1. task' = [task EXCEPT ![n][c] = t] /\ UNCHANGED <<apps, loop>>
        BY <1>5 DEF Change, Begin
    <2>2. t.pending = new
        OBVIOUS
    <2> HIDE DEF t
    <2>3. \A d \in Clients : task'[n][d] = IF d = c THEN t ELSE task[n][d]
        BY <1>o, <2>1 DEF TypeOK
    <2> QED
        BY <1>5, <2>1, <2>2, <2>3 DEF Holds
<1>6. CASE \E o \in Owners, k \in Keys : DelRead(n, c, o, k)
    <2> PICK o \in Owners, k \in Keys : DelRead(n, c, o, k)
        BY <1>6
    <2>1. Made(n, WithoutKey(Lookup(n), o, k))
        BY DEF Made, DelRead, Readable
    <2> QED
        BY <1>5, <2>1 DEF DelRead
<1>7. CASE \E o \in Owners : TruncateRead(n, c, o)
    <2> PICK o \in Owners : TruncateRead(n, c, o)
        BY <1>7
    <2>1. Made(n, WithoutData(Lookup(n), o))
        BY DEF Made, TruncateRead, Readable
    <2> QED
        BY <1>5, <2>1 DEF TruncateRead
<1>8. CASE \E o \in Owners, perm \in BOOLEAN : AccessRead(n, c, o, perm)
    <2> PICK o \in Owners, perm \in BOOLEAN : AccessRead(n, c, o, perm)
        BY <1>8
    <2>1. Made(n, WithAccess(Lookup(n), o, perm, clock[n]))
        BY DEF Made, AccessRead
    <2> QED
        BY <1>5, <2>1 DEF AccessRead
<1>9. CASE Commit(n, c)
    <2> DEFINE t == task[n][c]
               u == [t EXCEPT !.pending = None, !.phase = "flag"]
    <2>1. t \in Task /\ t # None
        BY <1>9, <1>o DEF TypeOK, Commit
    <2>2. u.pending = None
        BY <2>1 DEF Task
    <2>3. task' = [task EXCEPT ![n] = [OutdatedTasks(n) EXCEPT ![c] = u]]
        BY <1>9 DEF Commit
    <2> HIDE DEF u
    <2>4. \A d \in Clients : task'[n][d] = IF d = c THEN u ELSE OutdatedTasks(n)[d]
        BY <1>o, <1>a, <2>3 DEF TypeOK
    <2>5. apps'[n] = t.pending /\ loop'[n] = OutdatedLoop(n)
        BY <1>9, <1>o DEF Commit, TypeOK
    <2> QED
        BY <1>b, <1>d, <2>1, <2>2, <2>4, <2>5 DEF Holds
<1>10. CASE Flag(n, c)
    <2> DEFINE t == task[n][c]
               stamp == IF t.msg.type = "Write" THEN t.msg.write_time ELSE clock[n]
               m == [t.msg EXCEPT !.write_time = stamp]
               u == [t EXCEPT !.msg = m, !.phase = "gossip"]
    <2>1. t \in Task /\ t # None
        BY <1>10, <1>o DEF TypeOK, Flag
    <2>2. u.pending = t.pending
        BY <2>1 DEF Task
    <2>3. task' = [task EXCEPT ![n][c] = u] /\ UNCHANGED <<apps, loop>>
        BY <1>10 DEF Flag
    <2> HIDE DEF u
    <2>4. \A d \in Clients : task'[n][d] = IF d = c THEN u ELSE task[n][d]
        BY <1>o, <2>3 DEF TypeOK
    <2> QED
        BY <2>1, <2>2, <2>3, <2>4 DEF Holds
<1>11. CASE Gossip(n, c)
    <2>1. \A d \in Clients : task'[n][d] = IF d = c THEN None ELSE task[n][d]
        BY <1>11, <1>o DEF Gossip, TypeOK
    <2> QED
        BY <1>11, <2>1 DEF Gossip, Holds
<1> QED
    BY <1>1, <1>2, <1>3, <1>4, <1>6, <1>7, <1>8, <1>9, <1>10, <1>11 DEF ClientStep

LEMMA LoopHolds ==
    ASSUME TypeInv, NEW n \in Nodes, LoopStep(n), NEW table, Holds(n, table)'
    PROVE  Holds(n, table) \/ Made(n, table)
<1>o. TypeOK
    BY DEF TypeInv
<1>1. ASSUME NEW m \in net, NEW topic, StartMerge(n, m, topic)
      PROVE  Holds(n, table) \/ Made(n, table)
    <2> DEFINE new == Merge(Lookup(n), m, clock[n])
               h == [msg |-> m, pending |-> new, topic |-> topic, stale |-> FALSE]
    <2>1. Made(n, new)
        BY DEF Made
    <2>2. apps'[n] = Lookup(n) /\ loop'[n] = h /\ task' = task
        BY <1>1, <1>o DEF StartMerge, TypeOK
    <2>3. h.pending = new
        OBVIOUS
    <2>4. Lookup(n) = apps[n] \/ Lookup(n) = EmptyTable
        BY DEF Lookup
    <2> HIDE DEF h, new
    <2> QED
        BY <2>1, <2>2, <2>3, <2>4 DEF Holds, Made
<1>2. CASE \E m \in net : ReceiveGossip(n, m)
    BY <1>1, <1>2 DEF ReceiveGossip
<1>3. CASE \E m \in net : ReceiveIGive(n, m)
    BY <1>1, <1>3 DEF ReceiveIGive
<1>4. CASE FinishMerge(n)
    <2>1. loop'[n] = None
        BY <1>4, <1>o DEF FinishMerge, TypeOK
    <2>2. CASE loop[n].pending = None
        BY <1>4, <2>1, <2>2 DEF FinishMerge, Holds
    <2>3. CASE loop[n].pending # None
        <3>1. OutdatedTasks(n) \in [Clients -> Task \cup {None}]
            BY <1>o, OutdatedFacts
        <3>2. \A d \in Clients :
                  /\ OutdatedTasks(n)[d] = None <=> task[n][d] = None
                  /\ task[n][d] # None => OutdatedTasks(n)[d].pending = task[n][d].pending
            BY <1>o, OutdatedFacts
        <3>3. task'[n] = OutdatedTasks(n) /\ apps'[n] = loop[n].pending
            BY <1>4, <1>o, <2>3 DEF FinishMerge, TypeOK
        <3> QED
            BY <1>4, <2>1, <3>2, <3>3 DEF Holds, FinishMerge
    <2> QED
        BY <2>2, <2>3
<1> QED
    BY <1>2, <1>3, <1>4 DEF LoopStep

(* A step of one node leaves the others' tables and tasks alone.              *)
LEMMA OthersUntouched ==
    ASSUME TypeInv, NEW n \in Nodes,
           LoopStep(n) \/ \E c \in Clients : ClientStep(n, c),
           NEW p \in Nodes, p # n
    PROVE  apps'[p] = apps[p] /\ task'[p] = task[p] /\ loop'[p] = loop[p]
<1>o. TypeOK
    BY DEF TypeInv
<1>1. CASE LoopStep(n)
    BY <1>1, <1>o DEF TypeOK, LoopStep, ReceiveGossip, ReceiveIGive, StartMerge, FinishMerge
<1>2. ASSUME NEW c \in Clients, ClientStep(n, c)
      PROVE  apps'[p] = apps[p] /\ task'[p] = task[p] /\ loop'[p] = loop[p]
    <2>1. CASE InitApplication(n, c) \/ Commit(n, c)
        BY <1>o, <2>1 DEF TypeOK, InitApplication, Commit
    <2>2. CASE Subscribe(n, c) \/ Flag(n, c) \/ Gossip(n, c) \/ SetRead(n, c)
        BY <1>o, <2>2 DEF TypeOK, Subscribe, Flag, Gossip, SetRead
    <2>3. ASSUME NEW t, Begin(n, c, t), UNCHANGED <<apps, loop>>
          PROVE  apps'[p] = apps[p] /\ task'[p] = task[p] /\ loop'[p] = loop[p]
        BY <1>o, <2>3 DEF TypeOK, Begin
    <2>4. CASE \E o \in Owners, k \in Keys, v \in Values : SetRequest(n, c, o, k, v)
        BY <2>3, <2>4 DEF SetRequest
    <2>5. CASE \E o \in Owners, k \in Keys : DelRead(n, c, o, k)
        BY <2>3, <2>5 DEF DelRead, Change
    <2>6. CASE \E o \in Owners : TruncateRead(n, c, o)
        BY <2>3, <2>6 DEF TruncateRead, Change
    <2>7. CASE \E o \in Owners, perm \in BOOLEAN : AccessRead(n, c, o, perm)
        BY <2>3, <2>7 DEF AccessRead, Change
    <2> QED
        BY <1>2, <2>1, <2>2, <2>4, <2>5, <2>6, <2>7 DEF ClientStep
<1> QED
    BY <1>1, <1>2

(* No step of a node changes a clock or takes a message or a request back.    *)
LEMMA HistoryGrows ==
    ASSUME NEW n \in Nodes, LoopStep(n) \/ \E c \in Clients : ClientStep(n, c)
    PROVE  clock' = clock /\ net \subseteq net' /\ requests \subseteq requests'
BY DEF LoopStep, ReceiveGossip, ReceiveIGive, StartMerge, FinishMerge,
       ClientStep, InitApplication, Subscribe, SetRequest, SetRead, DelRead,
       TruncateRead, AccessRead, Change, Commit, Flag, Gossip, Publish
-----------------------------------------------------------------------------
(* What the units and the access bits of a new table come from                *)

\* A client command of node n has the message m to send.
Composed(n, m) == \E c \in Clients : task[n][c] # None /\ task[n][c].msg = m

\* A write that is on its way: published, or still at the task that asked for it.
Written(m) ==
    /\ m \in WriteMsg
    /\ \/ m \in net
       \/ \E n \in Nodes : Composed(n, m)

\* The unit at owner o and key k was in a table the node held, or it is the
\* value of a write on its way, stamped with the node's clock.
UnitGrounded(n, table, o, k) ==
    \/ \E old : Holds(n, old) /\ Kept(old, table, o, k)
    \/ \E m : /\ Written(m) /\ m.owner = o /\ m.key = k
              /\ table[o].data[k] = [data |-> m.data, write_time |-> clock[n]]

\* Access was denied in a table the node held, or a request denies it.
DenialGrounded(n, table, o) ==
    \/ \E old : Holds(n, old) /\ Denied(old, o)
    \/ [type |-> "Access", owner |-> o, perm |-> FALSE] \in requests'
    \/ \E m \in net : Denies(m, o) /\ m.write_time > 0

LEMMA MadeGrounded ==
    ASSUME TypeInv, NEW n \in Nodes, NEW table, table # None, Made(n, table)
    PROVE  /\ table \in Table
           /\ \A o \in Owners, k \in Keys :
                 Has(table, o, k) => UnitGrounded(n, table, o, k)
           /\ \A o \in Owners : Denied(table, o) => DenialGrounded(n, table, o)
<1> DEFINE here == Lookup(n)
<1>n. None \notin Units(Payloads) /\ None \notin Entries(Payloads) /\ None \notin Msg
    BY NoneAssumption
<1>l. here \in Table /\ here \in Tables(Payloads)
    BY LookupType DEF TypeInv, Table
<1>h. /\ \A o \in Owners, k \in Keys : Has(here, o, k) => Holds(n, here)
      /\ \A o \in Owners : here[o] # None => Holds(n, here)
    BY DEF Lookup, Holds, EmptyTable, Has
<1>k. clock[n] \in Nat
    BY DEF TypeInv, TypeOK
<1> HIDE DEF here
<1>e. /\ \A o \in Owners, k \in Keys : Kept(here, table, o, k) => UnitGrounded(n, table, o, k)
      /\ \A o \in Owners : Denied(here, o) => DenialGrounded(n, table, o)
    BY <1>h DEF Kept, Denied, UnitGrounded, DenialGrounded
<1>1. CASE table = EmptyTable
    BY <1>1, EmptyTableType DEF EmptyTable, Has, Denied
<1>2. CASE table = FreshTable
    BY <1>2, FreshTableFacts DEF Denied
<1>3. CASE \E c \in Clients :
              /\ task[n][c] # None /\ task[n][c].phase = "read"
              /\ table = Put(here, task[n][c].msg.owner, task[n][c].msg.key,
                             task[n][c].msg.data, clock[n])
    <2> PICK c \in Clients :
              /\ task[n][c] # None /\ task[n][c].phase = "read"
              /\ table = Put(here, task[n][c].msg.owner, task[n][c].msg.key,
                             task[n][c].msg.data, clock[n])
        BY <1>3
    <2> DEFINE m == task[n][c].msg
    <2>1. m \in WriteMsg
        BY DEF TypeInv, TaskShape
    <2>2. m.owner \in Owners /\ m.key \in Keys /\ m.data \in Payloads
        BY <2>1 DEF WriteMsg
    <2>3. Written(m)
        BY <2>1 DEF Written, Composed
    <2>4. table = Put(here, m.owner, m.key, m.data, clock[n])
        OBVIOUS
    <2> HIDE DEF m
    <2>5. table \in Table
        BY <1>n, <1>k, <1>l, <2>2, <2>4, PutType DEF Table
    <2>6. ASSUME NEW o \in Owners, NEW k \in Keys, Has(table, o, k)
          PROVE  UnitGrounded(n, table, o, k)
        <3>1. \/ /\ o = m.owner /\ k = m.key
                 /\ table[o].data[k] = [data |-> m.data, write_time |-> clock[n]]
              \/ Kept(here, table, o, k)
            BY <1>n, <1>k, <1>l, <2>2, <2>4, <2>6, PutUnits
        <3> QED
            BY <1>e, <2>3, <3>1 DEF UnitGrounded
    <2>7. \A o \in Owners : Denied(table, o) => Denied(here, o)
        BY <1>n, <1>k, <1>l, <2>2, <2>4, PutAccess
    <2> QED
        BY <1>e, <2>5, <2>6, <2>7
<1>4. CASE \E o \in Owners, k \in Keys :
              here[o] # None /\ table = WithoutKey(here, o, k)
    <2> PICK p \in Owners, j \in Keys : here[p] # None /\ table = WithoutKey(here, p, j)
        BY <1>4
    <2>1. /\ table \in Tables(Payloads)
          /\ \A o \in Owners, k \in Keys : Has(table, o, k) => Kept(here, table, o, k)
          /\ \A o \in Owners : table[o] # None =>
                here[o] # None /\ table[o].access = here[o].access
        BY <1>l, WithoutKeyFacts
    <2> QED
        BY <1>e, <2>1 DEF Denied, Table
<1>5. CASE \E o \in Owners : here[o] # None /\ table = WithoutData(here, o)
    <2> PICK p \in Owners : here[p] # None /\ table = WithoutData(here, p)
        BY <1>5
    <2>1. /\ table \in Tables(Payloads)
          /\ \A o \in Owners, k \in Keys : Has(table, o, k) => Kept(here, table, o, k)
          /\ \A o \in Owners : table[o] # None =>
                here[o] # None /\ table[o].access = here[o].access
        BY <1>l, WithoutDataFacts
    <2> QED
        BY <1>e, <2>1 DEF Denied, Table
<1>6. CASE \E o \in Owners, perm \in BOOLEAN :
              /\ here[o] # None
              /\ table = WithAccess(here, o, perm, clock[n])
              /\ [type |-> "Access", owner |-> o, perm |-> perm] \in requests'
    <2> PICK p \in Owners, perm \in BOOLEAN :
              /\ here[p] # None
              /\ table = WithAccess(here, p, perm, clock[n])
              /\ [type |-> "Access", owner |-> p, perm |-> perm] \in requests'
        BY <1>6
    <2>1. /\ table \in Tables(Payloads)
          /\ \A o \in Owners, k \in Keys : Has(table, o, k) => Kept(here, table, o, k)
          /\ table[p].access = perm
          /\ \A o \in Owners \ {p} : table[o] = here[o]
        BY <1>k, <1>l, WithAccessFacts
    <2>2. ASSUME NEW o \in Owners, Denied(table, o)
          PROVE  DenialGrounded(n, table, o)
        <3>1. CASE o = p
            <4>1. perm = FALSE
                BY <2>1, <2>2, <3>1 DEF Denied
            <4> QED
                BY <3>1, <4>1 DEF DenialGrounded
        <3>2. CASE o # p
            BY <1>e, <2>1, <2>2, <3>2 DEF Denied
        <3> QED
            BY <3>1, <3>2
    <2> QED
        BY <1>e, <2>1, <2>2 DEF Table
<1>7. CASE \E m \in net : table = Merge(here, m, clock[n])
    <2> PICK m \in net : table = Merge(here, m, clock[n])
        BY <1>7
    <2>1. m \in Msg
        BY DEF TypeInv, TypeOK
    <2>2. m.type = "Write" => Written(m)
        BY <2>1 DEF Written, Msg, WriteMsg, DeleteMsg, TruncateMsg, AccessMsg
    <2>3. Merge(here, m, clock[n]) # None
        OBVIOUS
    <2>4. Merge(here, m, clock[n]) \in Table
        BY <1>k, <1>l, <2>1, <2>3, MergeType
    <2>5. ASSUME NEW o \in Owners, NEW k \in Keys, Has(Merge(here, m, clock[n]), o, k)
          PROVE  \/ Kept(here, Merge(here, m, clock[n]), o, k)
                 \/ /\ m.type = "Write" /\ o = m.owner /\ k = m.key
                    /\ Merge(here, m, clock[n])[o].data[k]
                           = [data |-> m.data, write_time |-> clock[n]]
        BY <1>k, <1>l, <2>1, <2>3, <2>5, MergeUnits
    <2>6. ASSUME NEW o \in Owners, Denied(Merge(here, m, clock[n]), o)
          PROVE  \/ Denied(here, o)
                 \/ Denies(m, o) /\ m.write_time > 0
        BY <1>k, <1>l, <2>1, <2>3, <2>6, MergeDenials
    <2> QED
        BY <1>e, <2>2, <2>4, <2>5, <2>6 DEF UnitGrounded, DenialGrounded
<1> QED
    BY <1>1, <1>2, <1>3, <1>4, <1>5, <1>6, <1>7 DEF Made, here
-----------------------------------------------------------------------------
(* The inductive invariant                                                    *)

\* The clocks differ by MaxSkew at most.
Skew == \A n, p \in Nodes : clock[n] <= clock[p] + MaxSkew

WriteAsked(m) ==
    [type |-> "Write", owner |-> m.owner, key |-> m.key, data |-> m.data] \in requests

DenialAskedBy(m) == [type |-> "Access", owner |-> m.owner, perm |-> FALSE] \in requests

\* A message a command of n has to send: n's clock has reached its time, a
\* write and a denial were asked for, and the key to delete was written once.
Honest(n, m) ==
    /\ m.from = n
    /\ m.write_time <= clock[n]
    /\ m \in WriteMsg => m.write_time = m.data.at /\ WriteAsked(m)
    /\ Denies(m, m.owner) => DenialAskedBy(m)
    /\ m \in DeleteMsg => \A j \in {2, 5} : Below(j) => Separators[m.key] < j

\* What the receivers read of a message: a write's origin is a time its
\* sender's clock has reached; it was asked for, and so was a denial, as far as
\* the texts that clients have written let the receivers read what was sent.
Credible(m) ==
    /\ m \in WriteMsg =>
          /\ m.data.at <= clock[m.from]
          /\ Below(5) => m.write_time = m.data.at /\ WriteAsked(m)
    /\ (Denies(m, m.owner) /\ m.write_time > 0 /\ Below(2)) => DenialAskedBy(m)

Sent ==
    /\ \A n \in Nodes : \A m \in Msg : Composed(n, m) => Honest(n, m)
    /\ \A m \in net : Credible(m)

\* No unit holds a write from further in the future than the clocks differ.
Timely(n, table) ==
    \A o \in Owners, k \in Keys :
        Has(table, o, k) => table[o].data[k].data.at <= clock[n] + MaxSkew

Sound(n, table) ==
    /\ Below(5) => Asked(table)
    /\ Stamped(table)
    /\ Below(2) => DenialAsked(table)
    /\ Timely(n, table)

TablesSound ==
    \A n \in Nodes : \A table : Holds(n, table) => table \in Table /\ Sound(n, table)

OriginInv == TypeInv /\ Skew /\ Sent /\ TablesSound

LEMMA OriginInit == Init => OriginInv
<1> SUFFICES ASSUME Init PROVE OriginInv
    OBVIOUS
<1>1. TypeInv
    BY TypeInit
<1>2. Skew
    <2>1. \A n \in Nodes : clock[n] = 1
        BY DEF Init
    <2> QED
        BY <2>1 DEF Skew
<1>3. Sent
    BY DEF Init, Sent, Composed
<1>4. TablesSound
    BY DEF Init, TablesSound, Holds
<1> QED
    BY <1>1, <1>2, <1>3, <1>4 DEF OriginInv

(* The more was asked for, the less can be said of the texts.                 *)
LEMMA BelowKept ==
    ASSUME requests \subseteq requests', NEW j, Below(j)'
    PROVE  Below(j)
BY DEF Below

LEMMA BelowFive == TypeOK /\ Below(2) => Below(5)
<1> SUFFICES ASSUME TypeOK, Below(2), NEW r \in requests, r.type = "Write"
             PROVE  Separators[r.key] + Separators[r.data.val] < 5
    BY DEF Below
<1>1. r.key \in Keys /\ r.data.val \in Values
    BY DEF TypeOK, Payloads
<1>2. Separators[r.key] \in Nat /\ Separators[r.data.val] \in Nat
    BY <1>1, TextAssumption
<1>3. Separators[r.key] + Separators[r.data.val] < 2
    BY DEF Below
<1> QED
    BY <1>2, <1>3

(* What is honest stays honest: clocks and requests only grow.                *)
LEMMA HonestKept ==
    ASSUME TypeInv, TypeInv', NEW n \in Nodes, NEW m \in Msg, Honest(n, m),
           clock[n] <= clock'[n], requests \subseteq requests'
    PROVE  Honest(n, m)'
<1>1. m.write_time \in Nat
    BY DEF Msg, WriteMsg, DeleteMsg, TruncateMsg, AccessMsg
<1>2. clock[n] \in Nat /\ clock'[n] \in Nat
    BY DEF TypeInv, TypeOK
<1>3. m.write_time <= clock'[n]
    BY <1>1, <1>2 DEF Honest
<1>4. ASSUME m \in DeleteMsg, NEW j \in {2, 5}, Below(j)'
      PROVE  Separators[m.key] < j
    <2>1. Below(j)
        BY <1>4, BelowKept
    <2> QED
        BY <1>4, <2>1 DEF Honest
<1> QED
    BY <1>3, <1>4 DEF Honest, WriteAsked, DenialAskedBy

LEMMA CredibleKept ==
    ASSUME TypeInv, TypeInv', NEW m \in Msg, Credible(m),
           \A n \in Nodes : clock[n] <= clock'[n], requests \subseteq requests'
    PROVE  Credible(m)'
<1>1. Below(2)' => Below(2)
    BY BelowKept
<1>2. Below(5)' => Below(5)
    BY BelowKept
<1>3. ASSUME m \in WriteMsg PROVE m.data.at <= clock'[m.from]
    <2>1. m.from \in Nodes /\ m.data.at \in Nat
        BY <1>3 DEF WriteMsg, Payloads
    <2>2. clock[m.from] \in Nat /\ clock'[m.from] \in Nat
        BY <2>1 DEF TypeInv, TypeOK
    <2> QED
        BY <1>3, <2>1, <2>2 DEF Credible
<1> QED
    BY <1>1, <1>2, <1>3 DEF Credible, WriteAsked, DenialAskedBy

(* What the receivers read of an honest message is credible.                  *)
LEMMA ReadingsCredible ==
    ASSUME TypeInv, NEW n \in Nodes, NEW m \in Msg, Honest(n, m), NEW r \in Readings(m)
    PROVE  Credible(r)
<1>t. /\ m.write_time \in Nat /\ clock[n] \in Nat
      /\ m.from = n /\ m.write_time <= clock[n]
    BY DEF Msg, WriteMsg, DeleteMsg, TruncateMsg, AccessMsg, TypeInv, TypeOK, Honest
<1>1. CASE Shift(m) = 0
    <2>1. r = m
        BY <1>1, ReadingCases
    <2> QED
        BY <1>t, <2>1 DEF Honest, Credible
<1>2. CASE Shift(m) # 0
    <2>r. /\ r \in Msg /\ r.from = n /\ r.write_time \in ReadTimes(m)
          /\ r \in WriteMsg => r.data.at = m.write_time
          /\ r \notin AccessMsg => ~(LastText(m) < WriteTypeField)
        BY <1>t, <1>2, ReadingsType
    \* Few separators move the last piece of the text a few places.
    <2>1. ASSUME NEW j \in {2, 5}, Below(j)
          PROVE  LastText(m) \in Nat /\ LastText(m) < j + 3
        <3>1. CASE m \in WriteMsg
            <4>1. m.type = "Write" /\ m.key \in Keys /\ m.data.val \in Values
                BY <3>1 DEF WriteMsg, Payloads
            <4>2. Separators[m.key] \in Nat /\ Separators[m.data.val] \in Nat
                BY <4>1, TextAssumption
            <4>3. WriteAsked(m)
                BY <3>1 DEF Honest
            <4>4. Separators[m.key] + Separators[m.data.val] < j
                BY <2>1, <4>3 DEF WriteAsked, Below
            <4>5. LastText(m) = Separators[m.key] + Separators[m.data.val] + 3
                BY <4>1 DEF LastText, Shift
            <4> QED
                BY <4>2, <4>4, <4>5
        <3>2. CASE m \in DeleteMsg
            <4>1. m.type = "Delete" /\ m.key \in Keys
                BY <3>2 DEF DeleteMsg
            <4>2. Separators[m.key] \in Nat
                BY <4>1, TextAssumption
            <4>3. Separators[m.key] < j
                BY <2>1, <3>2 DEF Honest
            <4>4. LastText(m) = Separators[m.key] + 2
                BY <4>1 DEF LastText, Shift
            <4> QED
                BY <4>2, <4>3, <4>4
        <3>3. CASE m \in TruncateMsg \cup AccessMsg
            BY <1>2, <3>3 DEF Shift, TruncateMsg, AccessMsg
        <3> QED
            BY <3>1, <3>2, <3>3 DEF Msg
    <2>2. Below(5) => r \notin WriteMsg
        <3>1. Below(5) => LastText(m) < WriteTypeField
            BY <2>1 DEF WriteTypeField
        <3>2. r \in WriteMsg => r \notin AccessMsg
            BY DEF WriteMsg, AccessMsg
        <3> QED
            BY <2>r, <3>1, <3>2
    <2>3. Below(2) => r.write_time = 0
        <3>1. Below(2) => LastText(m) < TimeField
            BY <2>1 DEF TimeField
        <3> QED
            BY <2>r, <3>1 DEF ReadTimes
    <2> QED
        BY <1>t, <2>r, <2>2, <2>3 DEF Credible
<1> QED
    BY <1>1, <1>2

(* The units of the table a node looks up are sound.                          *)
LEMMA LookupSound ==
    ASSUME OriginInv, NEW n \in Nodes
    PROVE  Lookup(n) \in Table /\ Sound(n, Lookup(n))
<1>1. CASE apps[n] = None
    <2>1. Lookup(n) = EmptyTable
        BY <1>1 DEF Lookup
    <2>2. \A o \in Owners : EmptyTable[o] = None
        BY DEF EmptyTable
    <2> QED
        BY <2>1, <2>2, EmptyTableType
           DEF Sound, Asked, Stamped, DenialAsked, Timely, Has
<1>2. CASE apps[n] # None
    BY <1>2 DEF OriginInv, TablesSound, Holds, Lookup
<1> QED
    BY <1>1, <1>2

(* The messages a client step has to send are honest.                         *)
LEMMA ClientSends ==
    ASSUME OriginInv, TypeInv', NEW n \in Nodes, NEW c \in Clients, ClientStep(n, c),
           NEW m \in Msg, Composed(n, m)'
    PROVE  Honest(n, m)'
<1>i. TypeInv /\ Sent /\ clock[n] \in Nat
    BY DEF OriginInv, TypeInv, TypeOK
<1>o. TypeOK
    BY <1>i DEF TypeInv
<1>h. clock' = clock /\ requests \subseteq requests'
    BY HistoryGrows
<1>s. ASSUME Composed(n, m) PROVE Honest(n, m)'
    <2>1. clock[n] <= clock'[n]
        BY <1>h, <1>i
    <2>2. Honest(n, m)
        BY <1>i, <1>s DEF Sent
    <2> QED
        BY <1>h, <1>i, <2>1, <2>2, HonestKept
<1>n. None \notin Msg
    BY NoneAssumption
<1>b. \A d \in Clients :
          /\ OutdatedTasks(n)[d] = None <=> task[n][d] = None
          /\ task[n][d] # None => OutdatedTasks(n)[d].msg = task[n][d].msg
    BY <1>o, OutdatedFacts
<1>d. OutdatedTasks(n) \in [Clients -> Task \cup {None}]
    BY <1>o, OutdatedFacts
\* One task has a new state, and its message is the old one or an honest one.
<1>t. ASSUME NEW t, task' = [task EXCEPT ![n][c] = t],
             t # None /\ t.msg = m => Composed(n, m) \/ Honest(n, m)'
      PROVE  Honest(n, m)'
    <2>1. \A d \in Clients : task'[n][d] = IF d = c THEN t ELSE task[n][d]
        BY <1>o, <1>t DEF TypeOK
    <2> QED
        BY <1>s, <1>t, <2>1 DEF Composed
<1>1. CASE InitApplication(n, c)
    <2> DEFINE t == [msg |-> None, pending |-> None, phase |-> "subscribe", stale |-> FALSE]
    <2>1. task' = [task EXCEPT ![n] = [OutdatedTasks(n) EXCEPT ![c] = t]]
        BY <1>1 DEF InitApplication
    <2>2. t.msg = None
        OBVIOUS
    <2> HIDE DEF t
    <2>3. \A d \in Clients : task'[n][d] = IF d = c THEN t ELSE OutdatedTasks(n)[d]
        BY <1>o, <1>d, <2>1 DEF TypeOK
    <2> QED
        BY <1>b, <1>n, <1>s, <2>1, <2>2, <2>3 DEF Composed
<1>2. CASE Subscribe(n, c)
    BY <1>2, <1>t DEF Subscribe
<1>3. CASE \E o \in Owners, k \in Keys, v \in Values : SetRequest(n, c, o, k, v)
    <2> PICK o \in Owners, k \in Keys, v \in Values : SetRequest(n, c, o, k, v)
        BY <1>3
    <2> DEFINE payload == [val |-> v, at |-> clock[n]]
               w == [type |-> "Write", from |-> n, owner |-> o, key |-> k,
                     data |-> payload, write_time |-> clock[n]]
               t == [msg |-> w, pending |-> None, phase |-> "read", stale |-> FALSE]
    <2>1. task' = [task EXCEPT ![n][c] = t]
        BY DEF SetRequest, Begin
    <2>2. t.msg = w
        OBVIOUS
    <2>3. ASSUME m = w PROVE Honest(n, m)'
        <3>1. [type |-> "Write", owner |-> o, key |-> k, data |-> payload] \in requests'
            BY DEF SetRequest
        <3>3. /\ w.write_time = clock[n] /\ w.data = payload /\ payload.at = clock[n]
              /\ w.from = n /\ w.owner = o /\ w.key = k /\ w.type = "Write"
            OBVIOUS
        <3> HIDE DEF w, payload
        <3> QED
            BY <1>h, <1>i, <2>3, <3>1, <3>3 DEF Honest, Denies, WriteAsked, DeleteMsg
    <2> HIDE DEF t, w
    <2> QED
        BY <1>t, <2>1, <2>2, <2>3
<1>4. CASE SetRead(n, c)
    <2> DEFINE t == task[n][c]
               new == Put(Lookup(n), t.msg.owner, t.msg.key, t.msg.data, clock[n])
               u == [t EXCEPT !.pending = new, !.phase = "commit"]
    <2>1. t \in Task /\ t # None
        BY <1>4, <1>o DEF TypeOK, SetRead
    <2>2. u.msg = t.msg
        BY <2>1 DEF Task
    <2>3. task' = [task EXCEPT ![n][c] = u]
        BY <1>4 DEF SetRead
    <2> HIDE DEF u
    <2>4. u.msg = m => Composed(n, m)
        BY <2>1, <2>2 DEF Composed
    <2> QED
        BY <1>t, <2>3, <2>4
\* del, truncate and an access change.
<1>5. ASSUME NEW w, NEW new, Change(n, c, w, new), m = w => Honest(n, m)'
      PROVE  Honest(n, m)'
    <2> DEFINE t == [msg |-> w, pending |-> new, phase |-> "commit", stale |-> FALSE]
    <2>1. task' = [task EXCEPT ![n][c] = t]
        BY <1>5 DEF Change, Begin
    <2>2. t.msg = w
        OBVIOUS
    <2> HIDE DEF t
    <2> QED
        BY <1>5, <1>t, <2>1, <2>2
<1>6. CASE \E o \in Owners, k \in Keys : DelRead(n, c, o, k)
    <2> PICK o \in Owners, k \in Keys : DelRead(n, c, o, k)
        BY <1>6
    <2> DEFINE w == [type |-> "Delete", from |-> n, owner |-> o, key |-> k, write_time |-> 0]
    <2>2. Sound(n, Lookup(n)) /\ Has(Lookup(n), o, k) /\ requests' = requests
        BY LookupSound DEF DelRead
    <2>3. ASSUME NEW j \in {2, 5}, Below(j)' PROVE Separators[k] < j
        <3>1. Below(j) /\ Below(5)
            <4>1. Below(j)
                BY <2>2, <2>3 DEF Below
            <4> QED
                BY <1>o, <4>1, BelowFive
        <3>2. [type |-> "Write", owner |-> o, key |-> k, data |-> Lookup(n)[o].data[k].data]
                  \in requests
            BY <2>2, <3>1 DEF Sound, Asked
        <3>3. Separators[k] + Separators[Lookup(n)[o].data[k].data.val] < j
            BY <3>1, <3>2 DEF Below
        <3>4. Lookup(n)[o].data[k].data.val \in Values
            <4>1. Lookup(n) \in Table
                BY LookupSound
            <4>2. Lookup(n)[o] \in Entries(Payloads)
                BY <2>2, <4>1 DEF Table, Tables, Has
            <4>3. Lookup(n)[o].data[k] \in Units(Payloads)
                BY <2>2, <4>2 DEF Entries, Has
            <4> QED
                BY <4>3 DEF Units, Payloads
        <3>5. Separators[k] \in Nat /\ Separators[Lookup(n)[o].data[k].data.val] \in Nat
            BY <3>4, TextAssumption
        <3> QED
            BY <3>3, <3>5
    <2>4. w.type = "Delete" /\ w.from = n /\ w.write_time = 0 /\ w.key = k
        OBVIOUS
    <2> HIDE DEF w
    <2>1. m = w => Honest(n, m)'
        BY <1>h, <1>i, <2>3, <2>4 DEF Honest, Denies, WriteMsg
    <2> QED
        BY <1>5, <2>1 DEF DelRead, w
<1>7. CASE \E o \in Owners : TruncateRead(n, c, o)
    <2> PICK o \in Owners : TruncateRead(n, c, o)
        BY <1>7
    <2> DEFINE w == [type |-> "Truncate", from |-> n, owner |-> o, write_time |-> 0]
    <2>1. m = w => Honest(n, m)'
        BY <1>h, <1>i DEF Honest, Denies, WriteMsg, DeleteMsg
    <2> QED
        BY <1>5, <2>1 DEF TruncateRead
<1>8. CASE \E o \in Owners, perm \in BOOLEAN : AccessRead(n, c, o, perm)
    <2> PICK o \in Owners, perm \in BOOLEAN : AccessRead(n, c, o, perm)
        BY <1>8
    <2> DEFINE w == [type |-> "Access", from |-> n, owner |-> o, perm |-> perm,
                     write_time |-> 0]
    <2>1. [type |-> "Access", owner |-> o, perm |-> perm] \in requests'
        BY DEF AccessRead
    <2>2. /\ w.type = "Access" /\ w.owner = o /\ w.perm = perm
          /\ w \notin WriteMsg /\ w \notin DeleteMsg /\ w.from = n /\ w.write_time = 0
        BY DEF WriteMsg, DeleteMsg
    <2> HIDE DEF w
    <2>3. Denies(w, w.owner) => DenialAskedBy(w)'
        BY <2>1, <2>2 DEF Denies, DenialAskedBy
    <2>4. w.write_time <= clock'[n]
        BY <1>h, <1>i, <2>2
    <2>5. m = w => Honest(n, m)'
        BY <2>2, <2>3, <2>4 DEF Honest, Denies
    <2> QED
        BY <1>5, <2>5 DEF AccessRead, w
<1>9. CASE Commit(n, c)
    <2> DEFINE t == task[n][c]
               u == [t EXCEPT !.pending = None, !.phase = "flag"]
    <2>1. t \in Task /\ t # None
        BY <1>9, <1>o DEF TypeOK, Commit
    <2>2. u.msg = t.msg
        BY <2>1 DEF Task
    <2>3. task' = [task EXCEPT ![n] = [OutdatedTasks(n) EXCEPT ![c] = u]]
        BY <1>9 DEF Commit
    <2> HIDE DEF u
    <2>4. \A d \in Clients : task'[n][d] = IF d = c THEN u ELSE OutdatedTasks(n)[d]
        BY <1>o, <1>d, <2>3 DEF TypeOK
    <2> QED
        BY <1>b, <1>s, <2>1, <2>2, <2>3, <2>4 DEF Composed
<1>10. CASE Flag(n, c)
    <2> DEFINE t == task[n][c]
               stamp == IF t.msg.type = "Write" THEN t.msg.write_time ELSE clock[n]
               w == [t.msg EXCEPT !.write_time = stamp]
               u == [t EXCEPT !.msg = w, !.phase = "gossip"]
    <2>1. t \in Task /\ t # None /\ t.msg \in Msg
        BY <1>10, <1>i, <1>o DEF TypeInv, TypeOK, TaskShape, Flag
    <2>2. u.msg = w
        BY <2>1 DEF Task
    <2>3. task' = [task EXCEPT ![n][c] = u]
        BY <1>10 DEF Flag
    <2>4. Honest(n, t.msg)
        BY <1>i, <2>1 DEF Sent, Composed
    <2>8. /\ w \in Msg => w.from = n
          /\ t.msg.type # "Write" => w.write_time = clock[n]
        BY <2>1, <2>4 DEF Honest, Msg, WriteMsg, DeleteMsg, TruncateMsg, AccessMsg
    <2>5. CASE t.msg \in WriteMsg
        <3>1. w = t.msg
            BY <2>5 DEF WriteMsg
        <3> HIDE DEF u, w
        <3>2. u.msg = m => Composed(n, m)
            BY <2>1, <2>2, <3>1 DEF Composed
        <3> QED
            BY <1>t, <2>3, <3>2
    <2>6. CASE t.msg \in DeleteMsg
        <3>1. w.type = "Delete" /\ w.key = t.msg.key /\ t.msg.type = "Delete"
            BY <2>6 DEF DeleteMsg
        <3>3. requests' = requests
            BY <1>10 DEF Flag
        <3> HIDE DEF u, w
        <3>2. m = w => Honest(n, m)'
            BY <1>h, <1>i, <2>4, <2>6, <2>8, <3>1, <3>3 DEF Honest, Denies, WriteMsg, Below
        <3> QED
            BY <1>t, <2>2, <2>3, <3>2
    <2>9. CASE t.msg \in TruncateMsg
        <3>1. w.type = "Truncate" /\ t.msg.type = "Truncate"
            BY <2>9 DEF TruncateMsg
        <3> HIDE DEF u, w
        <3>2. m = w => Honest(n, m)'
            BY <1>h, <1>i, <2>8, <3>1 DEF Honest, Denies, WriteMsg, DeleteMsg
        <3> QED
            BY <1>t, <2>2, <2>3, <3>2
    <2>7. CASE t.msg \in AccessMsg
        <3>1. w.type = "Access" /\ w.owner = t.msg.owner /\ w.perm = t.msg.perm
              /\ t.msg.type = "Access"
            BY <2>7 DEF AccessMsg
        <3> HIDE DEF u, w
        <3>2. ASSUME m = w PROVE Honest(n, m)'
            <4>1. m \notin WriteMsg /\ m \notin DeleteMsg
                BY <3>1, <3>2 DEF WriteMsg, DeleteMsg
            <4>2. m.from = n /\ m.write_time <= clock'[n]
                BY <1>h, <1>i, <2>8, <3>1, <3>2
            <4>3. Denies(m, m.owner) => Denies(t.msg, t.msg.owner)
                BY <3>1, <3>2 DEF Denies
            <4>4. Denies(m, m.owner) => DenialAskedBy(t.msg)
                BY <2>4, <4>3 DEF Honest
            <4>5. DenialAskedBy(t.msg) => DenialAskedBy(m)'
                BY <1>h, <3>1, <3>2 DEF DenialAskedBy
            <4> QED
                BY <4>1, <4>2, <4>4, <4>5 DEF Honest
        <3> QED
            BY <1>t, <2>2, <2>3, <3>2
    <2> QED
        BY <2>1, <2>5, <2>6, <2>7, <2>9 DEF Msg
<1>11. CASE Gossip(n, c)
    <2>1. \A d \in Clients : task'[n][d] = IF d = c THEN None ELSE task[n][d]
        BY <1>11, <1>o DEF Gossip, TypeOK
    <2> QED
        BY <1>s, <2>1 DEF Composed
<1> QED
    BY <1>1, <1>2, <1>3, <1>4, <1>6, <1>7, <1>8, <1>9, <1>10, <1>11 DEF ClientStep

(* What a step publishes is credible.                                         *)
LEMMA ClientPublishes ==
    ASSUME OriginInv, TypeInv', NEW n \in Nodes, NEW c \in Clients, ClientStep(n, c),
           NEW m \in net'
    PROVE  Credible(m)'
<1>i. TypeInv /\ Sent /\ net \subseteq Msg /\ m \in Msg
    BY DEF OriginInv, TypeInv, TypeOK
<1>h. clock' = clock /\ requests \subseteq requests'
    BY HistoryGrows
<1>k. \A p \in Nodes : clock[p] <= clock'[p]
    BY <1>h, <1>i DEF TypeInv, TypeOK
<1>1. Credible(m)
    <2>1. CASE m \in net
        BY <1>i, <2>1 DEF Sent
    <2>2. CASE m \notin net
        <3>1. Gossip(n, c)
            BY <2>2 DEF ClientStep, InitApplication, Subscribe, SetRequest, SetRead,
               DelRead, TruncateRead, AccessRead, Change, Commit, Flag
        <3>2. /\ task[n][c] # None /\ task[n][c].msg \in Msg
              /\ m \in Readings(task[n][c].msg)
            BY <1>i, <2>2, <3>1 DEF Gossip, Publish, TypeInv, TaskShape
        <3>3. Honest(n, task[n][c].msg)
            BY <1>i, <3>2 DEF Sent, Composed
        <3> QED
            BY <1>i, <3>2, <3>3, ReadingsCredible
    <2> QED
        BY <2>1, <2>2
<1> QED
    BY <1>h, <1>i, <1>k, <1>1, CredibleKept

(* The network loop puts nothing on its way.                                  *)
LEMMA LoopSends ==
    ASSUME TypeInv, NEW n \in Nodes, LoopStep(n)
    PROVE  net' = net /\ \A m : Composed(n, m)' => Composed(n, m)
<1>o. TypeOK
    BY DEF TypeInv
<1>1. net' = net
    BY DEF LoopStep, ReceiveGossip, ReceiveIGive, StartMerge, FinishMerge
<1>2. CASE task' = task
    BY <1>1, <1>2 DEF Composed
<1>3. CASE task' = [task EXCEPT ![n] = OutdatedTasks(n)]
    <2>1. OutdatedTasks(n) \in [Clients -> Task \cup {None}]
        BY <1>o, OutdatedFacts
    <2>2. \A d \in Clients :
              /\ OutdatedTasks(n)[d] = None <=> task[n][d] = None
              /\ task[n][d] # None => OutdatedTasks(n)[d].msg = task[n][d].msg
        BY <1>o, OutdatedFacts
    <2>3. \A d \in Clients : task'[n][d] = OutdatedTasks(n)[d]
        BY <1>o, <1>3, <2>1 DEF TypeOK
    <2> QED
        BY <1>1, <2>2, <2>3 DEF Composed
<1> QED
    BY <1>2, <1>3 DEF LoopStep, ReceiveGossip, ReceiveIGive, StartMerge, FinishMerge

(* Later clocks and more requests keep a sound table sound.                   *)
LEMMA SoundKept ==
    ASSUME NEW n \in Nodes, NEW table \in Table, Sound(n, table),
           clock[n] \in Nat, clock'[n] \in Nat, clock[n] <= clock'[n],
           requests \subseteq requests'
    PROVE  Sound(n, table)'
<1>1. /\ Below(5)' => Asked(table)'
      /\ Below(2)' => DenialAsked(table)'
      /\ Stamped(table)'
    BY BelowKept DEF Sound, Asked, DenialAsked, Stamped
<1>2. Timely(n, table)'
    <2> SUFFICES ASSUME NEW o \in Owners, NEW k \in Keys, Has(table, o, k)
                 PROVE  table[o].data[k].data.at <= clock'[n] + MaxSkew
        BY DEF Timely
    <2>1. table[o].data[k] \in Units(Payloads)
        BY DEF Has, Table, Tables, Entries
    <2>2. table[o].data[k].data.at \in Nat
        BY <2>1 DEF Units, Payloads
    <2>3. table[o].data[k].data.at <= clock[n] + MaxSkew
        BY DEF Sound, Timely
    <2> QED
        BY <2>2, <2>3
<1> QED
    BY <1>1, <1>2 DEF Sound

(* A table a step makes is sound when those the node held were.               *)
LEMMA MadeSound ==
    ASSUME OriginInv, NEW n \in Nodes, NEW table, table # None, Made(n, table),
           clock' = clock, requests \subseteq requests'
    PROVE  table \in Table /\ Sound(n, table)'
<1>i. TypeInv /\ Skew /\ Sent /\ TablesSound
    BY DEF OriginInv
<1>t. clock \in [Nodes -> Nat] /\ net \subseteq Msg
    BY <1>i DEF TypeInv, TypeOK
<1>1. table \in Table
    BY <1>i, MadeGrounded
<1>2. ASSUME NEW o \in Owners, NEW k \in Keys, Has(table, o, k)
      PROVE  /\ Below(5) => [type |-> "Write", owner |-> o, key |-> k,
                              data |-> table[o].data[k].data] \in requests'
             /\ table[o].data[k].write_time + MaxSkew >= table[o].data[k].data.at
             /\ table[o].data[k].data.at <= clock'[n] + MaxSkew
    <2>1. UnitGrounded(n, table, o, k)
        BY <1>i, <1>2, MadeGrounded
    <2>2. CASE \E old : Holds(n, old) /\ Kept(old, table, o, k)
        <3> PICK old : Holds(n, old) /\ Kept(old, table, o, k)
            BY <2>2
        <3>1. Sound(n, old)
            BY <1>i DEF TablesSound
        <3>2. Has(old, o, k) /\ table[o].data[k] = old[o].data[k]
            BY DEF Kept
        <3> QED
            BY <3>1, <3>2 DEF Sound, Asked, Stamped, Timely
    <2>3. CASE \E m : /\ Written(m) /\ m.owner = o /\ m.key = k
                      /\ table[o].data[k] = [data |-> m.data, write_time |-> clock[n]]
        <3> PICK m : /\ Written(m) /\ m.owner = o /\ m.key = k
                     /\ table[o].data[k] = [data |-> m.data, write_time |-> clock[n]]
            BY <2>3
        <3>1. m \in WriteMsg /\ m \in Msg
            BY DEF Written, Msg
        <3>2. /\ m.data.at <= clock[m.from]
              /\ Below(5) => WriteAsked(m)
            <4>1. CASE m \in net
                BY <1>i, <3>1, <4>1 DEF Sent, Credible
            <4>2. CASE \E p \in Nodes : Composed(p, m)
                BY <1>i, <3>1, <4>2 DEF Sent, Honest
            <4> QED
                BY <4>1, <4>2 DEF Written
        <3>3. m.from \in Nodes /\ m.data.at \in Nat
            BY <3>1 DEF WriteMsg, Payloads
        <3>4. m.data.at <= clock[n] + MaxSkew
            <4>1. m.data.at <= clock[m.from]
                BY <3>2
            <4>2. clock[m.from] <= clock[n] + MaxSkew
                BY <1>i, <3>3 DEF Skew
            <4>3. clock[m.from] \in Nat /\ clock[n] \in Nat
                BY <1>t, <3>3
            <4> QED
                BY <3>3, <4>1, <4>2, <4>3
        <3>5. /\ table[o].data[k].data = m.data
              /\ table[o].data[k].write_time = clock[n]
            OBVIOUS
        <3>6. Below(5) =>
                  [type |-> "Write", owner |-> o, key |-> k, data |-> m.data] \in requests
            BY <3>2 DEF WriteAsked
        <3>7. clock[n] + MaxSkew >= m.data.at
            BY <1>t, <3>3, <3>4
        <3> QED
            BY <3>4, <3>5, <3>6, <3>7
    <2> QED
        BY <2>1, <2>2, <2>3 DEF UnitGrounded
<1>3. ASSUME NEW o \in Owners, Denied(table, o), Below(2)
      PROVE  [type |-> "Access", owner |-> o, perm |-> FALSE] \in requests'
    <2>1. DenialGrounded(n, table, o)
        BY <1>i, <1>3, MadeGrounded
    <2>2. CASE \E old : Holds(n, old) /\ Denied(old, o)
        BY <1>i, <1>3, <2>2 DEF TablesSound, Sound, DenialAsked, Denied
    <2>3. CASE \E m \in net : Denies(m, o) /\ m.write_time > 0
        <3> PICK m \in net : Denies(m, o) /\ m.write_time > 0
            BY <2>3
        <3>1. Credible(m) /\ m.owner = o
            BY <1>i DEF Sent, Denies
        <3> QED
            BY <1>3, <3>1 DEF Credible, DenialAskedBy
    <2> QED
        BY <2>1, <2>2, <2>3 DEF DenialGrounded
<1>4. Below(5)' => Asked(table)'
    BY <1>2, BelowKept DEF Asked
<1>5. Stamped(table)'
    BY <1>2 DEF Stamped
<1>6. Timely(n, table)'
    BY <1>2 DEF Timely
<1>7. Below(2)' => DenialAsked(table)'
    BY <1>3, BelowKept DEF DenialAsked, Denied
<1> QED
    BY <1>1, <1>4, <1>5, <1>6, <1>7 DEF Sound

LEMMA NodeStepSound ==
    ASSUME OriginInv, TypeInv', NEW n \in Nodes,
           LoopStep(n) \/ \E c \in Clients : ClientStep(n, c)
    PROVE  OriginInv'
<1>i. TypeInv /\ Skew /\ Sent /\ TablesSound
    BY DEF OriginInv
<1>h. clock' = clock /\ requests \subseteq requests'
    BY HistoryGrows
<1>t. clock \in [Nodes -> Nat]
    BY <1>i DEF TypeInv, TypeOK
<1>1. Skew'
    BY <1>h, <1>i DEF Skew
<1>k. \A p \in Nodes : clock[p] <= clock'[p]
    BY <1>h, <1>t
<1>2. Sent'
    <2>1. ASSUME NEW p \in Nodes, NEW m \in Msg, Composed(p, m)'
          PROVE  Honest(p, m)'
        <3>1. CASE Composed(p, m)
            <4>1. Honest(p, m)
                BY <1>i, <3>1 DEF Sent
            <4> QED
                BY <1>h, <1>i, <1>k, <4>1, HonestKept
        <3>2. CASE p # n
            <4>1. task'[p] = task[p]
                BY <1>i, <3>2, OthersUntouched
            <4> QED
                BY <2>1, <3>1, <4>1 DEF Composed
        <3>3. CASE p = n
            BY <1>i, <2>1, <3>1, <3>3, LoopSends, ClientSends
        <3> QED
            BY <3>2, <3>3
    <2>2. ASSUME NEW m \in net'
          PROVE  Credible(m)'
        <3>1. CASE LoopStep(n)
            <4>1. Credible(m) /\ m \in Msg
                BY <1>i, <2>2, <3>1, LoopSends DEF Sent, TypeInv, TypeOK
            <4> QED
                BY <1>h, <1>i, <1>k, <4>1, CredibleKept
        <3>2. CASE \E c \in Clients : ClientStep(n, c)
            BY <2>2, <3>2, ClientPublishes
        <3> QED
            BY <3>1, <3>2
    <2> QED
        BY <2>1, <2>2 DEF Sent
<1>3. TablesSound'
    <2> SUFFICES ASSUME NEW p \in Nodes, NEW table, Holds(p, table)'
                 PROVE  table \in Table /\ Sound(p, table)'
        BY DEF TablesSound
    <2>1. CASE Holds(p, table)
        <3>1. table \in Table /\ Sound(p, table)
            BY <1>i, <2>1 DEF TablesSound
        <3>2. clock[p] \in Nat /\ clock'[p] \in Nat /\ clock[p] <= clock'[p]
            BY <1>h, <1>t
        <3> QED
            BY <1>h, <3>1, <3>2, SoundKept
    <2>2. CASE p = n /\ Made(n, table)
        <3>1. table # None
            BY DEF Holds
        <3> QED
            BY <1>h, <2>2, <3>1, MadeSound
    <2>3. CASE p = n
        BY <1>i, <2>1, <2>2, <2>3, ClientHolds, LoopHolds
    <2>4. CASE p # n
        <3>1. apps'[p] = apps[p] /\ task'[p] = task[p] /\ loop'[p] = loop[p]
            BY <1>i, <2>4, OthersUntouched
        <3>2. Holds(p, table)
            BY <3>1 DEF Holds
        <3> QED
            BY <2>1, <3>2
    <2> QED
        BY <2>3, <2>4
<1> QED
    BY <1>1, <1>2, <1>3 DEF OriginInv

LEMMA TickSound ==
    ASSUME OriginInv, TypeInv', NEW n \in Nodes, Tick(n)
    PROVE  OriginInv'
<1>i. TypeInv /\ Skew /\ Sent /\ TablesSound
    BY DEF OriginInv
<1>t. clock \in [Nodes -> Nat]
    BY <1>i DEF TypeInv, TypeOK
<1>1. /\ UNCHANGED <<apps, task, loop, net, requests>>
      /\ \A p \in Nodes : clock'[p] = IF p = n THEN clock[n] + 1 ELSE clock[p]
    BY <1>t DEF Tick
<1>2. \A p \in Nodes : clock[p] \in Nat /\ clock'[p] \in Nat /\ clock[p] <= clock'[p]
    BY <1>t, <1>1
<1>3. Skew'
    <2> SUFFICES ASSUME NEW p \in Nodes, NEW q \in Nodes
                 PROVE  clock'[p] <= clock'[q] + MaxSkew
        BY DEF Skew
    <2>1. clock[p] <= clock[q] + MaxSkew
        BY <1>i DEF Skew
    <2>2. q # n => clock[n] + 1 <= clock[q] + MaxSkew
        BY DEF Tick
    <2> QED
        BY <1>1, <1>2, <2>1, <2>2
<1>4. Sent'
    <2>1. ASSUME NEW p \in Nodes, NEW m \in Msg, Composed(p, m)'
          PROVE  Honest(p, m)'
        <3>1. Composed(p, m)
            BY <1>1, <2>1 DEF Composed
        <3>2. Honest(p, m)
            BY <1>i, <3>1 DEF Sent
        <3> QED
            BY <1>1, <1>2, <1>i, <3>2, HonestKept
    <2>2. ASSUME NEW m \in net'
          PROVE  Credible(m)'
        <3>1. Credible(m) /\ m \in Msg
            BY <1>1, <1>i, <2>2 DEF Sent, TypeInv, TypeOK
        <3> QED
            BY <1>1, <1>2, <1>i, <3>1, CredibleKept
    <2> QED
        BY <2>1, <2>2 DEF Sent
<1>5. TablesSound'
    <2> SUFFICES ASSUME NEW p \in Nodes, NEW table, Holds(p, table)'
                 PROVE  table \in Table /\ Sound(p, table)'
        BY DEF TablesSound
    <2>1. Holds(p, table)
        BY <1>1 DEF Holds
    <2>2. table \in Table /\ Sound(p, table)
        BY <1>i, <2>1 DEF TablesSound
    <2> QED
        BY <1>1, <1>2, <2>2, SoundKept
<1> QED
    BY <1>3, <1>4, <1>5 DEF OriginInv

LEMMA OriginStep == OriginInv /\ [Next]_vars => OriginInv'
<1> SUFFICES ASSUME OriginInv, [Next]_vars PROVE OriginInv'
    OBVIOUS
<1>1. TypeInv'
    BY TypeStep DEF OriginInv
<1>2. CASE \E n \in Nodes : LoopStep(n) \/ \E c \in Clients : ClientStep(n, c)
    BY <1>1, <1>2, NodeStepSound
<1>3. CASE \E n \in Nodes : Tick(n)
    BY <1>1, <1>3, TickSound
<1>4. CASE UNCHANGED vars
    BY <1>1, <1>4 DEF OriginInv, Skew, Sent, Composed, Honest, Credible, WriteAsked,
       DenialAskedBy, Below, TablesSound, Holds, Sound, Asked, Stamped, DenialAsked, Timely, vars
<1> QED
    BY <1>2, <1>3, <1>4 DEF Next

(* What holds of every sound table holds of every table there is.             *)
LEMMA EveryTableSound ==
    OriginInv => Provenance /\ StampCoversOrigin /\ DeniedOnlyByRequest
<1> SUFFICES ASSUME OriginInv
             PROVE  Provenance /\ StampCoversOrigin /\ DeniedOnlyByRequest
    OBVIOUS
<1>n. None \notin Table
    BY NoneAssumption
<1>1. ASSUME NEW n \in Nodes
      PROVE  /\ apps[n] # None => Sound(n, apps[n])
             /\ (loop[n] # None /\ loop[n].pending # None) => Sound(n, loop[n].pending)
             /\ \A c \in Clients : (task[n][c] # None /\ task[n][c].pending # None) =>
                   Sound(n, task[n][c].pending)
    BY DEF OriginInv, TablesSound, Holds
<1>2. Provenance
    BY <1>1 DEF Provenance, EveryTable, Sound
<1>3. StampCoversOrigin
    BY <1>1 DEF StampCoversOrigin, EveryTable, Sound
<1>4. DeniedOnlyByRequest
    BY <1>1 DEF DeniedOnlyByRequest, EveryTable, Sound
<1> QED
    BY <1>2, <1>3, <1>4

LEMMA OriginCorrect == Spec => []OriginInv
BY OriginInit, OriginStep, PTL DEF Spec

(* A value is only ever found under the owner and the key it was set for, as  *)
(* long as nobody writes a key and a value with five separators: whatever the *)
(* receivers make of fewer, it is no write, no delete and no truncate.        *)
THEOREM ProvenanceCorrect == Spec => []Provenance
<1>1. OriginInv => Provenance
    BY EveryTableSound
<1> QED
    BY <1>1, OriginCorrect, PTL

(* The local stamp of a value is never older than the write it holds by more  *)
(* than the clocks differ, on any node and by any path the value took.        *)
THEOREM StampCorrect == Spec => []StampCoversOrigin
<1>1. OriginInv => StampCoversOrigin
    BY EveryTableSound
<1> QED
    BY <1>1, OriginCorrect, PTL

(* No node denies access to an owner's data that nobody asked it to deny, as  *)
(* long as nobody writes a key and a value with two separators.               *)
THEOREM DenialCorrect == Spec => []DeniedOnlyByRequest
<1>1. OriginInv => DeniedOnlyByRequest
    BY EveryTableSound
<1> QED
    BY <1>1, OriginCorrect, PTL

-----------------------------------------------------------------------------
(* The order of changes: tasks that do not overlap let no older value         *)
(* through.  The inductive invariant says what a copy of the table is worth   *)
(* that nobody has made stale.                                                *)

\* The write at time at is not older than what the table holds, by more than
\* the clocks differ.
UpToDate(here, at) ==
    \A o \in Owners, k \in Keys : Has(here, o, k) => here[o].data[k].data.at <= at + MaxSkew

\* What the new table changes of the message's owner is older than the message.
OnlyNewer(here, m, new) ==
    \A k \in Keys :
        (Has(here, m.owner, k) /\ new[m.owner].data[k] # here[m.owner].data[k]) =>
            m.write_time + MaxSkew > here[m.owner].data[k].data.at

\* A client task that nobody has made stale, beside the table of its node.
TaskOrdered(here, t) ==
    (t # None /\ ~t.stale) =>
        /\ t.phase = "read" => UpToDate(here, t.msg.data.at)
        /\ t.phase = "commit" => NotOlder(here, t.pending)

\* The same of the network loop.
LoopOrdered(here, h) ==
    (h # None /\ ~h.stale /\ h.pending # None) =>
        /\ Below(5) => NotOlder(here, h.pending)
        /\ OnlyNewer(here, h.msg, h.pending)

Ordered(n) ==
    /\ \A c \in Clients : TaskOrdered(Lookup(n), task[n][c])
    /\ LoopOrdered(Lookup(n), loop[n])

OrderInv == OriginInv /\ \A n \in Nodes : Ordered(n)

(* What nobody has touched stays in order: more requests claim less.          *)
LEMMA LoopOrderedKept ==
    ASSUME requests \subseteq requests', NEW here, NEW h, LoopOrdered(here, h)
    PROVE  LoopOrdered(here, h)'
<1>1. Below(5)' => Below(5)
    BY BelowKept
<1> QED
    BY <1>1 DEF LoopOrdered, NotOlder, OnlyNewer, Has

LEMMA OrderedKept ==
    ASSUME requests \subseteq requests', NEW n \in Nodes, Ordered(n),
           apps'[n] = apps[n], task'[n] = task[n], loop'[n] = loop[n]
    PROVE  Ordered(n)'
<1>1. Below(5)' => Below(5)
    BY BelowKept
<1>2. Lookup(n)' = Lookup(n)
    BY DEF Lookup
<1> QED
    BY <1>1, <1>2 DEF Ordered, TaskOrdered, LoopOrdered

LEMMA OrderInit == Init => OrderInv
<1>1. Init => \A n \in Nodes : Ordered(n)
    BY DEF Init, Ordered, TaskOrdered, LoopOrdered
<1> QED
    BY <1>1, OriginInit DEF OrderInv

LEMMA TimeOfUnit ==
    ASSUME NEW table \in Table, NEW o \in Owners, NEW k \in Keys, Has(table, o, k)
    PROVE  /\ table[o].data[k].data.at \in Nat
           /\ table[o].data[k].write_time \in Nat
<1>1. table[o] \in Entries(Payloads)
    BY DEF Table, Tables, Has
<1>2. table[o].data[k] \in Units(Payloads)
    BY <1>1 DEF Entries, Has
<1> QED
    BY <1>2 DEF Units, Payloads

(* A table whose units were all there before is not older.                    *)
LEMMA KeptNotOlder ==
    ASSUME NEW here \in Table, NEW new,
           \A o \in Owners, k \in Keys : Has(new, o, k) => Kept(here, new, o, k)
    PROVE  NotOlder(here, new)
BY TimeOfUnit DEF NotOlder, Kept

(* What a merge changes of its owner is not stamped later than the message.   *)
LEMMA MergeChanges ==
    ASSUME NEW here \in Table, NEW m \in Msg, NEW now \in Nat, Merge(here, m, now) # None,
           NEW k \in Keys, Has(here, m.owner, k),
           Merge(here, m, now)[m.owner].data[k] # here[m.owner].data[k]
    PROVE  m.write_time > here[m.owner].data[k].write_time
<1> DEFINE o == m.owner
<1>h. here \in Tables(Payloads) /\ here[o] # None /\ here[o] \in Entries(Payloads)
    BY DEF Table, Tables, Has, Msg, WriteMsg, DeleteMsg, TruncateMsg, AccessMsg
<1>d. here[o].data \in [Keys -> Units(Payloads) \cup {None}] /\ o \in Owners
    BY <1>h DEF Entries, Msg, WriteMsg, DeleteMsg, TruncateMsg, AccessMsg
<1>u. here[o].data[k] # None /\ here[o].data[k].write_time \in Nat
    BY <1>d, TimeOfUnit DEF Has
<1>s. \A data : SetData(here, o, data)[o].data = data
    BY <1>h, <1>d DEF SetData, Tables, Entries
<1>1. CASE m \in WriteMsg
    <2>1. m.type = "Write" /\ m.key \in Keys
        BY <1>1 DEF WriteMsg
    <2>2. /\ Merge(here, m, now) = Put(here, o, m.key, m.data, now)
          /\ m.write_time > StampOf(here, o, m.key)
        BY <1>h, <2>1 DEF Merge, MergeWrite
    <2>3. Merge(here, m, now)[o].data = DataMapInsert(here[o].data, m.key, m.data, now)
        BY <1>h, <1>s, <2>2 DEF Put
    <2>4. k = m.key
        BY <1>d, <2>1, <2>3 DEF DataMapInsert
    <2> QED
        BY <2>2, <2>4 DEF StampOf
<1>2. CASE m \in DeleteMsg
    <2>1. m.type = "Delete" /\ m.key \in Keys
        BY <1>2 DEF DeleteMsg
    <2>2. /\ Merge(here, m, now) = WithoutKey(here, o, m.key)
          /\ m.write_time > StampOf(here, o, m.key)
        BY <2>1 DEF Merge, MergeDelete
    <2>3. Merge(here, m, now)[o].data = [here[o].data EXCEPT ![m.key] = None]
        BY <1>s, <2>2 DEF WithoutKey
    <2>4. k = m.key
        BY <1>d, <2>1, <2>3
    <2> QED
        BY <2>2, <2>4 DEF StampOf
<1>3. CASE m \in TruncateMsg
    <2>1. m.type = "Truncate" /\ m.write_time \in Nat
        BY <1>3 DEF TruncateMsg
    <2>2. Merge(here, m, now)[o].data = Retained(here[o].data, m.write_time)
        BY <1>h, <1>s, <2>1 DEF Merge, MergeTruncate
    <2>3. ~(here[o].data[k].write_time >= m.write_time)
        BY <1>u, <2>2 DEF Retained
    <2> QED
        BY <1>u, <2>1, <2>3
<1>4. CASE m \in AccessMsg
    <2>1. m.type = "Access" /\ m.perm \in BOOLEAN
        BY <1>4 DEF AccessMsg
    <2>2. Merge(here, m, now) = WithAccess(here, o, m.perm, now)
        BY <2>1 DEF Merge, MergeAccess
    <2>3. WithAccess(here, o, m.perm, now)[o].data = here[o].data
        BY <1>h, <1>d DEF WithAccess, Tables, Entries
    <2> QED
        BY <2>2, <2>3
<1> QED
    BY <1>1, <1>2, <1>3, <1>4 DEF Msg

(* What a merge leaves is no older than what was there, and takes nothing     *)
(* newer away.                                                                *)
LEMMA MergeOrdered ==
    ASSUME OriginInv, NEW n \in Nodes, NEW m \in net,
           Merge(Lookup(n), m, clock[n]) # None
    PROVE  /\ Below(5) => NotOlder(Lookup(n), Merge(Lookup(n), m, clock[n]))
           /\ OnlyNewer(Lookup(n), m, Merge(Lookup(n), m, clock[n]))
<1> DEFINE here == Lookup(n)
           now == clock[n]
           new == Merge(here, m, now)
<1>1. here \in Table /\ Stamped(here)
    BY LookupSound DEF Sound
<1>2. now \in Nat /\ m \in Msg
    BY DEF OriginInv, TypeInv, TypeOK
<1>3. Credible(m)
    BY DEF OriginInv, Sent
<1>4. m.owner \in Owners /\ m.write_time \in Nat
    BY <1>2 DEF Msg, WriteMsg, DeleteMsg, TruncateMsg, AccessMsg
<1>5. MaxSkew \in Nat /\ new # None
    OBVIOUS
<1> HIDE DEF here, now
<1>6. ASSUME Below(5), NEW o \in Owners, NEW k \in Keys, Has(here, o, k), Has(new, o, k)
      PROVE  new[o].data[k].data.at + MaxSkew >= here[o].data[k].data.at
    <2>1. /\ here[o].data[k].data.at \in Nat /\ here[o].data[k].write_time \in Nat
          /\ here[o].data[k].write_time + MaxSkew >= here[o].data[k].data.at
        BY <1>1, <1>6, TimeOfUnit DEF Stamped
    <2>2. \/ Kept(here, new, o, k)
          \/ /\ m.type = "Write" /\ o = m.owner /\ k = m.key
             /\ new[o].data[k] = [data |-> m.data, write_time |-> now]
             /\ Has(here, o, k) => m.write_time > here[o].data[k].write_time
        BY <1>1, <1>2, <1>5, <1>6, MergeUnits
    <2>3. CASE Kept(here, new, o, k)
        BY <1>5, <2>1, <2>3 DEF Kept
    <2>4. CASE /\ m.type = "Write"
               /\ new[o].data[k] = [data |-> m.data, write_time |-> now]
               /\ Has(here, o, k) => m.write_time > here[o].data[k].write_time
        <3>1. m \in WriteMsg
            BY <1>2, <2>4 DEF Msg, WriteMsg, DeleteMsg, TruncateMsg, AccessMsg
        <3>2. new[o].data[k].data = m.data /\ m.data.at = m.write_time
            BY <1>3, <1>6, <2>4, <3>1 DEF Credible
        <3>3. m.write_time > here[o].data[k].write_time
            BY <1>6, <2>4
        <3> HIDE DEF new
        <3> QED
            BY <1>4, <1>5, <2>1, <3>2, <3>3
    <2> QED
        BY <2>2, <2>3, <2>4
<1>7. ASSUME NEW k \in Keys, Has(here, m.owner, k),
             new[m.owner].data[k] # here[m.owner].data[k]
      PROVE  m.write_time + MaxSkew > here[m.owner].data[k].data.at
    <2>1. m.write_time > here[m.owner].data[k].write_time
        BY <1>1, <1>2, <1>5, <1>7, MergeChanges
    <2>2. /\ here[m.owner].data[k].data.at \in Nat
          /\ here[m.owner].data[k].write_time \in Nat
          /\ here[m.owner].data[k].write_time + MaxSkew >= here[m.owner].data[k].data.at
        BY <1>1, <1>4, <1>7, TimeOfUnit DEF Stamped
    <2> QED
        BY <1>4, <1>5, <2>1, <2>2
<1> QED
    BY <1>6, <1>7 DEF NotOlder, OnlyNewer, here, now
-----------------------------------------------------------------------------
(* Every step keeps copies that are not stale in order                        *)

LEMMA ClientOrdered ==
    ASSUME OrderInv, NEW n \in Nodes, NEW c \in Clients, ClientStep(n, c)
    PROVE  Ordered(n)'
<1>o. TypeOK /\ TypeInv /\ OriginInv /\ Ordered(n)
    BY DEF OrderInv, OriginInv, TypeInv
<1>a. /\ OutdatedTasks(n) \in [Clients -> Task \cup {None}]
      /\ \A d \in Clients : OutdatedTasks(n)[d] = None \/ OutdatedTasks(n)[d].stale = TRUE
      /\ OutdatedLoop(n) = None \/ OutdatedLoop(n).stale = TRUE
    BY <1>o, OutdatedFacts
<1>l. Lookup(n) \in Table /\ Lookup(n) \in Tables(Payloads) /\ clock[n] \in Nat
    BY <1>o, LookupType DEF TypeOK, Table
<1>r. requests \subseteq requests'
    BY HistoryGrows
\* A step that leaves the table alone and gives its own task an ordered state.
<1>k. ASSUME apps' = apps, loop' = loop, NEW t, task' = [task EXCEPT ![n][c] = t],
             TaskOrdered(Lookup(n), t)
      PROVE  Ordered(n)'
    <2>1. \A d \in Clients : task'[n][d] = IF d = c THEN t ELSE task[n][d]
        BY <1>o, <1>k DEF TypeOK
    <2>2. Lookup(n)' = Lookup(n)
        BY <1>k DEF Lookup
    <2>3. LoopOrdered(Lookup(n), loop[n])'
        <3>1. PICK here, h : here = Lookup(n) /\ h = loop[n]
            OBVIOUS
        <3>2. LoopOrdered(here, h)'
            BY <1>o, <1>r, <3>1, LoopOrderedKept DEF Ordered
        <3> QED
            BY <1>k, <2>2, <3>1, <3>2
    <2> QED
        BY <1>k, <1>o, <2>1, <2>2, <2>3 DEF Ordered, TaskOrdered
\* A step that puts a table back makes every other copy stale.
<1>p. ASSUME loop' = [loop EXCEPT ![n] = OutdatedLoop(n)],
             NEW t, t.phase = "subscribe" \/ t.phase = "flag",
             task' = [task EXCEPT ![n] = [OutdatedTasks(n) EXCEPT ![c] = t]]
      PROVE  Ordered(n)'
    <2>1. \A d \in Clients : task'[n][d] = IF d = c THEN t ELSE OutdatedTasks(n)[d]
        BY <1>o, <1>a, <1>p DEF TypeOK
    <2>2. loop'[n] = OutdatedLoop(n)
        BY <1>o, <1>p DEF TypeOK
    <2>3. \A d \in Clients : TaskOrdered(Lookup(n), task[n][d])'
        BY <1>a, <1>p, <2>1 DEF TaskOrdered
    <2>4. LoopOrdered(Lookup(n), loop[n])'
        BY <1>a, <2>2 DEF LoopOrdered
    <2> QED
        BY <2>3, <2>4 DEF Ordered
<1>1. CASE InitApplication(n, c)
    <2> DEFINE t == [msg |-> None, pending |-> None, phase |-> "subscribe", stale |-> FALSE]
    <2>1. t.phase = "subscribe"
        OBVIOUS
    <2>2. /\ task' = [task EXCEPT ![n] = [OutdatedTasks(n) EXCEPT ![c] = t]]
          /\ loop' = [loop EXCEPT ![n] = OutdatedLoop(n)]
        BY <1>1 DEF InitApplication
    <2> HIDE DEF t
    <2> QED
        BY <1>p, <2>1, <2>2
<1>2. CASE Commit(n, c)
    <2> DEFINE t == [task[n][c] EXCEPT !.pending = None, !.phase = "flag"]
    <2>1. t.phase = "flag"
        BY <1>2, <1>o DEF Commit, TypeOK, Task
    <2>2. /\ task' = [task EXCEPT ![n] = [OutdatedTasks(n) EXCEPT ![c] = t]]
          /\ loop' = [loop EXCEPT ![n] = OutdatedLoop(n)]
        BY <1>2 DEF Commit
    <2> HIDE DEF t
    <2> QED
        BY <1>p, <2>1, <2>2
<1>3. CASE Subscribe(n, c) \/ Gossip(n, c)
    <2>1. TaskOrdered(Lookup(n), None)
        BY DEF TaskOrdered
    <2> QED
        BY <1>3, <1>k, <2>1 DEF Subscribe, Gossip
<1>4. CASE Flag(n, c)
    <2> DEFINE m == [task[n][c].msg EXCEPT !.write_time =
                        IF task[n][c].msg.type = "Write" THEN task[n][c].msg.write_time
                                                         ELSE clock[n]]
               t == [task[n][c] EXCEPT !.msg = m, !.phase = "gossip"]
    <2>1. t.phase = "gossip"
        BY <1>4, <1>o DEF Flag, TypeOK, Task
    <2>2. task' = [task EXCEPT ![n][c] = t] /\ apps' = apps /\ loop' = loop
        BY <1>4 DEF Flag
    <2> HIDE DEF t
    <2>3. TaskOrdered(Lookup(n), t)
        BY <2>1 DEF TaskOrdered
    <2> QED
        BY <1>k, <2>2, <2>3
<1>5. CASE \E o \in Owners, k \in Keys, v \in Values : SetRequest(n, c, o, k, v)
    <2> PICK o \in Owners, k \in Keys, v \in Values : SetRequest(n, c, o, k, v)
        BY <1>5
    <2> DEFINE m == [type |-> "Write", from |-> n, owner |-> o, key |-> k,
                     data |-> [val |-> v, at |-> clock[n]], write_time |-> clock[n]]
               t == [msg |-> m, pending |-> None, phase |-> "read", stale |-> FALSE]
    <2>1. t.phase = "read" /\ t.msg.data.at = clock[n]
        OBVIOUS
    <2>2. task' = [task EXCEPT ![n][c] = t] /\ apps' = apps /\ loop' = loop
        BY DEF SetRequest, Begin
    <2>3. UpToDate(Lookup(n), clock[n])
        BY <1>o, LookupSound DEF Sound, Timely, UpToDate
    <2> HIDE DEF t, m
    <2>4. TaskOrdered(Lookup(n), t)
        BY <2>1, <2>3 DEF TaskOrdered
    <2> QED
        BY <1>k, <2>2, <2>4
<1>6. CASE SetRead(n, c)
    <2> DEFINE s == task[n][c]
               new == Put(Lookup(n), s.msg.owner, s.msg.key, s.msg.data, clock[n])
               t == [s EXCEPT !.pending = new, !.phase = "commit"]
    <2>1. s \in Task /\ s # None /\ s.phase = "read" /\ s.msg \in WriteMsg
        BY <1>6, <1>o DEF TypeInv, TaskShape, TypeOK, SetRead
    <2>2. t.phase = "commit" /\ t.pending = new /\ t.stale = s.stale
        BY <2>1 DEF Task
    <2>3. task' = [task EXCEPT ![n][c] = t] /\ apps' = apps /\ loop' = loop
        BY <1>6 DEF SetRead
    <2>4. s.msg.owner \in Owners /\ s.msg.key \in Keys /\ s.msg.data \in Payloads
        BY <2>1 DEF WriteMsg
    <2>5. s.msg.data.at \in Nat
        BY <2>4 DEF Payloads
    <2>6. ASSUME ~s.stale PROVE NotOlder(Lookup(n), new)
        <3>1. UpToDate(Lookup(n), s.msg.data.at)
            BY <1>o, <2>1, <2>6 DEF Ordered, TaskOrdered
        <3>2. ASSUME NEW o \in Owners, NEW k \in Keys, Has(Lookup(n), o, k), Has(new, o, k)
              PROVE  new[o].data[k].data.at + MaxSkew >= Lookup(n)[o].data[k].data.at
            <4>1. \/ new[o].data[k] = [data |-> s.msg.data, write_time |-> clock[n]]
                  \/ Kept(Lookup(n), new, o, k)
                BY <1>l, <2>4, <3>2, NoneAssumption, PutUnits
            <4>2. Lookup(n)[o].data[k].data.at \in Nat
                BY <1>l, <3>2, TimeOfUnit
            <4>3. Lookup(n)[o].data[k].data.at <= s.msg.data.at + MaxSkew
                BY <3>1, <3>2 DEF UpToDate
            <4>4. CASE new[o].data[k] = [data |-> s.msg.data, write_time |-> clock[n]]
                <5>1. new[o].data[k].data = s.msg.data
                    BY <4>4
                <5> HIDE DEF new, s
                <5> QED
                    BY <2>5, <4>2, <4>3, <5>1
            <4>5. CASE Kept(Lookup(n), new, o, k)
                <5>1. new[o].data[k].data = Lookup(n)[o].data[k].data
                    BY <4>5 DEF Kept
                <5> HIDE DEF new, s
                <5> QED
                    BY <4>2, <5>1
            <4> QED
                BY <4>1, <4>4, <4>5
        <3> QED
            BY <3>2 DEF NotOlder
    <2> HIDE DEF t, new, s
    <2>7. TaskOrdered(Lookup(n), t)
        BY <2>2, <2>6 DEF TaskOrdered
    <2> QED
        BY <1>k, <2>3, <2>7
\* del, truncate and an access change add no unit.
<1>7. ASSUME NEW m, NEW new, Change(n, c, m, new),
             \A o \in Owners, k \in Keys : Has(new, o, k) => Kept(Lookup(n), new, o, k)
      PROVE  Ordered(n)'
    <2> DEFINE t == [msg |-> m, pending |-> new, phase |-> "commit", stale |-> FALSE]
    <2>1. t.phase = "commit" /\ t.pending = new
        OBVIOUS
    <2>2. task' = [task EXCEPT ![n][c] = t] /\ apps' = apps /\ loop' = loop
        BY <1>7 DEF Change, Begin
    <2> HIDE DEF t
    <2>3. NotOlder(Lookup(n), new)
        BY <1>l, <1>7, KeptNotOlder
    <2>4. TaskOrdered(Lookup(n), t)
        BY <2>1, <2>3 DEF TaskOrdered
    <2> QED
        BY <1>k, <2>2, <2>4
<1>8. CASE \E o \in Owners, k \in Keys : DelRead(n, c, o, k)
    <2> PICK p \in Owners, j \in Keys : DelRead(n, c, p, j)
        BY <1>8
    <2>1. \A o \in Owners, k \in Keys : Has(WithoutKey(Lookup(n), p, j), o, k) =>
              Kept(Lookup(n), WithoutKey(Lookup(n), p, j), o, k)
        BY <1>l, WithoutKeyFacts DEF DelRead, Readable
    <2> QED
        BY <1>7, <2>1 DEF DelRead
<1>9. CASE \E o \in Owners : TruncateRead(n, c, o)
    <2> PICK p \in Owners : TruncateRead(n, c, p)
        BY <1>9
    <2>1. \A o \in Owners, k \in Keys : Has(WithoutData(Lookup(n), p), o, k) =>
              Kept(Lookup(n), WithoutData(Lookup(n), p), o, k)
        BY <1>l, WithoutDataFacts DEF TruncateRead, Readable
    <2> QED
        BY <1>7, <2>1 DEF TruncateRead
<1>10. CASE \E o \in Owners, perm \in BOOLEAN : AccessRead(n, c, o, perm)
    <2> PICK p \in Owners, perm \in BOOLEAN : AccessRead(n, c, p, perm)
        BY <1>10
    <2>1. \A o \in Owners, k \in Keys : Has(WithAccess(Lookup(n), p, perm, clock[n]), o, k) =>
              Kept(Lookup(n), WithAccess(Lookup(n), p, perm, clock[n]), o, k)
        BY <1>l, WithAccessFacts DEF AccessRead
    <2> QED
        BY <1>7, <2>1 DEF AccessRead
<1> QED
    BY <1>1, <1>2, <1>3, <1>4, <1>5, <1>6, <1>8, <1>9, <1>10 DEF ClientStep

LEMMA LoopStepOrdered ==
    ASSUME OrderInv, NEW n \in Nodes, LoopStep(n)
    PROVE  Ordered(n)'
<1>o. TypeOK /\ OriginInv /\ Ordered(n)
    BY DEF OrderInv, OriginInv, TypeInv
<1>1. ASSUME NEW m \in net, NEW topic, StartMerge(n, m, topic)
      PROVE  Ordered(n)'
    <2> DEFINE new == Merge(Lookup(n), m, clock[n])
               h == [msg |-> m, pending |-> new, topic |-> topic, stale |-> FALSE]
    <2>1. h.msg = m /\ h.pending = new
        OBVIOUS
    <2>2. apps'[n] = Lookup(n) /\ loop'[n] = h /\ task' = task
        BY <1>1, <1>o DEF StartMerge, TypeOK
    <2>3. new # None =>
              (Below(5) => NotOlder(Lookup(n), new)) /\ OnlyNewer(Lookup(n), m, new)
        BY <1>o, MergeOrdered
    <2> HIDE DEF h, new
    <2>4. LoopOrdered(Lookup(n), h)
        BY <2>1, <2>3 DEF LoopOrdered
    <2>6. Below(5)' = Below(5)
        BY <1>1 DEF StartMerge, Below
    <2>5. Lookup(n)' = Lookup(n)
        <3>1. Lookup(n) # None
            BY <1>o, LookupType, NoneAssumption
        <3> QED
            BY <2>2, <3>1 DEF Lookup
    <2> QED
        BY <1>o, <2>2, <2>4, <2>5, <2>6 DEF Ordered, LoopOrdered, TaskOrdered
<1>2. CASE \E m \in net : ReceiveGossip(n, m) \/ ReceiveIGive(n, m)
    BY <1>1, <1>2 DEF ReceiveGossip, ReceiveIGive
<1>3. CASE FinishMerge(n)
    <2>1. loop'[n] = None
        BY <1>3, <1>o DEF FinishMerge, TypeOK
    <2>2. LoopOrdered(Lookup(n), loop[n])'
        BY <2>1 DEF LoopOrdered
    <2>3. CASE loop[n].pending = None
        <3>1. apps' = apps /\ task' = task
            BY <1>3, <2>3 DEF FinishMerge
        <3>2. Lookup(n)' = Lookup(n)
            BY <3>1 DEF Lookup
        <3> QED
            BY <1>o, <2>2, <3>1, <3>2 DEF Ordered, TaskOrdered
    <2>4. CASE loop[n].pending # None
        <3>1. task'[n] = OutdatedTasks(n)
            BY <1>3, <1>o, <2>4 DEF FinishMerge, TypeOK
        <3>2. \A d \in Clients : OutdatedTasks(n)[d] = None \/ OutdatedTasks(n)[d].stale = TRUE
            BY <1>o, OutdatedFacts
        <3>3. \A d \in Clients : TaskOrdered(Lookup(n), task[n][d])'
            BY <3>1, <3>2 DEF TaskOrdered
        <3> QED
            BY <2>2, <3>3 DEF Ordered
    <2> QED
        BY <2>3, <2>4
<1> QED
    BY <1>2, <1>3 DEF LoopStep

LEMMA OrderNext == OrderInv /\ [Next]_vars => OrderInv'
<1> SUFFICES ASSUME OrderInv, [Next]_vars PROVE OrderInv'
    OBVIOUS
<1>t. OriginInv' /\ TypeInv
    BY OriginStep DEF OrderInv, OriginInv
<1>1. ASSUME NEW n \in Nodes, LoopStep(n) \/ \E c \in Clients : ClientStep(n, c)
      PROVE  OrderInv'
    <2>1. \A p \in Nodes \ {n} :
              apps'[p] = apps[p] /\ task'[p] = task[p] /\ loop'[p] = loop[p]
        BY <1>1, <1>t, OthersUntouched
    <2>4. requests \subseteq requests'
        BY <1>1, HistoryGrows
    <2>2. ASSUME NEW p \in Nodes \ {n} PROVE Ordered(p)'
        BY <2>1, <2>4, OrderedKept DEF OrderInv
    <2>3. Ordered(n)'
        BY <1>1, ClientOrdered, LoopStepOrdered
    <2> QED
        BY <1>t, <2>2, <2>3 DEF OrderInv
<1>2. CASE UNCHANGED <<apps, task, loop, requests>>
    <2>1. ASSUME NEW n \in Nodes PROVE Ordered(n)'
        BY <1>2, OrderedKept DEF OrderInv
    <2> QED
        BY <1>t, <2>1 DEF OrderInv
<1>3. CASE UNCHANGED vars
    BY <1>2, <1>3 DEF vars
<1>4. CASE \E n \in Nodes : Tick(n)
    BY <1>2, <1>4 DEF Tick
<1> QED
    BY <1>1, <1>3, <1>4 DEF Next

LEMMA OrderCorrect == Spec => []OrderInv
BY OrderInit, OrderNext, PTL DEF Spec

-----------------------------------------------------------------------------
(* The action properties                                                      *)

LEMMA NewerStep ==
    OrderInv /\ [Next]_vars =>
        [\A n \in Nodes : \A k \in Keys :
            (/\ loop[n] # None /\ loop'[n] = None /\ ~loop[n].stale
             /\ apps[n] # None /\ Has(apps[n], loop[n].msg.owner, k)
             /\ apps'[n][loop[n].msg.owner].data[k] # apps[n][loop[n].msg.owner].data[k])
                => loop[n].msg.write_time + MaxSkew
                       > apps[n][loop[n].msg.owner].data[k].data.at]_vars
<1> SUFFICES ASSUME OrderInv, [Next]_vars, vars' # vars,
                    NEW n \in Nodes, NEW k \in Keys,
                    loop[n] # None, loop'[n] = None, ~loop[n].stale,
                    apps[n] # None, Has(apps[n], loop[n].msg.owner, k),
                    apps'[n][loop[n].msg.owner].data[k]
                        # apps[n][loop[n].msg.owner].data[k]
             PROVE  loop[n].msg.write_time + MaxSkew
                        > apps[n][loop[n].msg.owner].data[k].data.at
    OBVIOUS
<1>o. TypeOK /\ TypeInv /\ Ordered(n)
    BY DEF OrderInv, OriginInv, TypeInv
<1>l. Lookup(n) = apps[n]
    BY DEF Lookup
<1>1. CASE FinishMerge(n)
    <2>1. loop[n].pending # None /\ apps'[n] = loop[n].pending
        BY <1>1, <1>o DEF FinishMerge, TypeOK
    <2>2. OnlyNewer(apps[n], loop[n].msg, loop[n].pending)
        BY <1>o, <1>l, <2>1 DEF Ordered, LoopOrdered
    <2> QED
        BY <2>1, <2>2 DEF OnlyNewer
\* No other step ends the merge: it is in nobody else's hands.
<1>2. ASSUME NEW p \in Nodes, p # n, LoopStep(p) \/ \E c \in Clients : ClientStep(p, c)
      PROVE  FALSE
    BY <1>o, <1>2, OthersUntouched
<1>3. CASE \E m \in net : ReceiveGossip(n, m) \/ ReceiveIGive(n, m)
    BY <1>3 DEF ReceiveGossip, ReceiveIGive
<1>4. ASSUME NEW c \in Clients, ClientStep(n, c)
      PROVE  FALSE
    <2>1. loop' = loop \/ loop'[n] = OutdatedLoop(n)
        BY <1>4, <1>o DEF TypeOK, ClientStep, InitApplication, Subscribe, SetRequest, SetRead,
           DelRead, TruncateRead, AccessRead, Change, Commit, Flag, Gossip
    <2> QED
        BY <1>o, <2>1, OutdatedFacts
<1>5. CASE \E p \in Nodes : Tick(p)
    BY <1>5 DEF Tick
<1> QED
    BY <1>1, <1>2, <1>3, <1>4, <1>5 DEF Next, LoopStep

(* A late delete, truncate or write takes nothing newer away: what a merge    *)
(* changes of the message's owner was written before the message, up to the   *)
(* difference of the clocks (handle_gossiped_data and the stamps of           *)
(* DataMap::insert).                                                          *)
THEOREM MergesTakeOlder == Spec => MergedChangeIsNewer
BY OrderCorrect, NewerStep, PTL DEF Spec, MergedChangeIsNewer

LEMMA OlderStep ==
    OrderInv /\ [Next]_vars =>
        [\A n \in Nodes :
            (apps[n] # None /\ apps'[n] # None /\ ~StaleStep(n) /\ Below(5))
                => NotOlder(apps[n], apps'[n])]_vars
<1> SUFFICES ASSUME OrderInv, [Next]_vars, vars' # vars, NEW n \in Nodes,
                    apps[n] # None, apps'[n] # None, ~StaleStep(n), Below(5)
             PROVE  NotOlder(apps[n], apps'[n])
    OBVIOUS
<1>o. TypeOK /\ TypeInv /\ Ordered(n)
    BY DEF OrderInv, OriginInv, TypeInv
<1>l. Lookup(n) = apps[n] /\ apps[n] \in Table
    BY <1>o DEF Lookup, TypeOK
<1>s. CASE apps'[n] = apps[n]
    <2>1. NotOlder(apps[n], apps[n])
        BY <1>l, KeptNotOlder DEF Kept
    <2> QED
        BY <1>s, <2>1
<1>1. ASSUME NEW c \in Clients, ClientStep(n, c)
      PROVE  NotOlder(apps[n], apps'[n])
    <2>1. CASE InitApplication(n, c)
        <3>1. apps'[n] = FreshTable
            BY <1>o, <2>1 DEF InitApplication, TypeOK
        <3> QED
            BY <3>1, FreshTableFacts DEF NotOlder
    <2>2. CASE Commit(n, c)
        <3> DEFINE t == task[n][c]
                   u == [t EXCEPT !.pending = None, !.phase = "flag"]
        <3>1. t \in Task /\ t # None /\ t.phase = "commit"
            BY <1>o, <2>2 DEF Commit, TypeOK
        <3>2. u \in Task /\ u.phase = "flag"
            BY <3>1 DEF Task, Phases
        <3>3. u # None
            BY <3>2, NoneAssumption
        <3>4. /\ task' = [task EXCEPT ![n] = [OutdatedTasks(n) EXCEPT ![c] = u]]
              /\ apps'[n] = t.pending
            BY <1>o, <2>2 DEF Commit, TypeOK
        <3>5. OutdatedTasks(n) \in [Clients -> Task \cup {None}]
            BY <1>o, OutdatedFacts
        <3> HIDE DEF u
        <3>6. task'[n][c] = u
            BY <1>o, <3>4, <3>5 DEF TypeOK
        <3>7. ~t.stale
            BY <3>1, <3>2, <3>3, <3>6 DEF StaleStep
        <3> QED
            BY <1>l, <1>o, <3>1, <3>4, <3>7 DEF Ordered, TaskOrdered
    <2>3. CASE ~InitApplication(n, c) /\ ~Commit(n, c)
        <3>1. apps' = apps
            BY <1>1, <2>3 DEF ClientStep, Subscribe, SetRequest, SetRead,
               DelRead, TruncateRead, AccessRead, Change, Flag, Gossip
        <3> QED
            BY <1>s, <3>1
    <2> QED
        BY <2>1, <2>2, <2>3
<1>2. CASE \E m \in net : ReceiveGossip(n, m) \/ ReceiveIGive(n, m)
    <2>1. apps'[n] = apps[n]
        BY <1>2, <1>l, <1>o DEF ReceiveGossip, ReceiveIGive, StartMerge, TypeOK
    <2> QED
        BY <1>s, <2>1
<1>3. CASE FinishMerge(n)
    <2>1. loop[n] # None /\ loop'[n] = None
        BY <1>3, <1>o DEF FinishMerge, TypeOK
    <2>2. ~loop[n].stale
        BY <2>1 DEF StaleStep
    <2>3. CASE loop[n].pending = None
        BY <1>3, <1>s, <2>3 DEF FinishMerge
    <2>4. CASE loop[n].pending # None
        <3>1. apps'[n] = loop[n].pending
            BY <1>3, <1>o, <2>4 DEF FinishMerge, TypeOK
        <3> QED
            BY <1>l, <1>o, <2>1, <2>2, <2>4, <3>1 DEF Ordered, LoopOrdered
    <2> QED
        BY <2>3, <2>4
<1>4. ASSUME NEW p \in Nodes, p # n, LoopStep(p) \/ \E c \in Clients : ClientStep(p, c)
      PROVE  NotOlder(apps[n], apps'[n])
    BY <1>o, <1>s, <1>4, OthersUntouched
<1>5. CASE \E p \in Nodes : Tick(p)
    BY <1>5, <1>s DEF Tick
<1> QED
    BY <1>1, <1>2, <1>3, <1>4, <1>5 DEF Next, LoopStep

(* A value gives way to an older write only when two tasks of the node        *)
(* overlapped: comparing the gossiped time with the local stamp keeps old     *)
(* writes out (set_db_value, handle_gossiped_data), whatever the network      *)
(* delays or repeats, as long as the time that is read is the one sent.       *)
THEOREM OlderByOverlap == Spec => OlderOnlyByOverlap
BY OrderCorrect, OlderStep, PTL DEF Spec, OlderOnlyByOverlap
=============================================================================
