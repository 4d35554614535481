-------------------------- MODULE AppStoreTheorems --------------------------
(* What the operators on an application's table return and which units they   *)
(* leave in it, for tables over any set of values.                            *)
EXTENDS AppStore, TLAPS

\* The unit of owner o at key k in the new table is the one the old table had.
Kept(old, new, o, k) ==
    Has(old, o, k) /\ new[o].data[k] = old[o].data[k]

\* The table has an entry of owner o and its access bit is off.
Denied(table, o) == table[o] # None /\ ~table[o].access

(* Replacing the data of an owner changes nothing else.                       *)
LEMMA SetDataFacts ==
    ASSUME NEW Data, NEW table \in Tables(Data), NEW o \in Owners, table[o] # None,
           NEW data \in [Keys -> Units(Data) \cup {None}]
    PROVE  /\ SetData(table, o, data) \in [Owners -> Entries(Data) \cup {None}]
           /\ SetData(table, o, data)[o] \in Entries(Data)
           /\ SetData(table, o, data)[o].data = data
           /\ SetData(table, o, data)[o].access = table[o].access
           /\ \A p \in Owners \ {o} : SetData(table, o, data)[p] = table[p]
<1> DEFINE entry == [table[o] EXCEPT !.data = data]
<1>1. table[o] \in Entries(Data)
    BY DEF Tables
<1>2. entry \in Entries(Data) /\ entry.data = data /\ entry.access = table[o].access
    BY <1>1 DEF Entries
<1>3. SetData(table, o, data) = [table EXCEPT ![o] = entry]
    BY DEF SetData
<1> QED
    BY <1>2, <1>3 DEF Tables

(* The write of set_db_value and of a merged gossip message gives a table     *)
(* again.                                                                     *)
LEMMA PutType ==
    ASSUME NEW Data, NEW table \in Tables(Data),
           NEW o \in Owners, NEW k \in Keys, NEW v \in Data, NEW now \in Nat,
           None \notin Entries(Data)
    PROVE  Put(table, o, k, v, now) \in Tables(Data)
<1> DEFINE unit == [data |-> v, write_time |-> now]
<1>1. unit \in Units(Data)
    BY DEF Units
<1>2. EmptyData \in [Keys -> Units(Data) \cup {None}]
    BY DEF EmptyData
<1>3. CASE table[o] = None
    <2>1. DataMapInsert(EmptyData, k, v, now) \in [Keys -> Units(Data) \cup {None}]
        BY <1>1, <1>2 DEF DataMapInsert
    <2>2. NewEntry(DataMapInsert(EmptyData, k, v, now)) \in Entries(Data)
        BY <2>1 DEF NewEntry, Entries
    <2> QED
        BY <1>3, <2>2 DEF Put, Tables
<1>4. CASE table[o] # None
    <2>1. DataMapInsert(table[o].data, k, v, now) \in [Keys -> Units(Data) \cup {None}]
        BY <1>1, <1>4 DEF DataMapInsert, Entries, Tables
    <2> QED
        BY <1>4, <2>1, SetDataFacts DEF Put, Tables
<1> QED
    BY <1>3, <1>4

(* It changes one unit: that one is the value, stamped now, and every other   *)
(* unit was there before.                                                     *)
LEMMA PutUnits ==
    ASSUME NEW Data, NEW table \in Tables(Data),
           NEW o \in Owners, NEW k \in Keys, NEW v \in Data, NEW now \in Nat,
           None \notin Entries(Data), None \notin Units(Data),
           NEW p \in Owners, NEW j \in Keys,
           Has(Put(table, o, k, v, now), p, j)
    PROVE  \/ /\ p = o /\ j = k
              /\ Put(table, o, k, v, now)[p].data[j] = [data |-> v, write_time |-> now]
           \/ Kept(table, Put(table, o, k, v, now), p, j)
<1>1. CASE table[o] = None
    <2>1. Put(table, o, k, v, now)[o].data = DataMapInsert(EmptyData, k, v, now)
        BY <1>1 DEF Put, NewEntry, Tables
    <2>2. CASE p = o
        BY <2>1, <2>2 DEF Has, DataMapInsert, EmptyData
    <2>3. CASE p # o
        BY <1>1, <2>3 DEF Put, Has, Kept, Tables
    <2> QED
        BY <2>2, <2>3
<1>2. CASE table[o] # None
    <2>1. table[o].data \in [Keys -> Units(Data) \cup {None}]
        BY <1>2 DEF Entries, Tables
    <2> DEFINE data == DataMapInsert(table[o].data, k, v, now)
    <2>2. data \in [Keys -> Units(Data) \cup {None}]
        BY <2>1 DEF DataMapInsert, Units
    <2>3. Put(table, o, k, v, now) = SetData(table, o, data)
        BY <1>2 DEF Put
    <2>4. /\ SetData(table, o, data)[o].data = data
          /\ \A q \in Owners \ {o} : SetData(table, o, data)[q] = table[q]
        BY <1>2, <2>2, SetDataFacts
    <2>5. CASE p = o /\ j = k
        BY <2>1, <2>3, <2>4, <2>5 DEF DataMapInsert
    <2>6. CASE p = o /\ j # k
        <3>1. data[j] = table[o].data[j]
            BY <2>1, <2>6 DEF DataMapInsert
        <3> QED
            BY <1>2, <2>3, <2>4, <2>6, <3>1 DEF Has, Kept
    <2>7. CASE p # o
        BY <2>3, <2>4, <2>7 DEF Has, Kept
    <2> QED
        BY <2>5, <2>6, <2>7
<1> QED
    BY <1>1, <1>2

(* The access bit of an owner whose entry a write makes is on, and a write    *)
(* leaves the bits of the entries that are there alone.                       *)
LEMMA PutAccess ==
    ASSUME NEW Data, NEW table \in Tables(Data),
           NEW o \in Owners, NEW k \in Keys, NEW v \in Data, NEW now \in Nat,
           None \notin Entries(Data),
           NEW p \in Owners, Denied(Put(table, o, k, v, now), p)
    PROVE  Denied(table, p)
<1>1. CASE table[o] = None
    BY <1>1 DEF Denied, Put, NewEntry, Tables
<1>2. CASE table[o] # None
    <2>1. DataMapInsert(table[o].data, k, v, now) \in [Keys -> Units(Data) \cup {None}]
        BY <1>2 DEF DataMapInsert, Entries, Units, Tables
    <2> QED
        BY <1>2, <2>1, SetDataFacts DEF Denied, Put
<1> QED
    BY <1>1, <1>2

(* Replacing the data of an owner by a part of it gives a table whose units   *)
(* were all there before and whose access bits are the same.                  *)
LEMMA SetDataPart ==
    ASSUME NEW Data, NEW table \in Tables(Data), NEW o \in Owners, table[o] # None,
           NEW data \in [Keys -> Units(Data) \cup {None}],
           \A j \in Keys : data[j] # None => data[j] = table[o].data[j]
    PROVE  /\ SetData(table, o, data) \in Tables(Data)
           /\ \A p \in Owners, j \in Keys :
                 Has(SetData(table, o, data), p, j) =>
                     Kept(table, SetData(table, o, data), p, j)
           /\ \A p \in Owners : SetData(table, o, data)[p] # None =>
                 /\ table[p] # None
                 /\ SetData(table, o, data)[p].access = table[p].access
<1>1. /\ SetData(table, o, data) \in Tables(Data)
      /\ SetData(table, o, data)[o].data = data
      /\ SetData(table, o, data)[o].access = table[o].access
      /\ \A p \in Owners \ {o} : SetData(table, o, data)[p] = table[p]
    BY SetDataFacts DEF Tables
<1>2. ASSUME NEW p \in Owners, NEW j \in Keys, Has(SetData(table, o, data), p, j)
      PROVE  Kept(table, SetData(table, o, data), p, j)
    <2>1. CASE p = o
        BY <1>1, <1>2, <2>1 DEF Has, Kept
    <2>2. CASE p # o
        BY <1>1, <1>2, <2>2 DEF Has, Kept
    <2> QED
        BY <2>1, <2>2
<1> QED
    BY <1>1, <1>2

(* Both ways a client removes units are of that kind.                         *)
LEMMA WithoutKeyFacts ==
    ASSUME NEW Data, NEW table \in Tables(Data),
           NEW o \in Owners, NEW k \in Keys, table[o] # None
    PROVE  /\ WithoutKey(table, o, k) \in Tables(Data)
           /\ \A p \in Owners, j \in Keys :
                 Has(WithoutKey(table, o, k), p, j) =>
                     Kept(table, WithoutKey(table, o, k), p, j)
           /\ \A p \in Owners : WithoutKey(table, o, k)[p] # None =>
                 /\ table[p] # None
                 /\ WithoutKey(table, o, k)[p].access = table[p].access
<1> DEFINE data == [table[o].data EXCEPT ![k] = None]
<1>1. table[o].data \in [Keys -> Units(Data) \cup {None}]
    BY DEF Tables, Entries
<1>2. /\ data \in [Keys -> Units(Data) \cup {None}]
      /\ \A j \in Keys : data[j] # None => data[j] = table[o].data[j]
    BY <1>1
<1>3. WithoutKey(table, o, k) = SetData(table, o, data)
    BY DEF WithoutKey
<1> HIDE DEF data
<1> QED
    BY <1>2, <1>3, SetDataPart

LEMMA WithoutDataFacts ==
    ASSUME NEW Data, NEW table \in Tables(Data), NEW o \in Owners, table[o] # None
    PROVE  /\ WithoutData(table, o) \in Tables(Data)
           /\ \A p \in Owners, j \in Keys :
                 Has(WithoutData(table, o), p, j) => Kept(table, WithoutData(table, o), p, j)
           /\ \A p \in Owners : WithoutData(table, o)[p] # None =>
                 /\ table[p] # None
                 /\ WithoutData(table, o)[p].access = table[p].access
<1>1. /\ EmptyData \in [Keys -> Units(Data) \cup {None}]
      /\ \A j \in Keys : EmptyData[j] = None
    BY DEF EmptyData
<1> QED
    BY <1>1, SetDataPart DEF WithoutData

(* Changing an access bit gives a table with the same units.                  *)
LEMMA WithAccessFacts ==
    ASSUME NEW Data, NEW table \in Tables(Data), NEW o \in Owners, table[o] # None,
           NEW perm \in BOOLEAN, NEW now \in Nat
    PROVE  /\ WithAccess(table, o, perm, now) \in Tables(Data)
           /\ \A p \in Owners, j \in Keys :
                 Has(WithAccess(table, o, perm, now), p, j) =>
                     Kept(table, WithAccess(table, o, perm, now), p, j)
           /\ WithAccess(table, o, perm, now)[o].access = perm
           /\ \A p \in Owners \ {o} : WithAccess(table, o, perm, now)[p] = table[p]
<1> DEFINE entry == [table[o] EXCEPT !.access = perm, !.access_modification_time = now]
<1>1. table[o] \in Entries(Data)
    BY DEF Tables
<1>2. entry \in Entries(Data)
    BY <1>1 DEF Entries
<1>3. WithAccess(table, o, perm, now) = [table EXCEPT ![o] = entry]
    BY DEF WithAccess
<1>4. /\ \A p \in Owners \ {o} : WithAccess(table, o, perm, now)[p] = table[p]
      /\ WithAccess(table, o, perm, now)[o] = entry
    BY <1>3 DEF Tables
<1>5. entry.data = table[o].data /\ entry.access = perm
    BY <1>1 DEF Entries
<1> QED
    BY <1>2, <1>3, <1>4, <1>5 DEF Has, Kept, Tables
=============================================================================
