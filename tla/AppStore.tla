------------------------------ MODULE AppStore ------------------------------
(* The in-memory table of one application, as every part of the node handles  *)
(* it (prelude.rs): a hashtable from the DID of a data owner to an entry, the *)
(* entry holding the owner's access bit, the time that bit was last changed   *)
(* and a map from keys to data units.                                         *)
(*                                                                            *)
(* A map is a total function whose value at an absent key is None.  A unit's  *)
(* own access bit is left out: each of the places that builds a unit sets it  *)
(* to true and none clears it, so only the entry's bit ever denies anything.  *)
(* The entry's IPFS address (cid) is the business of the image upload and no  *)
(* operator below reads it.                                                   *)
EXTENDS Naturals

CONSTANTS
    Owners,  \* DIDs that own data: users, and the application itself
    Keys,    \* keys of data units
    None     \* the absent entry, unit, table or task

Units(Data) == [data : Data, write_time : Nat]

Entries(Data) ==
    [access : BOOLEAN,
     access_modification_time : Nat,
     data : [Keys -> Units(Data) \cup {None}]]

Tables(Data) == [Owners -> Entries(Data) \cup {None}]

EmptyData  == [k \in Keys |-> None]
EmptyTable == [o \in Owners |-> None]

NewEntry(data) ==
    [access |-> TRUE, access_modification_time |-> 0, data |-> data]

\* Faulty variant: a value that replaces another keeps its stamp.
DataMapInsertKeepsStamp(data, k, v, now) ==
    [data EXCEPT ![k] =
        [data |-> v, write_time |-> IF @ = None THEN now ELSE @.write_time]]

\* DataMap::insert stamps the unit with the clock of the machine it runs on,
\* whoever wrote the value and whenever.
DataMapInsert(data, k, v, now) ==
    [data EXCEPT ![k] = [data |-> v, write_time |-> now]]

\* HashTableData::set_data
SetData(table, o, data) == [table EXCEPT ![o].data = data]

\* Faulty variant: the first write of an owner builds the table anew.
PutAlone(table, o, k, v, now) ==
    IF table[o] = None
    THEN [EmptyTable EXCEPT ![o] = NewEntry(DataMapInsert(EmptyData, k, v, now))]
    ELSE SetData(table, o, DataMapInsert(table[o].data, k, v, now))

\* The write of set_db_value: into the owner's entry, or into a new entry
\* beside those of the other owners.
Put(table, o, k, v, now) ==
    IF table[o] = None
    THEN [table EXCEPT ![o] = NewEntry(DataMapInsert(EmptyData, k, v, now))]
    ELSE SetData(table, o, DataMapInsert(table[o].data, k, v, now))

\* Faulty variant: a deleted unit stays behind without its value.
WithoutKeyTombstone(table, o, k) == [table EXCEPT ![o].data[k].data = None]

WithoutKey(table, o, k) == SetData(table, o, [table[o].data EXCEPT ![k] = None])
WithoutData(table, o)   == SetData(table, o, EmptyData)

WithAccess(table, o, perm, now) ==
    [table EXCEPT ![o].access = perm, ![o].access_modification_time = now]

\* What get, exists, del, keys and truncate require before they touch the data
\* of an owner: the entry is there and its access bit is on.
Readable(table, o) == table[o] # None /\ table[o].access

Has(table, o, k) == table[o] # None /\ table[o].data[k] # None

-----------------------------------------------------------------------------
(* handle_gossiped_data: what one gossiped change does to a table.  Merge     *)
(* gives the table the handler saves, or None when it saves nothing.          *)

\* Faulty variant: the handler forgets the stamp of the unit it has.
StampForgotten(table, o, k) == 0

\* The stamp a gossiped write or delete is compared with; a key that is not
\* there counts as a unit written at time zero.
StampOf(table, o, k) == IF Has(table, o, k) THEN table[o].data[k].write_time ELSE 0

\* A write for an owner the table does not know builds the table anew, with
\* that one entry in it.
MergeWrite(table, m, now) ==
    IF table[m.owner] = None
    THEN [EmptyTable EXCEPT ![m.owner] =
              NewEntry(DataMapInsert(EmptyData, m.key, m.data, now))]
    ELSE IF m.write_time > StampOf(table, m.owner, m.key)
         THEN Put(table, m.owner, m.key, m.data, now)
         ELSE None

MergeDelete(table, m) ==
    IF /\ Has(table, m.owner, m.key)
       /\ m.write_time > StampOf(table, m.owner, m.key)
    THEN WithoutKey(table, m.owner, m.key)
    ELSE None

\* Faulty variant: the comparison of the retained units is turned around.
RetainedReversed(data, t) ==
    [k \in Keys |->
        IF data[k] # None /\ data[k].write_time <= t THEN data[k] ELSE None]

Retained(data, t) ==
    [k \in Keys |->
        IF data[k] # None /\ data[k].write_time >= t THEN data[k] ELSE None]

MergeTruncate(table, m) ==
    IF table[m.owner] = None
    THEN None
    ELSE SetData(table, m.owner, Retained(table[m.owner].data, m.write_time))

\* Faulty variant: the permission is read the wrong way round.
MergeAccessInverted(table, m, now) ==
    IF /\ table[m.owner] # None
       /\ m.write_time > table[m.owner].access_modification_time
    THEN WithAccess(table, m.owner, ~m.perm, now)
    ELSE None

MergeAccess(table, m, now) ==
    IF /\ table[m.owner] # None
       /\ m.write_time > table[m.owner].access_modification_time
    THEN WithAccess(table, m.owner, m.perm, now)
    ELSE None

Merge(table, m, now) ==
    CASE m.type = "Write"    -> MergeWrite(table, m, now)
      [] m.type = "Delete"   -> MergeDelete(table, m)
      [] m.type = "Truncate" -> MergeTruncate(table, m)
      [] m.type = "Access"   -> MergeAccess(table, m, now)
=============================================================================
