--------------------------- MODULE DataImageProofs --------------------------
(* Proofs about DataImage, for any owners, any contents and any number of     *)
(* changes.                                                                   *)
EXTENDS DataImage, TLAPS

USE DataImageAssumption, NamesAssumption

-----------------------------------------------------------------------------
(* Tables and addresses                                                       *)

\* The addresses in table t, those of image i, are of contents in s.
Known(t, s) == \A o \in Owners : t[o] # None => t[o].cid \in s \cup {NoCid}
Named(i, s) == \A o \in Owners : i[o] \in s \cup {None, NoCid}

LEMMA NamesApart ==
    /\ None \notin Tables /\ NoCid \notin Tables /\ Left \notin Tables
    /\ None \notin Images /\ NoCid \notin Images /\ Left \notin Images
OBVIOUS

LEMMA AbsentFacts ==
    ASSUME NEW s PROVE Absent \in Tables /\ Known(Absent, s)
BY DEF Absent, Tables, Known

LEMMA AddressesFacts ==
    ASSUME NEW t \in Tables
    PROVE  /\ Addresses(t) \in Images
           /\ \A s : Known(t, s) => Named(Addresses(t), s)
BY DEF Addresses, Tables, Images, Entry, Known, Named

LEMMA WithDataFacts ==
    ASSUME NEW t \in Tables, NEW o \in Owners, NEW v \in Contents, NEW s
    PROVE  /\ WithData(t, o, v) \in Tables
           /\ Known(t, s) => Known(WithData(t, o, v), s)
<1> DEFINE new == WithData(t, o, v)
<1>1. FreshEntry(v) \in Entry /\ FreshEntry(v).cid = NoCid
    BY DEF FreshEntry, Entry, Cids
<1>2. t[o] # None => /\ [t[o] EXCEPT !.data = v] \in Entry
                     /\ [t[o] EXCEPT !.data = v].cid = t[o].cid
    BY DEF Tables, Entry
<1>3. new \in Tables
    BY <1>1, <1>2 DEF WithData, Tables
<1>4. \A p \in Owners : p # o => new[p] = t[p]
    BY DEF WithData, Tables
<1>5. new[o] = IF t[o] = None THEN FreshEntry(v) ELSE [t[o] EXCEPT !.data = v]
    BY DEF WithData, Tables
<1> QED
    BY <1>1, <1>2, <1>3, <1>4, <1>5 DEF Known

LEMMA PutFacts ==
    ASSUME snapshot \in Tables, NEW o \in Owners, snapshot[o] # None, NEW cid \in Cids
    PROVE  /\ Put(o, cid) \in Tables
           /\ \A p \in Owners : p # o => Put(o, cid)[p] = snapshot[p]
           /\ Put(o, cid)[o] = [data |-> snapshot[o].data, cid |-> cid]
           /\ Put(o, cid)[o] # None
           /\ \A s : Known(snapshot, s) /\ cid \in s \cup {NoCid} => Known(Put(o, cid), s)
<1>1. snapshot[o] \in Entry
    BY DEF Tables
<1>2. /\ [snapshot[o] EXCEPT !.cid = cid] = [data |-> snapshot[o].data, cid |-> cid]
      /\ [data |-> snapshot[o].data, cid |-> cid] \in Entry
    BY <1>1 DEF Entry
<1>3. Put(o, cid)[o] = [snapshot[o] EXCEPT !.cid = cid]
    BY DEF Put, Tables
<1>4. \A p \in Owners : p # o => Put(o, cid)[p] = snapshot[p]
    BY DEF Put, Tables
<1>5. Put(o, cid) \in Tables
    BY <1>2 DEF Put, Tables
<1> QED
    BY <1>2, <1>3, <1>4, <1>5 DEF Known

LEMMA FilledFacts ==
    ASSUME NEW t \in Tables, NEW fetched \in SUBSET Owners, NEW s
    PROVE  /\ Filled(t, fetched) \in Tables
           /\ Known(t, s) => Known(Filled(t, fetched), s)
<1> DEFINE new == Filled(t, fetched)
<1>1. ASSUME NEW o \in Owners
      PROVE  /\ new[o] \in Entry \cup {None}
             /\ new[o] # None => t[o] # None /\ new[o].cid = t[o].cid
    <2>1. CASE o \in fetched /\ t[o] # None /\ t[o].cid # NoCid
        <3>1. t[o] \in Entry /\ t[o].cid \in Contents
            BY <2>1 DEF Tables, Entry, Cids, Contents
        <3>2. new[o] = [t[o] EXCEPT !.data = t[o].cid]
            BY <2>1 DEF Filled
        <3> QED
            BY <2>1, <3>1, <3>2 DEF Entry
    <2>2. CASE ~(o \in fetched /\ t[o] # None /\ t[o].cid # NoCid)
        BY <2>2 DEF Filled, Tables
    <2> QED
        BY <2>1, <2>2
<1>2. new \in Tables
    BY <1>1 DEF Filled, Tables
<1> QED
    BY <1>1, <1>2 DEF Known

LEMMA UnfilledFacts ==
    ASSUME NEW i \in Images
    PROVE  /\ Unfilled(i) \in Tables
           /\ \A o \in Owners : Unfilled(i)[o] # None =>
                 Unfilled(i)[o].data = Empty /\ Unfilled(i)[o].cid = i[o]
           /\ Addresses(Unfilled(i)) = i
           /\ \A s : Named(i, s) => Known(Unfilled(i), s)
<1>1. \A o \in Owners : i[o] # None => [data |-> Empty, cid |-> i[o]] \in Entry
    BY DEF Images, Entry, Contents
<1>2. Unfilled(i) \in Tables
    BY <1>1 DEF Unfilled, Tables
<1>3. \A o \in Owners : Unfilled(i)[o] # None =>
          i[o] # None /\ Unfilled(i)[o].data = Empty /\ Unfilled(i)[o].cid = i[o]
    BY DEF Unfilled
<1>4. Addresses(Unfilled(i)) = i
    <2>1. \A o \in Owners : Addresses(Unfilled(i))[o] = i[o]
        BY <1>1 DEF Addresses, Unfilled
    <2> QED
        BY <2>1 DEF Addresses, Images
<1> QED
    BY <1>2, <1>3, <1>4 DEF Known, Named

-----------------------------------------------------------------------------
(* Types                                                                      *)

LEMMA TypeOKInit == Init => TypeOK
<1>1. Absent \in Tables
    BY AbsentFacts
<1>2. 0 \in 0 .. MaxChanges /\ 0 \in 0 .. MaxJoins
    OBVIOUS
<1>3. Init => todo \subseteq {o \in Owners : snapshot[o] # None}
    BY DEF Init
<1> QED
    BY <1>1, <1>2, <1>3 DEF Init, TypeOK

LEMMA TypeOKReplace ==
    ASSUME TypeOK, NEW t \in Tables, Replace(t)
    PROVE  /\ table' \in Tables /\ snapshot' \in Tables
           /\ contract' \in Images \cup {NoCid} /\ image' \in Images \cup {NoCid}
           /\ disturbed' \in BOOLEAN /\ missed' \in BOOLEAN
           /\ stored' \subseteq Values
           /\ pc' \in {"idle", "asked", "copy", "owners", "image", "publish", "clear"}
           /\ todo' \subseteq {o \in Owners : snapshot'[o] # None}
BY DEF TypeOK, Replace, passVars

LEMMA TypeOKPass ==
    ASSUME TypeOK, UpdateDataImage
    PROVE  TypeOK'
<1>1. CASE StartPass
    BY <1>1 DEF StartPass, TypeOK, nodeVars, counters
<1>a. CASE Decide
    BY <1>a DEF Decide, TypeOK, nodeVars, counters
<1>b. CASE NoPass
    BY <1>b DEF NoPass, TypeOK, nodeVars, counters, history
<1>2. CASE CopyTable
    BY <1>2 DEF CopyTable, TypeOK, nodeVars, counters, history
<1>3. CASE OwnersDone
    BY <1>3 DEF OwnersDone, TypeOK, nodeVars, counters, history
<1>4. CASE SkipImage
    BY <1>4 DEF SkipImage, TypeOK, nodeVars, counters
<1>5. CASE EndPass
    BY <1>5 DEF EndPass, TypeOK, counters
<1>6. ASSUME NEW o \in Owners, SkipOwner(o) PROVE TypeOK'
    BY <1>6 DEF SkipOwner, TypeOK, nodeVars, counters
<1>7. ASSUME NEW o \in Owners, NEW cid \in Cids, UploadOwner(o, cid) PROVE TypeOK'
    <2>1. table' \in Tables
        BY <1>7, PutFacts DEF UploadOwner, TypeOK
    <2>2. stored' \subseteq Values
        BY <1>7 DEF UploadOwner, Uploaded, TypeOK, Cids
    <2> QED
        BY <1>7, <2>1, <2>2 DEF UploadOwner, TypeOK, counters
<1>8. ASSUME NEW cid \in Images \cup {NoCid}, SaveImage(cid) PROVE TypeOK'
    BY <1>8 DEF SaveImage, TypeOK, counters
<1>9. ASSUME NEW done \in BOOLEAN, PublishImage(done) PROVE TypeOK'
    BY <1>9 DEF PublishImage, TypeOK, nodeVars, counters
<1> QED
    BY <1>1, <1>a, <1>b, <1>2, <1>3, <1>4, <1>5, <1>6, <1>7, <1>8, <1>9
       DEF UpdateDataImage

LEMMA TypeOKOthers ==
    ASSUME TypeOK, Others
    PROVE  TypeOK'
<1>a. Absent \in Tables
    BY AbsentFacts
<1>1. ASSUME NEW o \in Owners, NEW v \in Contents, StartCommand(o, v) PROVE TypeOK'
    <2>1. [step |-> "put", copy |-> WithData(table, o, v)] \in Commands
        BY WithDataFacts DEF Commands, TypeOK
    <2> QED
        BY <1>1, <2>1 DEF StartCommand, TypeOK, passVars, history, counters
<1>2. ASSUME NEW o \in Owners, NEW v \in Contents, HearChange(o, v) PROVE TypeOK'
    BY <1>2 DEF HearChange, RaiseFlag, TypeOK, passVars, history, counters
<1>3. CASE PutCopy
    <2>1. command \in Commands
        BY <1>3 DEF PutCopy, TypeOK
    <2>2. command.copy \in Tables
        BY <2>1 DEF Commands
    <2>3. command' \in Commands
        BY <1>3, <1>a, <2>1 DEF PutCopy, Commands
    <2>4. Replace(command.copy)
        BY <1>3 DEF PutCopy
    <2> QED
        BY <1>3, <2>2, <2>3, <2>4, TypeOKReplace DEF PutCopy, Replace, TypeOK
<1>4. CASE FlagCommand
    BY <1>4 DEF FlagCommand, RaiseFlag, TypeOK, passVars, history, counters
<1>5. CASE MergeChange
    <2>1. gossip[1] \in Owners /\ gossip[2] \in Contents
        BY <1>5 DEF MergeChange, TypeOK
    <2> DEFINE t == WithData(IF table[gossip[1]] = None THEN Absent ELSE table,
                             gossip[1], gossip[2])
    <2>2. t \in Tables
        BY <1>a, <2>1, WithDataFacts DEF TypeOK
    <2>3. Replace(t)
        BY <1>5 DEF MergeChange
    <2> QED
        BY <1>5, <2>2, <2>3, TypeOKReplace DEF MergeChange, Replace, TypeOK
<1>6. CASE StartLeave
    <2>1. [step |-> "leave", copy |-> Absent] \in Commands
        BY <1>a DEF Commands
    <2> QED
        BY <1>6, <1>a, <2>1, TypeOKReplace DEF StartLeave, Replace, TypeOK
<1>7. CASE EndLeave
    BY <1>7 DEF EndLeave, TypeOK, passVars, counters
<1>8. CASE FetchImage
    <2>1. contract \in Images
        BY <1>8 DEF FetchImage, TypeOK
    <2>2. [step |-> "add", copy |-> Unfilled(contract)] \in Commands
        BY <2>1, UnfilledFacts DEF Commands
    <2> QED
        BY <1>8, <2>2 DEF FetchImage, CanJoin, TypeOK, passVars, history
<1>9. CASE AddImage
    <2>1. command \in Commands /\ command.copy \in Tables
        BY <1>9 DEF AddImage, TypeOK, Commands
    <2>2. command' \in Commands
        BY <1>9, <2>1 DEF AddImage, Commands
    <2>3. loading' \in Loadings
        BY <1>9, <2>1 DEF AddImage, Loadings
    <2>4. Replace(command.copy) /\ failed' \in BOOLEAN
        BY <1>9 DEF AddImage, TypeOK
    <2> QED
        BY <1>9, <2>1, <2>2, <2>3, <2>4, TypeOKReplace DEF AddImage, Replace, TypeOK
<1>c. ASSUME NEW cid \in Cids, UploadFirst(cid) PROVE TypeOK'
    <2>1. [data |-> Empty, cid |-> cid] \in Entry
        BY DEF Entry, Contents
    <2>2. [Absent EXCEPT ![App] = [data |-> Empty, cid |-> cid]] \in Tables
        BY <1>a, <2>1 DEF Tables
    <2>3. command' \in Commands
        BY <1>c, <2>2 DEF UploadFirst, Commands
    <2>4. stored' \subseteq Values
        BY <1>c DEF UploadFirst, Uploaded, TypeOK, Cids
    <2> QED
        BY <1>c, <2>3, <2>4 DEF UploadFirst, CanJoin, TypeOK, passVars, history
<1>d. CASE AddFirst
    <2>1. command \in Commands /\ command.copy \in Tables
        BY <1>d DEF AddFirst, TypeOK, Commands
    <2>2. command' \in Commands
        BY <1>d, <2>1 DEF AddFirst, Commands
    <2>3. Replace(command.copy)
        BY <1>d DEF AddFirst
    <2> QED
        BY <1>d, <2>1, <2>2, <2>3, TypeOKReplace DEF AddFirst, Replace, TypeOK
<1>e. CASE EndJoin
    <2>1. command \in Commands /\ command.copy \in Tables
        BY <1>e DEF EndJoin, TypeOK, Commands
    <2>2. Addresses(command.copy) \in Images
        BY <2>1, AddressesFacts
    <2> QED
        BY <1>e, <2>2 DEF EndJoin, TypeOK, passVars, counters
<1>10. ASSUME NEW fetched \in SUBSET Owners, Localize(fetched) PROVE TypeOK'
    <2>1. loading \in Loadings
        BY <1>10 DEF Localize, TypeOK
    <2>2. loading.entries \in Tables
        BY <2>1 DEF Loadings
    <2>3. Filled(loading.entries, fetched) \in Tables
        BY <2>2, FilledFacts
    <2>4. loading' \in Loadings
        BY <1>10, <1>a DEF Localize, Loadings
    <2>5. Replace(Filled(loading.entries, fetched))
        BY <1>10 DEF Localize
    <2> QED
        BY <1>10, <2>3, <2>4, <2>5, TypeOKReplace DEF Localize, Replace, TypeOK
<1>11. CASE FlagLocalized
    BY <1>11 DEF FlagLocalized, RaiseFlag, TypeOK, passVars, history, counters
<1>12. CASE Crash
    BY <1>12, <1>a DEF Crash, TypeOK, counters
<1> QED
    BY <1>1, <1>2, <1>3, <1>4, <1>5, <1>6, <1>7, <1>8, <1>9, <1>c, <1>d, <1>e,
       <1>10, <1>11, <1>12 DEF Others

LEMMA TypeOKNext == TypeOK /\ [Next]_vars => TypeOK'
<1> SUFFICES ASSUME TypeOK, [Next]_vars PROVE TypeOK'
    OBVIOUS
<1>1. CASE UNCHANGED vars
    BY <1>1 DEF vars, TypeOK, counters
<1> QED
    BY <1>1, TypeOKPass, TypeOKOthers DEF Next

(* Whatever the interleaving of uploads, commands, gossip, joins and crashes, *)
(* every variable keeps its type, and a pass only comes to owners of entries  *)
(* of its snapshot (update_data_image, network.rs 1821-1945).                 *)
THEOREM TypeCorrect == Spec => []TypeOK
<1> QED
    BY TypeOKInit, TypeOKNext, PTL DEF Spec

-----------------------------------------------------------------------------
(* Whatever address is noted, its contents are on IPFS.  The steps to come put *)
(* back the table a command copied, that of the snapshot, and the entries a    *)
(* join makes from the image: their addresses have to be known as well.        *)

AllKnown ==
    /\ Known(table, stored) /\ Known(snapshot, stored)
    /\ command # None => Known(command.copy, stored)
    /\ loading # None => Known(loading.entries, stored)
    /\ contract \in Images => Named(contract, stored)
    /\ cids \in Images => Named(cids, stored)
    /\ image \in Images => Named(image, stored)

LEMMA AllKnownInit == Init => AllKnown
<1>1. Known(Absent, stored)
    BY AbsentFacts
<1> QED
    BY <1>1, NamesApart DEF Init, AllKnown

LEMMA KnownGrows ==
    ASSUME NEW s, NEW r, s \subseteq r
    PROVE  /\ \A t : Known(t, s) => Known(t, r)
           /\ \A i : Named(i, s) => Named(i, r)
BY DEF Known, Named

LEMMA AllKnownGrows ==
    ASSUME AllKnown, stored \subseteq stored',
           UNCHANGED <<table, snapshot, command, loading, contract, cids, image>>
    PROVE  AllKnown'
BY KnownGrows DEF AllKnown

LEMMA AllKnownReplace ==
    ASSUME AllKnown, NEW t, Known(t, stored), Replace(t),
           command' # None => Known(command'.copy, stored),
           loading' # None => Known(loading'.entries, stored),
           cids' = cids
    PROVE  AllKnown'
BY DEF AllKnown, Replace, passVars

LEMMA AllKnownPass ==
    ASSUME TypeOK, AllKnown, UpdateDataImage
    PROVE  AllKnown'
<1>1. CASE StartPass
    BY <1>1, AllKnownGrows DEF StartPass, nodeVars, counters
<1>a. CASE Decide
    BY <1>a, AllKnownGrows DEF Decide, nodeVars
<1>b. CASE NoPass
    BY <1>b, AllKnownGrows DEF NoPass, nodeVars
<1>2. CASE CopyTable
    BY <1>2 DEF CopyTable, AllKnown, nodeVars, counters
<1>3. CASE OwnersDone
    BY <1>3, AllKnownGrows DEF OwnersDone, nodeVars, counters
<1>4. CASE SkipImage
    BY <1>4, AllKnownGrows DEF SkipImage, nodeVars, counters
<1>5. CASE EndPass
    BY <1>5, AllKnownGrows DEF EndPass
<1>6. ASSUME NEW o \in Owners, SkipOwner(o) PROVE AllKnown'
    BY <1>6, AllKnownGrows DEF SkipOwner, nodeVars, counters
<1>7. ASSUME NEW o \in Owners, NEW cid \in Cids, UploadOwner(o, cid) PROVE AllKnown'
    <2>1. /\ stored \subseteq stored' /\ cid \in stored' \cup {NoCid}
          /\ table' = Put(o, cid)
          /\ UNCHANGED <<snapshot, command, loading, contract, cids, image>>
        BY <1>7 DEF UploadOwner, Uploaded
    <2>2. Known(snapshot, stored')
        BY <2>1, KnownGrows DEF AllKnown
    <2>3. Known(Put(o, cid), stored')
        BY <1>7, <2>1, <2>2, PutFacts DEF UploadOwner, TypeOK
    <2>4. /\ command # None => Known(command.copy, stored')
          /\ loading # None => Known(loading.entries, stored')
          /\ contract \in Images => Named(contract, stored')
          /\ cids \in Images => Named(cids, stored')
          /\ image \in Images => Named(image, stored')
        BY <2>1, KnownGrows DEF AllKnown
    <2> QED
        BY <2>1, <2>2, <2>3, <2>4 DEF AllKnown
<1>8. ASSUME NEW cid \in Images \cup {NoCid}, SaveImage(cid) PROVE AllKnown'
    <2>1. cid \in Images => Named(cid, stored)
        BY <1>8, AddressesFacts, NamesApart DEF SaveImage, TypeOK, AllKnown
    <2> QED
        BY <1>8, <2>1 DEF SaveImage, AllKnown
<1>9. ASSUME NEW done \in BOOLEAN, PublishImage(done) PROVE AllKnown'
    BY <1>9 DEF PublishImage, AllKnown, nodeVars, counters
<1> QED
    BY <1>1, <1>a, <1>b, <1>2, <1>3, <1>4, <1>5, <1>6, <1>7, <1>8, <1>9
       DEF UpdateDataImage

LEMMA AllKnownOthers ==
    ASSUME TypeOK, AllKnown, Others
    PROVE  AllKnown'
<1>a. Absent \in Tables /\ Known(Absent, stored)
    BY AbsentFacts
<1>1. ASSUME NEW o \in Owners, NEW v \in Contents, StartCommand(o, v) PROVE AllKnown'
    <2>1. Known(WithData(table, o, v), stored)
        BY WithDataFacts DEF TypeOK, AllKnown
    <2> QED
        BY <1>1, <2>1 DEF StartCommand, AllKnown, passVars, counters
<1>2. ASSUME NEW o \in Owners, NEW v \in Contents, HearChange(o, v) PROVE AllKnown'
    BY <1>2, AllKnownGrows DEF HearChange, RaiseFlag, passVars, counters
<1>3. CASE PutCopy
    <2>1. command \in Commands
        BY <1>3 DEF PutCopy, TypeOK
    <2>2. command'.copy = Absent
        BY <1>3, <2>1 DEF PutCopy, Commands
    <2>3. Known(command.copy, stored) /\ Replace(command.copy)
        BY <1>3 DEF PutCopy, AllKnown
    <2>4. UNCHANGED <<loading, cids>>
        BY <1>3 DEF PutCopy
    <2> QED
        BY <1>a, <2>2, <2>3, <2>4, AllKnownReplace DEF AllKnown
<1>4. CASE FlagCommand
    BY <1>4 DEF FlagCommand, RaiseFlag, AllKnown, passVars, counters
<1>5. CASE MergeChange
    <2>1. gossip[1] \in Owners /\ gossip[2] \in Contents
        BY <1>5 DEF MergeChange, TypeOK
    <2> DEFINE old == IF table[gossip[1]] = None THEN Absent ELSE table
               t == WithData(old, gossip[1], gossip[2])
    <2>2. old \in Tables /\ Known(old, stored)
        BY <1>a DEF TypeOK, AllKnown
    <2>3. Known(t, stored)
        BY <2>1, <2>2, WithDataFacts
    <2>4. Replace(t) /\ UNCHANGED <<command, loading, cids>>
        BY <1>5 DEF MergeChange
    <2> HIDE DEF t
    <2> QED
        BY <2>3, <2>4, AllKnownReplace DEF AllKnown
<1>6. CASE StartLeave
    <2>1. command'.copy = Absent /\ Replace(Absent) /\ UNCHANGED <<loading, cids>>
        BY <1>6 DEF StartLeave
    <2> QED
        BY <1>a, <2>1, AllKnownReplace DEF AllKnown
<1>7. CASE EndLeave
    BY <1>7, NamesApart DEF EndLeave, AllKnown, passVars, counters
<1>8. CASE FetchImage
    <2>1. contract \in Images
        BY <1>8 DEF FetchImage, TypeOK
    <2>2. Known(Unfilled(contract), stored) /\ command'.copy = Unfilled(contract)
        BY <1>8, <2>1, UnfilledFacts DEF FetchImage, AllKnown
    <2> QED
        BY <1>8, <2>2 DEF FetchImage, AllKnown, passVars
<1>9. CASE AddImage
    <2>1. command # None /\ command \in Commands /\ Known(command.copy, stored)
        BY <1>9 DEF AddImage, AllKnown, TypeOK
    <2>2. command'.copy = command.copy /\ loading'.entries = command.copy
        BY <1>9, <2>1 DEF AddImage, Commands
    <2>3. Replace(command.copy) /\ cids' = cids
        BY <1>9 DEF AddImage
    <2> QED
        BY <2>1, <2>2, <2>3, AllKnownReplace
<1>c. ASSUME NEW cid \in Cids, UploadFirst(cid) PROVE AllKnown'
    <2>1. stored \subseteq stored' /\ cid \in stored' \cup {NoCid}
        BY <1>c DEF UploadFirst, Uploaded
    <2>2. /\ Known(table, stored') /\ Known(snapshot, stored')
          /\ loading # None => Known(loading.entries, stored')
          /\ contract \in Images => Named(contract, stored')
          /\ cids \in Images => Named(cids, stored')
          /\ image \in Images => Named(image, stored')
        BY <2>1, KnownGrows DEF AllKnown
    <2> DEFINE t == [Absent EXCEPT ![App] = [data |-> Empty, cid |-> cid]]
    <2>3. \A o \in Owners : t[o] # None => t[o].cid = cid
        BY DEF Absent
    <2>4. Known(t, stored')
        BY <2>1, <2>3 DEF Known
    <2>5. command'.copy = t
        BY <1>c DEF UploadFirst
    <2> HIDE DEF t
    <2> QED
        BY <1>c, <2>2, <2>4, <2>5 DEF UploadFirst, AllKnown, passVars
<1>d. CASE AddFirst
    <2>1. command # None /\ command \in Commands /\ Known(command.copy, stored)
        BY <1>d DEF AddFirst, AllKnown, TypeOK
    <2>2. command'.copy = command.copy
        BY <1>d, <2>1 DEF AddFirst, Commands
    <2>3. Replace(command.copy) /\ UNCHANGED <<loading, cids>>
        BY <1>d DEF AddFirst
    <2> QED
        BY <2>1, <2>2, <2>3, AllKnownReplace DEF AllKnown
<1>e. CASE EndJoin
    <2>1. command # None /\ command \in Commands /\ Known(command.copy, stored)
        BY <1>e DEF EndJoin, AllKnown, TypeOK
    <2>2. Named(Addresses(command.copy), stored)
        BY <2>1, AddressesFacts DEF Commands
    <2> QED
        BY <1>e, <2>2, NamesApart DEF EndJoin, AllKnown, passVars, counters
<1>10. ASSUME NEW fetched \in SUBSET Owners, Localize(fetched) PROVE AllKnown'
    <2>1. loading \in Loadings
        BY <1>10 DEF Localize, TypeOK
    <2>2. loading.entries \in Tables
        BY <2>1 DEF Loadings
    <2> DEFINE t == Filled(loading.entries, fetched)
    <2>3. Known(t, stored)
        BY <1>10, <2>2, FilledFacts DEF Localize, AllKnown
    <2>4. Replace(t) /\ loading'.entries = Absent /\ UNCHANGED <<command, cids>>
        BY <1>10 DEF Localize
    <2> HIDE DEF t
    <2> QED
        BY <1>a, <2>3, <2>4, AllKnownReplace DEF AllKnown
<1>11. CASE FlagLocalized
    BY <1>11 DEF FlagLocalized, RaiseFlag, AllKnown, passVars, counters
<1>12. CASE Crash
    BY <1>12, <1>a, NamesApart DEF Crash, AllKnown
<1> QED
    BY <1>1, <1>2, <1>3, <1>4, <1>5, <1>6, <1>7, <1>8, <1>9, <1>c, <1>d, <1>e,
       <1>10, <1>11, <1>12 DEF Others

LEMMA AllKnownNext == TypeOK /\ AllKnown /\ [Next]_vars => AllKnown'
<1> SUFFICES ASSUME TypeOK, AllKnown, [Next]_vars PROVE AllKnown'
    OBVIOUS
<1>1. CASE UNCHANGED vars
    BY <1>1 DEF vars, AllKnown
<1> QED
    BY <1>1, AllKnownPass, AllKnownOthers DEF Next

LEMMA AllKnownComplete == TypeOK /\ AllKnown => ImageComplete
<1> SUFFICES ASSUME TypeOK, AllKnown PROVE ImageComplete
    OBVIOUS
<1>1. Named(Addresses(table), stored)
    BY AddressesFacts DEF TypeOK, AllKnown
<1> QED
    BY <1>1 DEF TypeOK, AllKnown, ImageComplete, OnIpfs, Named

(* After any crash, failed upload, lost transaction or race, the image the    *)
(* contract points to, the one the node takes for it and its table name       *)
(* nothing that was not uploaded before (update_data_image, network.rs        *)
(* 1852-1930).                                                                *)
THEOREM ImageAlwaysComplete == Spec => []ImageComplete
<1>1. Init => TypeOK /\ AllKnown
    BY TypeOKInit, AllKnownInit
<1>2. TypeOK /\ AllKnown /\ [Next]_vars => (TypeOK /\ AllKnown)'
    BY TypeOKNext, AllKnownNext
<1>3. TypeOK /\ AllKnown => ImageComplete
    BY AllKnownComplete
<1> QED
    BY <1>1, <1>2, <1>3, PTL DEF Spec

-----------------------------------------------------------------------------
(* An upload changes no data.  What it puts is the snapshot, so as long as     *)
(* nobody else puts a table, the data of table and snapshot are the same.      *)

SameData == \A o \in Owners : DataOf(table, o) = DataOf(snapshot, o)

Undisturbed ==
    ~disturbed =>
        /\ pc = "owners" => SameData
        /\ pc \in {"asked", "copy", "owners", "image"} => cids # Left

LEMMA PutKeepsData ==
    ASSUME TypeOK, NEW o \in Owners, NEW cid \in Cids, UploadOwner(o, cid)
    PROVE  \A p \in Owners : DataOf(table', p) = DataOf(snapshot, p)
<1>1. table' = Put(o, cid) /\ snapshot[o] # None /\ snapshot \in Tables
    BY DEF UploadOwner, TypeOK
<1>2. /\ \A p \in Owners : p # o => Put(o, cid)[p] = snapshot[p]
      /\ Put(o, cid)[o] = [data |-> snapshot[o].data, cid |-> cid]
      /\ Put(o, cid)[o] # None
    BY <1>1, PutFacts
<1>3. Put(o, cid)[o].data = snapshot[o].data
    BY <1>2
<1> QED
    BY <1>1, <1>2, <1>3 DEF DataOf

LEMMA PassUndisturbed ==
    ASSUME TypeOK, Undisturbed, UpdateDataImage
    PROVE  /\ Undisturbed'
           /\ ~disturbed => /\ \A o \in Owners : DataOf(table', o) = DataOf(table, o)
                            /\ cids = Left => cids' = Left
<1> DEFINE Keeps == ~disturbed =>
               /\ \A o \in Owners : DataOf(table', o) = DataOf(table, o)
               /\ cids = Left => cids' = Left
<1>1. CASE StartPass
    BY <1>1 DEF StartPass, Undisturbed, nodeVars
<1>a. CASE Decide
    BY <1>a DEF Decide, Undisturbed, nodeVars
<1>b. CASE NoPass
    BY <1>b DEF NoPass, Undisturbed, nodeVars, history
<1>2. CASE CopyTable
    BY <1>2 DEF CopyTable, Undisturbed, SameData, nodeVars, history
<1>3. CASE OwnersDone
    BY <1>3 DEF OwnersDone, Undisturbed, nodeVars, history
<1>4. CASE SkipImage
    BY <1>4 DEF SkipImage, Undisturbed, nodeVars
<1>5. CASE EndPass
    BY <1>5 DEF EndPass, Undisturbed
<1>6. ASSUME NEW o \in Owners, SkipOwner(o) PROVE Undisturbed' /\ Keeps
    BY <1>6 DEF SkipOwner, Undisturbed, SameData, nodeVars
<1>7. ASSUME NEW o \in Owners, NEW cid \in Cids, UploadOwner(o, cid)
      PROVE  Undisturbed' /\ Keeps
    <2>1. /\ pc = "owners"
          /\ UNCHANGED <<snapshot, pc, cids, disturbed>>
        BY <1>7 DEF UploadOwner
    <2>2. \A p \in Owners : DataOf(table', p) = DataOf(snapshot, p)
        BY <1>7, PutKeepsData
    <2>3. SameData'
        BY <2>1, <2>2 DEF SameData, DataOf
    <2>4. Keeps
        BY <2>1, <2>2 DEF Undisturbed, SameData
    <2> QED
        BY <2>1, <2>3, <2>4 DEF Undisturbed
<1>8. ASSUME NEW cid \in Images \cup {NoCid}, SaveImage(cid) PROVE Undisturbed' /\ Keeps
    BY <1>8 DEF SaveImage, Undisturbed
<1>9. ASSUME NEW done \in BOOLEAN, PublishImage(done) PROVE Undisturbed' /\ Keeps
    BY <1>9 DEF PublishImage, Undisturbed, nodeVars
<1> QED
    BY <1>1, <1>a, <1>b, <1>2, <1>3, <1>4, <1>5, <1>6, <1>7, <1>8, <1>9
       DEF UpdateDataImage

LEMMA OthersUndisturbed ==
    ASSUME TypeOK, Undisturbed, Others
    PROVE  Undisturbed'
<1>1. ASSUME NEW t, Replace(t), cids' = cids PROVE Undisturbed'
    BY <1>1 DEF Replace, Copied, Undisturbed, passVars, TypeOK
<1>2. ASSUME NEW o \in Owners, NEW v \in Contents, StartCommand(o, v) PROVE Undisturbed'
    BY <1>2 DEF StartCommand, Undisturbed, SameData, passVars, history
<1>3. ASSUME NEW o \in Owners, NEW v \in Contents, HearChange(o, v) PROVE Undisturbed'
    BY <1>3 DEF HearChange, RaiseFlag, Undisturbed, SameData, passVars, history
<1>4. CASE PutCopy
    BY <1>1, <1>4 DEF PutCopy
<1>5. CASE FlagCommand
    BY <1>5 DEF FlagCommand, RaiseFlag, Undisturbed, SameData, passVars, history
<1>6. CASE MergeChange
    BY <1>1, <1>6 DEF MergeChange
<1>7. CASE StartLeave
    BY <1>1, <1>7 DEF StartLeave
<1>8. CASE EndLeave
    BY <1>8 DEF EndLeave, Undisturbed, passVars, TypeOK
<1>9. CASE FetchImage
    BY <1>9 DEF FetchImage, Undisturbed, SameData, passVars, history
<1>10. CASE AddImage
    BY <1>1, <1>10 DEF AddImage
<1>a. ASSUME NEW cid \in Cids, UploadFirst(cid) PROVE Undisturbed'
    BY <1>a DEF UploadFirst, Undisturbed, SameData, passVars, history
<1>b. CASE AddFirst
    BY <1>1, <1>b DEF AddFirst
<1>c. CASE EndJoin
    <2>1. cids' # Left
        BY <1>c, AddressesFacts, NamesApart DEF EndJoin, TypeOK, Commands
    <2> QED
        BY <1>c, <2>1 DEF EndJoin, Undisturbed, SameData, passVars
<1>11. ASSUME NEW fetched \in SUBSET Owners, Localize(fetched) PROVE Undisturbed'
    BY <1>1, <1>11 DEF Localize
<1>12. CASE FlagLocalized
    BY <1>12 DEF FlagLocalized, RaiseFlag, Undisturbed, SameData, passVars, history
<1>13. CASE Crash
    BY <1>13 DEF Crash, Undisturbed
<1> QED
    BY <1>2, <1>3, <1>4, <1>5, <1>6, <1>7, <1>8, <1>9, <1>10, <1>a, <1>b, <1>c,
       <1>11, <1>12, <1>13 DEF Others

LEMMA UndisturbedNext ==
    TypeOK /\ Undisturbed /\ [Next]_vars =>
        /\ Undisturbed'
        /\ [UpdateDataImage /\ ~disturbed =>
               /\ \A o \in Owners : DataOf(table', o) = DataOf(table, o)
               /\ cids = Left => cids' = Left]_vars
<1> SUFFICES ASSUME TypeOK, Undisturbed, [Next]_vars
             PROVE  /\ Undisturbed'
                    /\ [UpdateDataImage /\ ~disturbed =>
                           /\ \A o \in Owners : DataOf(table', o) = DataOf(table, o)
                           /\ cids = Left => cids' = Left]_vars
    OBVIOUS
<1>1. CASE UNCHANGED vars
    BY <1>1 DEF vars, Undisturbed, SameData
<1>2. CASE UpdateDataImage
    BY <1>2, PassUndisturbed
<1>3. CASE Others /\ ~UpdateDataImage
    BY <1>3, OthersUndisturbed
<1> QED
    BY <1>1, <1>2, <1>3 DEF Next

(* An upload that nobody else disturbs after it copied the table changes no   *)
(* data, and does not bring back an application that was left (network.rs     *)
(* 1864-1871, 1914).                                                          *)
THEOREM UploadKeepsData == Spec => PassKeepsData
<1>1. Init => TypeOK /\ Undisturbed
    <2>1. Init => Undisturbed
        BY DEF Init, Undisturbed
    <2> QED
        BY <2>1, TypeOKInit
<1> QED
    BY <1>1, TypeOKNext, UndisturbedNext, PTL DEF Spec, PassKeepsData

-----------------------------------------------------------------------------
(* What the flag tells                                                        *)

\* The data of o's entry is what its address stands for.
Told(o) == table[o] = None \/ table[o].data \in {Empty, table[o].cid}

\* Nothing is under way that will raise the flag.
Quiet ==
    /\ gossip = None
    /\ command # None => command.step # "flag"
    /\ loading # None => loading.step = "fill"

Honest ==
    /\ pc = "copy" => (cids \in Images => contract = cids)
    /\ pc = "owners" =>
          /\ cids \in Images => contract = cids
          /\ SameData
          /\ \A o \in Owners : IF o \in todo THEN table[o] = snapshot[o] ELSE Told(o)
    /\ pc = "image" =>
          /\ cids \in Images => contract = cids
          /\ \A o \in Owners : Told(o)
    /\ pc = "publish" =>
          /\ image = Addresses(table)
          /\ \A o \in Owners : Told(o)
    /\ pc = "clear" => (table # Absent => Current)
    /\ pc \in {"idle", "asked"} => (Quiet /\ ~modified /\ table # Absent => Current)

\* The strengthening: a change that waits to be merged is flagged, and what a pass
\* nothing went wrong with has achieved so far, or holds between passes.
FlagInv ==
    /\ ~missed /\ gossip # None => modified
    /\ ~failed /\ ~missed => Honest

\* The entries of an image that is to be added have no data.
Fetched ==
    command # None /\ command.step = "add" =>
        \A o \in Owners : command.copy[o] = None \/ command.copy[o].data = Empty

LEMMA FetchedNext == TypeOK /\ Fetched /\ [Next]_vars => Fetched'
<1> SUFFICES ASSUME TypeOK, Fetched, [Next]_vars PROVE Fetched'
    OBVIOUS
<1>1. CASE UNCHANGED command
    BY <1>1 DEF Fetched
<1>2. CASE command' = None
    BY <1>2 DEF Fetched
<1>3. CASE command' # None /\ command'.step # "add"
    BY <1>3 DEF Fetched
<1>4. CASE FetchImage
    <2>1. contract \in Images /\ command'.copy = Unfilled(contract)
        BY <1>4 DEF FetchImage, TypeOK
    <2> QED
        BY <2>1, UnfilledFacts DEF Fetched
<1>5. UpdateDataImage => UNCHANGED command
    BY DEF UpdateDataImage, Decide, NoPass, StartPass, CopyTable, OwnersDone, SkipImage,
           EndPass, SkipOwner, UploadOwner, SaveImage, PublishImage, nodeVars
<1>7. PutCopy \/ AddImage \/ AddFirst => command' # None /\ command'.step # "add"
    <2>1. PutCopy \/ AddImage \/ AddFirst => command # None /\ command \in Commands
        BY DEF PutCopy, AddImage, AddFirst, TypeOK
    <2>2. PutCopy => command' \in Commands /\ command'.step = "flag"
        BY <2>1, AbsentFacts DEF PutCopy, Commands
    <2>3. AddImage => command' \in Commands /\ command'.step = "join"
        BY <2>1 DEF AddImage, Commands
    <2>4. AddFirst => command' \in Commands /\ command'.step = "new"
        BY <2>1 DEF AddFirst, Commands
    <2> QED
        BY <2>2, <2>3, <2>4
<1>8. ASSUME NEW o \in Owners, NEW v \in Contents, StartCommand(o, v) PROVE Fetched'
    BY <1>8 DEF StartCommand, Fetched
<1>9. ASSUME NEW cid \in Cids, UploadFirst(cid) PROVE Fetched'
    BY <1>9 DEF UploadFirst, Fetched
<1>10. StartLeave => Fetched'
    BY DEF StartLeave, Fetched
<1>11. ASSUME Others PROVE Fetched'
    BY <1>1, <1>2, <1>3, <1>4, <1>7, <1>8, <1>9, <1>10, <1>11
       DEF Others, HearChange, FlagCommand, MergeChange, EndLeave, EndJoin, Localize,
           FlagLocalized, Crash
<1> QED
    BY <1>1, <1>5, <1>11 DEF Next, vars

LEMMA FlagInvInit == Init => FlagInv
BY DEF Init, FlagInv, Honest

LEMMA FlagInvTells == TypeOK /\ FlagInv => FlagTells
BY DEF FlagInv, Honest, Quiet, FlagTells, AtRest

\* A table put between two passes leaves the rest to who put it.
LEMMA FlagInvReplace ==
    ASSUME TypeOK, FlagInv, NEW t, Replace(t), UNCHANGED <<cids, modified>>,
           gossip' \in {gossip, None},
           ~failed' => ~failed \/ pc # "copy",
           t = Absent \/ gossip # None \/ ~Quiet' \/ (~failed' => Current')
    PROVE  FlagInv'
<1>1. /\ table' = t
      /\ UNCHANGED <<contract, pc, snapshot, todo, image>>
      /\ missed' = (missed \/ pc \notin {"idle", "asked", "copy"})
    BY DEF Replace, passVars, Copied
<1>2. ~missed' /\ gossip' # None => modified'
    BY <1>1 DEF FlagInv
<1>3. ASSUME ~failed', ~missed' PROVE Honest'
    <2>1. ~missed /\ pc \in {"idle", "asked", "copy"} /\ pc' = pc
        BY <1>1, <1>3
    <2>2. CASE pc = "copy"
        <3>1. Honest
            BY <1>3, <2>1, <2>2 DEF FlagInv
        <3> QED
            BY <1>1, <2>1, <2>2, <3>1 DEF Honest
    <2>3. CASE pc \in {"idle", "asked"}
        <3>1. gossip # None => modified
            BY <2>1 DEF FlagInv
        <3>2. Absent' = Absent
            BY DEF Absent
        <3>3. Quiet' /\ ~modified' => table' = Absent \/ Current'
            BY <1>1, <1>3, <3>1
        <3> QED
            BY <2>1, <2>3, <3>2, <3>3 DEF Honest
    <2> QED
        BY <2>1, <2>2, <2>3
<1> QED
    BY <1>2, <1>3 DEF FlagInv

\* The pass puts the new address of one owner.
LEMMA FlagInvUpload ==
    ASSUME TypeOK, FlagInv, NEW o \in Owners, NEW cid \in Cids, UploadOwner(o, cid)
    PROVE  FlagInv'
<1>1. /\ pc = "owners" /\ pc' = "owners" /\ o \in todo
      /\ todo' = todo \ {o} /\ table' = Put(o, cid)
      /\ cid \in {snapshot[o].data, NoCid}
      /\ failed' = (failed \/ cid = NoCid \/ TakesBack([table' EXCEPT ![o] = table[o]]))
      /\ UNCHANGED <<cids, contract, gossip, modified, snapshot, missed>>
    BY DEF UploadOwner
<1>2. /\ snapshot[o] # None /\ snapshot \in Tables /\ table \in Tables
    BY <1>1 DEF TypeOK
<1>3. /\ table' \in Tables
      /\ \A p \in Owners : p # o => table'[p] = snapshot[p]
      /\ table'[o] = [data |-> snapshot[o].data, cid |-> cid]
    BY <1>1, <1>2, PutFacts
<1>4. ASSUME ~failed', ~missed' PROVE Honest'
    <2>1. ~failed /\ ~missed /\ cid = snapshot[o].data /\ Honest
        BY <1>1, <1>4 DEF FlagInv
    <2>2. \A p \in Owners : p # o /\ table[p] # None /\ snapshot[p] # None =>
              table[p].cid = snapshot[p].cid
        BY <1>1, <1>3, <1>4 DEF TakesBack, Tables
    <2>3. \A p \in Owners : DataOf(table, p) = DataOf(snapshot, p)
        BY <1>1, <2>1 DEF Honest, SameData
    <2>4. ASSUME NEW p \in Owners, p # o PROVE table[p] = snapshot[p]
        <3>1. table[p] \in Entry \cup {None} /\ snapshot[p] \in Entry \cup {None}
            BY <1>2 DEF Tables
        <3>2. None \notin Contents
            OBVIOUS
        <3> QED
            BY <2>2, <2>3, <2>4, <3>1, <3>2 DEF DataOf, Entry
    <2>5. Told(o)'
        BY <1>3, <2>1 DEF Told
    <2>6. ASSUME NEW p \in Owners
          PROVE  (IF p \in todo THEN table[p] = snapshot[p] ELSE Told(p))'
        <3>1. CASE p = o
            BY <1>1, <2>5, <3>1
        <3>2. CASE p # o
            <4>1. table'[p] = table[p] /\ table'[p] = snapshot'[p]
                BY <1>1, <1>3, <2>4, <3>2
            <4>2. p \notin todo => Told(p)
                BY <1>1, <2>1 DEF Honest
            <4> QED
                BY <1>1, <3>2, <4>1, <4>2 DEF Told
        <3> QED
            BY <3>1, <3>2
    <2>7. SameData'
        <3>1. \A p \in Owners : DataOf(table', p) = DataOf(snapshot, p)
            BY PutKeepsData
        <3> QED
            BY <1>1, <3>1 DEF SameData, DataOf
    <2>8. (cids \in Images => contract = cids)'
        BY <1>1, <2>1 DEF Honest
    <2> QED
        BY <1>1, <2>6, <2>7, <2>8 DEF Honest
<1> QED
    BY <1>1, <1>4 DEF FlagInv

LEMMA FlagInvPass ==
    ASSUME TypeOK, FlagInv, UpdateDataImage
    PROVE  FlagInv'
<1>1. CASE StartPass
    BY <1>1 DEF StartPass, FlagInv, Honest, nodeVars, counters
<1>a. CASE Decide
    <2>1. Absent' = Absent /\ Current' = Current
        BY <1>a DEF Decide, Absent, Current, Addresses, nodeVars
    <2> QED
        BY <1>a, <2>1 DEF Decide, FlagInv, Honest, Quiet, nodeVars
<1>b. CASE NoPass
    <2>1. Absent' = Absent /\ Current' = Current
        BY <1>b DEF NoPass, Absent, Current, Addresses, nodeVars
    <2> QED
        BY <1>b, <2>1 DEF NoPass, FlagInv, Honest, Quiet, nodeVars, history
<1>2. CASE CopyTable
    <2>1. \A o \in Owners : o \notin todo' => table[o] = None
        BY <1>2 DEF CopyTable
    <2>2. pc' = "owners" => SameData'
        BY <1>2 DEF CopyTable, SameData, nodeVars, counters
    <2>3. pc' = "clear" => table = Absent
        BY <1>2 DEF CopyTable
    <2>4. Absent' = Absent
        BY DEF Absent
    <2> QED
        BY <1>2, <2>1, <2>2, <2>3, <2>4 DEF CopyTable, FlagInv, Honest, Told, nodeVars, history
<1>3. CASE OwnersDone
    BY <1>3 DEF OwnersDone, FlagInv, Honest, Told, nodeVars, history
<1>4. CASE SkipImage
    <2>1. Addresses(table) \in Images
        BY AddressesFacts DEF TypeOK
    <2>2. UNCHANGED <<table, cids, contract, gossip, modified, missed>> /\ pc' = "clear"
        BY <1>4 DEF SkipImage, nodeVars
    <2>3. ASSUME ~failed', ~missed, table # Absent PROVE Current
        <3>1. ~failed /\ cids = Addresses(table) /\ pc = "image"
            BY <1>4, <2>3 DEF SkipImage
        <3> QED
            BY <2>1, <2>3, <3>1 DEF FlagInv, Honest, Told, Current
    <2>4. Absent' = Absent /\ Current' = Current
        BY <2>2 DEF Absent, Current, Addresses
    <2> QED
        BY <2>2, <2>3, <2>4 DEF FlagInv, Honest
<1>5. CASE EndPass
    <2>1. Absent' = Absent /\ Current' = Current
        BY <1>5 DEF EndPass, Absent, Current, Addresses
    <2> QED
        BY <1>5, <2>1 DEF EndPass, FlagInv, Honest, Quiet
<1>6. ASSUME NEW o \in Owners, SkipOwner(o) PROVE FlagInv'
    <2>1. SameData => SameData'
        BY <1>6 DEF SkipOwner, SameData, nodeVars, counters
    <2>2. /\ pc = "owners" /\ pc' = "owners" /\ o \in todo /\ todo' = todo \ {o}
          /\ UNCHANGED <<table, cids, contract, gossip, modified, snapshot, missed>>
          /\ failed' = (failed \/ snapshot[o].data \notin {Empty, snapshot[o].cid})
        BY <1>6 DEF SkipOwner, nodeVars, counters
    <2>3. ASSUME ~failed', ~missed' PROVE Honest'
        <3>1. Honest /\ snapshot[o].data \in {Empty, snapshot[o].cid}
            BY <2>2, <2>3 DEF FlagInv
        <3>2. Told(o)
            BY <2>2, <3>1 DEF Honest, Told
        <3> QED
            BY <2>1, <2>2, <3>1, <3>2 DEF Honest, Told
    <2> QED
        BY <2>2, <2>3 DEF FlagInv
<1>7. ASSUME NEW o \in Owners, NEW cid \in Cids, UploadOwner(o, cid) PROVE FlagInv'
    BY <1>7, FlagInvUpload
<1>8. ASSUME NEW cid \in Images \cup {NoCid}, SaveImage(cid) PROVE FlagInv'
    <2>1. /\ pc = "image" /\ pc' = "publish" /\ UNCHANGED <<table, gossip, modified, missed>>
          /\ cid \in {Addresses(table), NoCid} /\ cids' = cid /\ image' = cid
          /\ failed' = (failed \/ cid = NoCid)
        BY <1>8 DEF SaveImage
    <2>2. Addresses(table)' = Addresses(table)
        BY <2>1 DEF Addresses
    <2> QED
        BY <2>1, <2>2 DEF FlagInv, Honest, Told
<1>9. ASSUME NEW done \in BOOLEAN, PublishImage(done) PROVE FlagInv'
    <2>1. /\ pc = "publish" /\ pc' = "clear" /\ UNCHANGED <<table, cids, gossip, modified, missed>>
          /\ contract' = (IF done THEN image ELSE contract)
          /\ failed' = (failed \/ ~done)
        BY <1>9 DEF PublishImage, nodeVars, counters
    <2>2. Addresses(table)' = Addresses(table)
        BY <2>1 DEF Addresses
    <2> QED
        BY <2>1, <2>2 DEF FlagInv, Honest, Told, Current
<1> QED
    BY <1>1, <1>a, <1>b, <1>2, <1>3, <1>4, <1>5, <1>6, <1>7, <1>8, <1>9
       DEF UpdateDataImage

\* Steps that change neither the table nor the pass.
LEMMA FlagInvKept ==
    ASSUME FlagInv, UNCHANGED <<table, contract, passVars>>,
           ~missed' => ~missed, ~failed' => ~failed,
           cids' = cids \/ (~failed' /\ ~missed' => contract = cids' \/ pc = "idle"),
           gossip' = None \/ modified' \/ UNCHANGED <<gossip, modified>>,
           Quiet' /\ ~modified' => Quiet /\ ~modified
    PROVE  FlagInv'
<1>1. /\ Absent' = Absent /\ Current' = Current
      /\ SameData' = SameData
      /\ Addresses(table)' = Addresses(table)
      /\ \A o \in Owners : Told(o)' = Told(o)
    BY DEF Absent, Current, Addresses, SameData, DataOf, Told, passVars
<1>2. UNCHANGED <<table, contract, pc, snapshot, todo, image>>
    BY DEF passVars
<1> QED
    BY <1>1, <1>2 DEF FlagInv, Honest

LEMMA FlagInvOthers ==
    ASSUME TypeOK, Fetched, FlagInv, Others
    PROVE  FlagInv'
<1>1. ASSUME NEW o \in Owners, NEW v \in Contents, StartCommand(o, v) PROVE FlagInv'
    <2>1. command = None /\ UNCHANGED <<table, cids, contract, passVars, history>>
        BY <1>1 DEF StartCommand
    <2>2. UNCHANGED <<gossip, modified, loading>>
        BY <1>1 DEF StartCommand
    <2> QED
        BY <2>1, <2>2, FlagInvKept DEF Quiet, history
<1>2. ASSUME NEW o \in Owners, NEW v \in Contents, HearChange(o, v) PROVE FlagInv'
    BY <1>2, FlagInvKept DEF HearChange, RaiseFlag, history
<1>3. CASE PutCopy
    <2>1. command \in Commands
        BY <1>3 DEF PutCopy, TypeOK
    <2>2. command'.step = "flag" /\ command' \in Commands
        BY <1>3, <2>1, AbsentFacts DEF PutCopy, Commands
    <2>3. ~Quiet'
        BY <2>2 DEF Quiet
    <2> QED
        BY <1>3, <2>3, FlagInvReplace DEF PutCopy
<1>4. CASE FlagCommand
    BY <1>4, FlagInvKept DEF FlagCommand, RaiseFlag, history
<1>5. CASE MergeChange
    BY <1>5, FlagInvReplace DEF MergeChange
<1>6. CASE StartLeave
    BY <1>6, FlagInvReplace DEF StartLeave
<1>7. CASE EndLeave
    <2>1. UNCHANGED <<table, contract, passVars, failed, gossip, modified, loading>>
        BY <1>7 DEF EndLeave
    <2>2. missed' = (missed \/ pc # "idle") /\ command.step = "leave"
        BY <1>7 DEF EndLeave
    <2> QED
        BY <2>1, <2>2, FlagInvKept DEF Quiet
<1>8. CASE FetchImage
    <2>1. command = None /\ UNCHANGED <<table, cids, contract, passVars, history>>
        BY <1>8 DEF FetchImage, CanJoin
    <2>2. UNCHANGED <<gossip, modified, loading>>
        BY <1>8 DEF FetchImage
    <2> QED
        BY <2>1, <2>2, FlagInvKept DEF Quiet, history
<1>9. CASE AddImage
    <2>1. Replace(command.copy) /\ UNCHANGED <<cids, modified, gossip>>
        BY <1>9 DEF AddImage
    <2>2. failed' = (contract # Addresses(command.copy) \/ (failed /\ pc # "idle"))
        BY <1>9 DEF AddImage
    <2>3. table' = command.copy /\ contract' = contract
        BY <2>1 DEF Replace
    <2>4. ASSUME ~failed' PROVE Current'
        <3>1. contract' = Addresses(table')
            BY <2>2, <2>3, <2>4
        <3>2. \A o \in Owners : table'[o] = None \/ table'[o].data = Empty
            BY <1>9, <2>3 DEF AddImage, Fetched
        <3> QED
            BY <3>1, <3>2 DEF Current, Addresses
    <2> QED
        BY <2>1, <2>2, <2>4, FlagInvReplace
<1>c. ASSUME NEW cid \in Cids, UploadFirst(cid) PROVE FlagInv'
    <2>1. command = None /\ UNCHANGED <<table, cids, contract, passVars, history>>
        BY <1>c DEF UploadFirst, CanJoin
    <2>2. UNCHANGED <<gossip, modified, loading>>
        BY <1>c DEF UploadFirst
    <2> QED
        BY <2>1, <2>2, FlagInvKept DEF Quiet, history
<1>d. CASE AddFirst
    <2>1. Replace(command.copy) /\ UNCHANGED <<cids, modified, gossip>> /\ failed'
        BY <1>d DEF AddFirst
    <2> QED
        BY <2>1, FlagInvReplace
<1>e. CASE EndJoin
    <2>1. UNCHANGED <<table, contract, passVars, missed, gossip, modified, loading>>
        BY <1>e DEF EndJoin
    <2>2. failed' = (failed \/ contract # cids') /\ command.step \in {"join", "new"}
        BY <1>e DEF EndJoin
    <2> QED
        BY <2>1, <2>2, FlagInvKept DEF Quiet
<1>10. ASSUME NEW fetched \in SUBSET Owners, Localize(fetched) PROVE FlagInv'
    <2>1. loading'.step = "flag" /\ loading' \in Loadings
        BY <1>10, AbsentFacts DEF Localize, Loadings
    <2>2. ~Quiet'
        BY <2>1 DEF Quiet
    <2> QED
        BY <1>10, <2>2, FlagInvReplace DEF Localize
<1>11. CASE FlagLocalized
    BY <1>11, FlagInvKept DEF FlagLocalized, RaiseFlag, history
<1>12. CASE Crash
    BY <1>12 DEF Crash, FlagInv, Honest
<1> QED
    BY <1>1, <1>2, <1>3, <1>4, <1>5, <1>6, <1>7, <1>8, <1>9, <1>c, <1>d, <1>e,
       <1>10, <1>11, <1>12 DEF Others

LEMMA FlagInvNext == TypeOK /\ Fetched /\ FlagInv /\ [Next]_vars => FlagInv'
<1> SUFFICES ASSUME TypeOK, Fetched, FlagInv, [Next]_vars PROVE FlagInv'
    OBVIOUS
<1>1. CASE UNCHANGED vars
    <2>1. Quiet' = Quiet /\ UNCHANGED <<gossip, modified>>
        BY <1>1 DEF vars, Quiet
    <2>2. Absent' = Absent /\ Current' = Current /\ SameData' = SameData
          /\ Addresses(table)' = Addresses(table)
          /\ \A o \in Owners : Told(o)' = Told(o)
        BY <1>1 DEF vars, Absent, Current, Addresses, SameData, DataOf, Told
    <2> QED
        BY <1>1, <2>1, <2>2 DEF vars, FlagInv, Honest
<1> QED
    BY <1>1, FlagInvPass, FlagInvOthers DEF Next

(* When the flag is down and nothing is under way, the image the contract     *)
(* points to is that of the table, if the upload that took the flag down had  *)
(* none of the accidents FlagTells names (network.rs 546, 1943).              *)
THEOREM FlagToldTheTruth == Spec => []FlagTells
<1>1. Init => TypeOK /\ Fetched /\ FlagInv
    BY TypeOKInit, FlagInvInit DEF Init, Fetched
<1>2. TypeOK /\ Fetched /\ FlagInv /\ [Next]_vars => (TypeOK /\ Fetched /\ FlagInv)'
    BY TypeOKNext, FetchedNext, FlagInvNext
<1>3. TypeOK /\ FlagInv => FlagTells
    BY FlagInvTells
<1> QED
    BY <1>1, <1>2, <1>3, PTL DEF Spec
=============================================================================
