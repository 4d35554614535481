------------------------- MODULE AccessMonitorProofs ------------------------
(* Proofs about AccessMonitor, for any owners and any number of tasks that    *)
(* poll for the same application.                                             *)
EXTENDS AccessMonitor, TLAPS

USE AccessMonitorAssumption, NamesAssumption

-----------------------------------------------------------------------------
(* Types                                                                      *)

LEMMA AbsentType == Absent \in Tables
BY DEF Absent, Tables

LEMMA OffType == Off \in Tasks /\ Off.pc = "off" /\ Off.copy = None /\ Off.sends = 0
BY DEF Off, Tasks, Phases

LEMMA WithAccessType ==
    ASSUME NEW t \in Tables, NEW o \in Owners, NEW perm \in BOOLEAN
    PROVE  /\ WithAccess(t, o, perm) \in Tables
           /\ WithAccess(t, o, perm)[o] = perm
           /\ \A p \in Owners : p # o => WithAccess(t, o, perm)[p] = t[p]
BY DEF WithAccess, Tables

LEMMA NewEntryType ==
    ASSUME NEW t \in Tables, NEW o \in Owners
    PROVE  /\ NewEntry(t, o) \in Tables
           /\ \A p \in Owners : NewEntry(t, o)[p] \in {t[p], TRUE}
BY DEF NewEntry, Tables

\* A task has a copy, or messages to send, only while it changes the bit of an
\* owner it has still to do.
TaskOK(task) ==
    task.copy # None \/ task.sends # 0 =>
        /\ task.pc \in {"allow", "deny"} /\ task.owner \in task.todo
        /\ task.copy = None \/ task.sends = 0

\* Task m is the only one that changes.
OnlyTask(m) == \A n \in Monitors : n # m => monitor'[n] = monitor[n]

\* Each step of a task changes that task only, and keeps it well typed.
LEMMA TaskStep ==
    ASSUME TypeOK, NEW m \in Monitors, Monitor(m)
    PROVE  \E task \in Tasks : TaskOK(task) /\ monitor' = [monitor EXCEPT ![m] = task]
<1> DEFINE k == monitor[m]
           Goal == \E task \in Tasks :
                       TaskOK(task) /\ monitor' = [monitor EXCEPT ![m] = task]
<1>t. /\ k \in Tasks /\ TaskOK(k) /\ monitor \in [Monitors -> Tasks]
      /\ saved \subseteq Owners /\ blockers \subseteq Owners /\ table \in Tables
    BY DEF TypeOK, TaskOK
<1>1. ASSUME NEW answered \in BOOLEAN, Poll(m, answered) PROVE Goal
    <2> DEFINE task == [k EXCEPT !.pc = "compare",
                                 !.polled = IF answered THEN blockers ELSE {}]
    <2>1. task \in Tasks /\ TaskOK(task)
        BY <1>t, <1>1 DEF Poll, Parsed, Tasks, TaskOK, Phases
    <2>2. monitor' = [monitor EXCEPT ![m] = task]
        BY <1>t, <1>1 DEF Poll, Parsed, Tasks
    <2> QED
        BY <2>1, <2>2
<1>2. CASE Compare(m)
    <2> DEFINE task == [k EXCEPT !.pc = "allow", !.todo = saved \ k.polled]
    <2>1. task \in Tasks /\ TaskOK(task)
        BY <1>t, <1>2 DEF Compare, Tasks, TaskOK, Phases
    <2>2. monitor' = [monitor EXCEPT ![m] = task]
        BY <1>t, <1>2 DEF Compare, Tasks
    <2> QED
        BY <2>1, <2>2
<1>3. ASSUME NEW o \in Owners, CopyTable(m, o) PROVE Goal
    <2> DEFINE task == [k EXCEPT !.owner = o,
                                 !.copy = WithAccess(table, o, k.pc = "allow")]
    <2>1. WithAccess(table, o, k.pc = "allow") \in Tables
        BY <1>t, WithAccessType
    <2>2. task \in Tasks /\ TaskOK(task)
        BY <1>t, <1>3, <2>1 DEF CopyTable, Tasks, TaskOK
    <2>3. monitor' = [monitor EXCEPT ![m] = task]
        BY <1>t, <1>3 DEF CopyTable, Tasks
    <2> QED
        BY <2>2, <2>3
<1>4. ASSUME NEW o \in Owners, k.copy = None, Done(m, o) PROVE Goal
    <2> DEFINE task == [k EXCEPT !.pc = IF @ = "allow" THEN "forget" ELSE @,
                                 !.owner = IF k.pc = "allow" THEN o ELSE App,
                                 !.sends = 0, !.todo = @ \ {o}]
    <2>5. PICK done \in Tasks :
              done = [k EXCEPT !.pc = IF @ = "allow" THEN "forget" ELSE @,
                               !.owner = IF k.pc = "allow" THEN o ELSE App,
                               !.todo = @ \ {o}]
        BY <1>t DEF Tasks, Phases
    <2>7. done \in Tasks
        BY <2>5
    <2>6. [done EXCEPT !.sends = 0] \in Tasks
        BY <2>7 DEF Tasks
    <2>3. task \in Tasks
        BY <2>5, <2>6
    <2>4. task.copy = None /\ task.sends = 0
        BY <1>t, <1>4 DEF Tasks
    <2>1. task \in Tasks /\ TaskOK(task)
        BY <2>3, <2>4 DEF TaskOK
    <2>2. monitor' = [monitor EXCEPT ![m] = task]
        BY <1>t, <1>4 DEF Done, Tasks
    <2> QED
        BY <2>1, <2>2
<1>5. CASE PutCopy(m)
    <2> DEFINE task == [k EXCEPT !.copy = None, !.sends = 2]
    <2>1. k.copy # None
        BY <1>5 DEF PutCopy
    <2>6. PICK put \in Tasks : put = [k EXCEPT !.copy = None]
        BY <1>t DEF Tasks
    <2>8. put \in Tasks
        BY <2>6
    <2>4. [put EXCEPT !.sends = 2] \in Tasks
        BY <2>8 DEF Tasks
    <2>7. task = [put EXCEPT !.sends = 2]
        BY <2>6
    <2>5. /\ task.pc = k.pc /\ task.owner = k.owner /\ task.todo = k.todo
          /\ task.copy = None
        BY <1>t DEF Tasks
    <2>2. task \in Tasks /\ TaskOK(task)
        BY <1>t, <2>1, <2>4, <2>5, <2>7 DEF TaskOK
    <2>3. monitor' = [monitor EXCEPT ![m] = task]
        BY <1>t, <1>5 DEF PutCopy, Tasks
    <2> QED
        BY <2>2, <2>3
<1>10. CASE Tell(m)
    <2> DEFINE task == [k EXCEPT !.sends = 1]
    <2>1. k.sends = 2
        BY <1>10 DEF Tell
    <2>2. task \in Tasks /\ TaskOK(task)
        BY <1>t, <2>1 DEF Tasks, TaskOK
    <2>3. monitor' = [monitor EXCEPT ![m] = task]
        BY <1>t, <1>10 DEF Tell, Tasks
    <2> QED
        BY <2>2, <2>3
<1>11. CASE TellAccess(m)
    <2>1. k.sends = 1 /\ k.owner \in Owners
        BY <1>t, <1>11 DEF TellAccess, Tasks
    <2>2. k.copy = None /\ Done(m, k.owner)
        BY <1>t, <1>11, <2>1 DEF TellAccess, TaskOK
    <2> QED
        BY <1>4, <2>1, <2>2
<1>6. ASSUME NEW o \in Owners, NoEntry(m, o) PROVE Goal
    BY <1>4, <1>6 DEF NoEntry
<1>7. CASE Forget(m)
    <2> DEFINE task == [k EXCEPT !.pc = "allow", !.owner = App]
    <2>1. task \in Tasks /\ TaskOK(task)
        BY <1>t, <1>7 DEF Forget, Tasks, TaskOK, Phases
    <2>2. monitor' = [monitor EXCEPT ![m] = task]
        BY <1>t, <1>7 DEF Forget, Tasks
    <2> QED
        BY <2>1, <2>2
<1>8. CASE Review(m)
    <2> DEFINE blocking == k.polled \ saved
               task == [k EXCEPT !.pc = IF blocking = {} THEN "poll" ELSE "deny",
                                 !.actors = saved, !.todo = blocking]
    <2>1. k.copy = None /\ k.sends = 0
        BY <1>t, <1>8 DEF Review, TaskOK
    <2>2. task \in Tasks /\ TaskOK(task)
        BY <1>t, <2>1 DEF Tasks, TaskOK, Phases
    <2>3. monitor' = [monitor EXCEPT ![m] = task]
        BY <1>t, <1>8 DEF Review, Tasks
    <2> QED
        BY <2>2, <2>3
<1>9. CASE Save(m)
    <2> DEFINE task == [k EXCEPT !.pc = "poll", !.actors = {}]
    <2>1. k.copy = None /\ k.sends = 0
        BY <1>t, <1>9 DEF Save, TaskOK
    <2>2. task \in Tasks /\ TaskOK(task)
        BY <1>t, <2>1 DEF Tasks, TaskOK, Phases
    <2>3. monitor' = [monitor EXCEPT ![m] = task]
        BY <1>t, <1>9 DEF Save, Tasks
    <2> QED
        BY <2>2, <2>3
<1> QED
    BY <1>1, <1>2, <1>3, <1>5, <1>6, <1>7, <1>8, <1>9, <1>10, <1>11 DEF Monitor

LEMMA TypeOKMonitor ==
    ASSUME TypeOK, NEW m \in Monitors, Monitor(m)
    PROVE  TypeOK'
<1>1. PICK task \in Tasks : TaskOK(task) /\ monitor' = [monitor EXCEPT ![m] = task]
    BY TaskStep
<1>2. /\ monitor' \in [Monitors -> Tasks]
      /\ \A n \in Monitors : TaskOK(monitor'[n])
    BY <1>1 DEF TypeOK, TaskOK
<1>3. /\ blockers' \subseteq Owners /\ everBlocked' \subseteq Owners
      /\ writer' \in Tables \cup {None}
    BY DEF TypeOK, Monitor, Poll, Compare, CopyTable, NoEntry, PutCopy, Tell,
                TellAccess, Forget, Review, Save
<1>4. saved' \subseteq Owners
    <2>1. monitor[m] \in Tasks
        BY DEF TypeOK
    <2> QED
        BY <2>1 DEF TypeOK, Monitor, Poll, Compare, CopyTable, NoEntry, PutCopy, Tell,
                TellAccess, Forget,
                    Review, Save, Tasks
<1>5. CASE PutCopy(m)
    <2>1. monitor[m] \in Tasks
        BY DEF TypeOK
    <2>2. table' \in Tables
        BY <1>5, <2>1 DEF PutCopy, PutTable, Tasks
    <2>3. slipped' \subseteq Owners
        BY <1>5 DEF PutCopy, PutTable, Opened, TypeOK
    <2>4. UNCHANGED <<notice, stuck>>
        BY <1>5 DEF PutCopy
    <2> QED
        BY <1>2, <1>3, <1>4, <2>2, <2>3, <2>4 DEF TypeOK, TaskOK
<1>6. CASE ~PutCopy(m)
    <2>1. UNCHANGED <<table, stuck>> /\ slipped' \subseteq slipped
        BY <1>6 DEF Monitor, Poll, Compare, CopyTable, NoEntry, Tell, TellAccess, Forget,
                    Review, Save
    <2>2. notice' \in BOOLEAN \cup {None}
        BY <1>6 DEF TypeOK, Monitor, Poll, Compare, CopyTable, NoEntry, Tell, TellAccess,
                    Forget, Review, Save
    <2> QED
        BY <1>2, <1>3, <1>4, <2>1, <2>2 DEF TypeOK, TaskOK
<1> QED
    BY <1>5, <1>6

LEMMA TypeOKInit == Init => TypeOK
<1>1. Absent \in Tables /\ Off \in Tasks /\ Off.copy = None /\ Off.sends = 0
    BY AbsentType, OffType
<1> QED
    BY <1>1 DEF Init, TypeOK

LEMMA TypeOKPut ==
    ASSUME TypeOK, NEW t \in Tables, PutTable(t)
    PROVE  table' \in Tables /\ slipped' \subseteq Owners
BY DEF PutTable, Opened, TypeOK

LEMMA TypeOKOthers ==
    ASSUME TypeOK, Others
    PROVE  TypeOK'
<1>a. Absent \in Tables
    BY AbsentType
<1>1. ASSUME NEW o \in Owners, Restrict(o) \/ Unrestrict(o) PROVE TypeOK'
    BY <1>1 DEF Restrict, Unrestrict, TypeOK
<1>2. ASSUME NEW t \in Tables, Copy(t) PROVE TypeOK'
    BY <1>2 DEF Copy, TypeOK
<1>3. ASSUME NEW o \in Owners, StartWrite(o) PROVE TypeOK'
    BY <1>2, <1>3, NewEntryType DEF StartWrite, TypeOK
<1>4. ASSUME NEW o \in Owners, HearWrite(o) PROVE TypeOK'
    BY <1>2, <1>4, <1>a, NewEntryType DEF HearWrite
<1>5. ASSUME NEW o \in Owners, NEW perm \in BOOLEAN, HearAccess(o, perm) PROVE TypeOK'
    BY <1>2, <1>5, WithAccessType DEF HearAccess, TypeOK
<1>6. ASSUME NEW done \in BOOLEAN, Notify(done) PROVE TypeOK'
    BY <1>6 DEF Notify, Modified, TypeOK
<1>7. CASE EndWrite
    <2>1. writer \in Tables
        BY <1>7 DEF EndWrite, TypeOK
    <2> QED
        BY <1>7, <2>1, TypeOKPut DEF EndWrite, TypeOK
<1>8. CASE Leave
    BY <1>8, <1>a, TypeOKPut DEF Leave, TypeOK
<1>9. ASSUME NEW m \in Monitors, NEW t \in Tables, Join(m, t) PROVE TypeOK'
    <2>1. table' \in Tables /\ slipped' \subseteq Owners
        BY <1>9, TypeOKPut DEF Join
    <2>2. monitor[m] \in Tasks /\ monitor[m].copy = None /\ monitor[m].sends = 0
        BY <1>9 DEF Join, TypeOK
    <2>3. /\ [monitor[m] EXCEPT !.pc = "poll"] \in Tasks
          /\ [monitor[m] EXCEPT !.pc = "poll"].copy = None
          /\ [monitor[m] EXCEPT !.pc = "poll"].sends = 0
        BY <2>2 DEF Tasks, Phases
    <2>4. monitor' = [monitor EXCEPT ![m] = [monitor[m] EXCEPT !.pc = "poll"]]
        BY <1>9 DEF Join, Go, TypeOK
    <2>5. /\ monitor' \in [Monitors -> Tasks]
          /\ monitor'[m].copy = None /\ monitor'[m].sends = 0
          /\ \A n \in Monitors : n # m => monitor'[n] = monitor[n]
        BY <2>3, <2>4 DEF TypeOK
    <2>6. \A n \in Monitors : monitor'[n].copy # None \/ monitor'[n].sends # 0 =>
              /\ monitor'[n].pc \in {"allow", "deny"} /\ monitor'[n].owner \in monitor'[n].todo
              /\ monitor'[n].copy = None \/ monitor'[n].sends = 0
        BY <2>5 DEF TypeOK
    <2> QED
        BY <1>9, <2>1, <2>5, <2>6 DEF Join, TypeOK
<1>10. CASE Crash
    <2>1. table' \in Tables /\ slipped' \subseteq Owners
        BY <1>10, <1>a, TypeOKPut DEF Crash
    <2>2. /\ monitor' \in [Monitors -> Tasks]
          /\ \A n \in Monitors : monitor'[n].copy = None /\ monitor'[n].sends = 0
        BY <1>10, OffType DEF Crash
    <2> QED
        BY <1>10, <2>1, <2>2 DEF Crash, TypeOK
<1>11. CASE LoopStops
    BY <1>11 DEF LoopStops, TypeOK
<1> QED
    BY <1>1, <1>3, <1>4, <1>5, <1>6, <1>7, <1>8, <1>9, <1>10, <1>11 DEF Others

LEMMA TypeOKNext == TypeOK /\ [Next]_vars => TypeOK'
<1> SUFFICES ASSUME TypeOK, [Next]_vars PROVE TypeOK'
    OBVIOUS
<1>1. CASE UNCHANGED vars
    BY <1>1 DEF vars, TypeOK
<1> QED
    BY <1>1, TypeOKMonitor, TypeOKOthers DEF Next

(* Every variable keeps its type, and a task has a copy of the table only     *)
(* while it changes the bit of an owner it has still to do (manage_db_access, *)
(* prelude.rs 1779-1797).                                                     *)
THEOREM TypeCorrect == Spec => []TypeOK
<1> QED
    BY TypeOKInit, TypeOKNext, PTL DEF Spec

-----------------------------------------------------------------------------
(* Nobody is denied who never restricted the application: not in a table that  *)
(* any task has copied, and on none of the lists the tasks go by.              *)

\* Table t denies only owners in s.
Just(t, s) == \A o \in Owners : t[o] = FALSE => o \in s

Justified ==
    /\ blockers \subseteq everBlocked /\ saved \subseteq everBlocked
    /\ notice # None => App \in everBlocked
    /\ Just(table, everBlocked)
    /\ writer # None => Just(writer, everBlocked)
    /\ \A m \in Monitors :
          /\ monitor[m].polled \cup monitor[m].todo \cup monitor[m].actors
                \subseteq everBlocked
          /\ monitor[m].copy # None => Just(monitor[m].copy, everBlocked)

LEMMA JustFacts ==
    /\ \A s : Just(Absent, s)
    /\ \A t, s, r : Just(t, s) /\ s \subseteq r => Just(t, r)
BY DEF Just, Absent

LEMMA JustWithAccess ==
    ASSUME NEW t \in Tables, NEW o \in Owners, NEW perm \in BOOLEAN, NEW s,
           Just(t, s), o \in s
    PROVE  Just(WithAccess(t, o, perm), s)
<1>1. \A p \in Owners : p # o => WithAccess(t, o, perm)[p] = t[p]
    BY WithAccessType
<1> QED
    BY <1>1 DEF Just

LEMMA JustNewEntry ==
    ASSUME NEW t \in Tables, NEW o \in Owners, NEW s, Just(t, s)
    PROVE  Just(NewEntry(t, o), s)
<1>1. \A p \in Owners : NewEntry(t, o)[p] \in {t[p], TRUE}
    BY NewEntryType
<1> QED
    BY <1>1 DEF Just

LEMMA JustifiedInit == Init => Justified
<1> SUFFICES ASSUME Init PROVE Justified
    OBVIOUS
<1>1. \A m \in Monitors :
          /\ monitor[m].polled = {} /\ monitor[m].todo = {}
          /\ monitor[m].actors = {} /\ monitor[m].copy = None
    BY DEF Init, Off
<1> QED
    BY <1>1, JustFacts DEF Init, Justified

LEMMA JustifiedMonitor ==
    ASSUME TypeOK, Justified, NEW m \in Monitors, Monitor(m)
    PROVE  Justified'
<1> DEFINE k == monitor[m]
           k1 == monitor'[m]
           ListsOK == k1.polled \cup k1.todo \cup k1.actors \subseteq everBlocked
           CopyOK == k1.copy # None => Just(k1.copy, everBlocked)
           Goal == /\ saved' \subseteq everBlocked /\ Just(table', everBlocked)
                   /\ notice' # None => App \in everBlocked
                   /\ ListsOK /\ CopyOK
<1>t. /\ k \in Tasks /\ monitor \in [Monitors -> Tasks] /\ table \in Tables
      /\ k.copy # None \/ k.sends # 0 => k.owner \in k.todo
    BY DEF TypeOK
<1>k. /\ k.polled \subseteq everBlocked /\ k.todo \subseteq everBlocked
      /\ k.actors \subseteq everBlocked
      /\ k.copy # None => Just(k.copy, everBlocked)
      /\ blockers \subseteq everBlocked /\ saved \subseteq everBlocked
      /\ Just(table, everBlocked)
      /\ notice # None => App \in everBlocked
    BY DEF Justified
<1>p. PICK task \in Tasks : monitor' = [monitor EXCEPT ![m] = task]
    BY TaskStep
<1>n. \A n \in Monitors : n # m => monitor'[n] = monitor[n]
    BY <1>t, <1>p
<1>e. UNCHANGED <<everBlocked, blockers, writer>>
    BY DEF Monitor, Poll, Compare, CopyTable, NoEntry, PutCopy, Tell,
                TellAccess, Forget, Review, Save
<1>1. ASSUME NEW answered \in BOOLEAN, Poll(m, answered) PROVE Goal
    <2>1. /\ k1.polled \in {blockers, {}} /\ k1.todo = k.todo
          /\ k1.actors = k.actors /\ k1.copy = k.copy
        BY <1>t, <1>1 DEF Poll, Parsed, Tasks
    <2>2. UNCHANGED <<saved, table, notice>>
        BY <1>1 DEF Poll, Parsed
    <2> QED
        BY <1>k, <2>1, <2>2
<1>2. ASSUME Compare(m) PROVE Goal
    <2>1. /\ k1.polled = k.polled /\ k1.todo = saved \ k.polled
          /\ k1.actors = k.actors /\ k1.copy = k.copy
        BY <1>t, <1>2 DEF Compare, Tasks
    <2>2. UNCHANGED <<saved, table, notice>>
        BY <1>2 DEF Compare
    <2> QED
        BY <1>k, <2>1, <2>2
<1>3. ASSUME NEW o \in Owners, CopyTable(m, o) PROVE Goal
    <2>1. /\ k1.polled = k.polled /\ k1.todo = k.todo /\ k1.actors = k.actors
          /\ k1.copy = WithAccess(table, o, k.pc = "allow")
        BY <1>t, <1>3 DEF CopyTable, Tasks
    <2>2. o \in everBlocked
        BY <1>3, <1>k DEF CopyTable
    <2>3. Just(WithAccess(table, o, k.pc = "allow"), everBlocked)
        BY <1>t, <1>k, <2>2, JustWithAccess
    <2>4. UNCHANGED <<saved, table, notice>>
        BY <1>3 DEF CopyTable
    <2> QED
        BY <1>k, <2>1, <2>3, <2>4
<1>4. ASSUME NEW o \in Owners, Done(m, o) PROVE ListsOK /\ CopyOK
    <2>1. /\ k1.polled = k.polled /\ k1.todo = k.todo \ {o}
          /\ k1.actors = k.actors /\ k1.copy = k.copy
        BY <1>t, <1>4 DEF Done, Tasks
    <2> QED
        BY <1>k, <2>1
<1>5. ASSUME PutCopy(m) PROVE Goal
    <2>1. /\ k1.polled = k.polled /\ k1.todo = k.todo
          /\ k1.actors = k.actors /\ k1.copy = None
        BY <1>t, <1>5 DEF PutCopy, Tasks
    <2>2. Just(table', everBlocked)
        BY <1>k, <1>5 DEF PutCopy, PutTable
    <2>3. UNCHANGED <<saved, notice>>
        BY <1>5 DEF PutCopy
    <2> QED
        BY <1>k, <2>1, <2>2, <2>3
<1>13. ASSUME Tell(m) PROVE Goal
    <2>1. /\ k1.polled = k.polled /\ k1.todo = k.todo
          /\ k1.actors = k.actors /\ k1.copy = k.copy
        BY <1>t, <1>13 DEF Tell, Tasks
    <2>2. UNCHANGED <<saved, table, notice>>
        BY <1>13 DEF Tell
    <2> QED
        BY <1>k, <2>1, <2>2
<1>14. ASSUME TellAccess(m) PROVE Goal
    <2>1. k.sends # 0 /\ k.owner \in Owners
        BY <1>t, <1>14 DEF TellAccess, Tasks
    <2>2. k.owner \in k.todo
        BY <1>t, <2>1
    <2>3. ListsOK /\ CopyOK
        BY <1>4, <1>14, <2>1 DEF TellAccess
    <2>4. notice' # None => App \in everBlocked
        BY <1>k, <1>14, <2>2 DEF TellAccess
    <2>5. UNCHANGED <<saved, table>>
        BY <1>14 DEF TellAccess
    <2> QED
        BY <1>k, <2>3, <2>4, <2>5
<1>6. ASSUME NEW o \in Owners, NoEntry(m, o) PROVE Goal
    <2>1. ListsOK /\ CopyOK
        BY <1>4, <1>6 DEF NoEntry
    <2>2. UNCHANGED <<saved, table, notice>>
        BY <1>6 DEF NoEntry
    <2> QED
        BY <1>k, <2>1, <2>2
<1>7. ASSUME Forget(m) PROVE Goal
    <2>1. /\ k1.polled = k.polled /\ k1.todo = k.todo
          /\ k1.actors = k.actors /\ k1.copy = k.copy
        BY <1>t, <1>7 DEF Forget, Tasks
    <2>2. saved' \in {{}, saved} /\ UNCHANGED <<table, notice>>
        BY <1>7 DEF Forget
    <2> QED
        BY <1>k, <2>1, <2>2
<1>8. ASSUME Review(m) PROVE Goal
    <2>1. /\ k1.polled = k.polled /\ k1.todo = k.polled \ saved
          /\ k1.actors = saved /\ k1.copy = k.copy
        BY <1>t, <1>8 DEF Review, Tasks
    <2>2. UNCHANGED <<saved, table, notice>>
        BY <1>8 DEF Review
    <2> QED
        BY <1>k, <2>1, <2>2
<1>9. ASSUME Save(m) PROVE Goal
    <2>1. /\ k1.polled = k.polled /\ k1.todo = k.todo
          /\ k1.actors = {} /\ k1.copy = k.copy
        BY <1>t, <1>9 DEF Save, Tasks
    <2>2. saved' = k.actors \cup k.polled /\ UNCHANGED <<table, notice>>
        BY <1>9 DEF Save
    <2> QED
        BY <1>k, <2>1, <2>2
<1> HIDE DEF Goal
<1>11. Goal
    BY <1>1, <1>2, <1>3, <1>5, <1>6, <1>7, <1>8, <1>9, <1>13, <1>14 DEF Monitor
<1>12. \A n \in Monitors :
           /\ monitor'[n].polled \cup monitor'[n].todo \cup monitor'[n].actors
                 \subseteq everBlocked
           /\ monitor'[n].copy # None => Just(monitor'[n].copy, everBlocked)
    <2>1. \A n \in Monitors :
              /\ monitor[n].polled \cup monitor[n].todo \cup monitor[n].actors
                    \subseteq everBlocked
              /\ monitor[n].copy # None => Just(monitor[n].copy, everBlocked)
        BY DEF Justified
    <2> QED
        BY <1>11, <1>n, <2>1 DEF Goal
<1> QED
    BY <1>11, <1>12, <1>e DEF Goal, Justified

LEMMA JustifiedOthers ==
    ASSUME TypeOK, Justified, Others
    PROVE  Justified'
<1>1. ASSUME NEW o \in Owners, Restrict(o) \/ Unrestrict(o) PROVE Justified'
    <2>1. /\ everBlocked \subseteq everBlocked' /\ blockers' \subseteq everBlocked'
          /\ UNCHANGED <<table, saved, monitor, writer, notice>>
        BY <1>1 DEF Restrict, Unrestrict, Justified
    <2> QED
        BY <2>1, JustFacts DEF Justified
<1>2. ASSUME NEW t, Just(t, everBlocked), Copy(t) PROVE Justified'
    BY <1>2 DEF Copy, Justified
<1>3. ASSUME NEW o \in Owners, StartWrite(o) PROVE Justified'
    <2>1. Just(NewEntry(table, o), everBlocked)
        BY JustNewEntry DEF Justified, TypeOK
    <2> QED
        BY <1>2, <1>3, <2>1 DEF StartWrite
<1>4. ASSUME NEW o \in Owners, HearWrite(o) PROVE Justified'
    <2>1. Just(NewEntry(Absent, o), everBlocked)
        BY JustNewEntry, AbsentType, JustFacts
    <2> QED
        BY <1>2, <1>4, <2>1 DEF HearWrite
<1>5. ASSUME NEW o \in Owners, NEW perm \in BOOLEAN, HearAccess(o, perm) PROVE Justified'
    <2>1. Just(WithAccess(table, o, perm), everBlocked)
        BY <1>5, JustWithAccess DEF HearAccess, Justified, TypeOK
    <2> QED
        BY <1>2, <1>5, <2>1 DEF HearAccess
<1>6. ASSUME NEW done \in BOOLEAN, Notify(done) PROVE Justified'
    <2>1. /\ blockers' \subseteq everBlocked /\ App \in everBlocked
          /\ UNCHANGED <<everBlocked, table, saved, monitor, writer>>
        BY <1>6 DEF Notify, Modified, Justified
    <2> QED
        BY <2>1 DEF Justified
<1>7. ASSUME NEW t, Just(t, everBlocked), PutTable(t), writer' \in {writer, None},
             UNCHANGED <<blockers, everBlocked, saved, monitor, notice>>
      PROVE  Justified'
    BY <1>7 DEF PutTable, Justified
<1>8. CASE EndWrite
    BY <1>7, <1>8 DEF EndWrite, Justified
<1>9. CASE Leave
    BY <1>7, <1>9, JustFacts DEF Leave
<1>10. ASSUME NEW m \in Monitors, NEW t \in Tables, Join(m, t) PROVE Justified'
    <2>1. Just(t, everBlocked) /\ table' = t
        BY <1>10 DEF Join, PutTable, Just
    <2>2. monitor[m] \in Tasks /\ monitor \in [Monitors -> Tasks]
        BY DEF TypeOK
    <2>3. \A n \in Monitors :
              /\ monitor'[n].polled = monitor[n].polled /\ monitor'[n].todo = monitor[n].todo
              /\ monitor'[n].actors = monitor[n].actors /\ monitor'[n].copy = monitor[n].copy
        BY <1>10, <2>2 DEF Join, Go, Tasks
    <2>4. UNCHANGED <<blockers, everBlocked, saved, writer, notice>>
        BY <1>10 DEF Join
    <2> QED
        BY <2>1, <2>3, <2>4 DEF Justified
<1>11. CASE Crash
    <2>1. \A n \in Monitors :
              /\ monitor'[n].polled = {} /\ monitor'[n].todo = {}
              /\ monitor'[n].actors = {} /\ monitor'[n].copy = None
        BY <1>11 DEF Crash, Off
    <2>2. /\ saved' = {} /\ writer' = None /\ notice' = None /\ table' = Absent
          /\ UNCHANGED <<blockers, everBlocked>>
        BY <1>11 DEF Crash, PutTable
    <2> QED
        BY <2>1, <2>2, JustFacts DEF Justified
<1>12. CASE LoopStops
    BY <1>12 DEF LoopStops, Justified
<1> QED
    BY <1>1, <1>3, <1>4, <1>5, <1>6, <1>8, <1>9, <1>10, <1>11, <1>12 DEF Others

LEMMA JustifiedNext == TypeOK /\ Justified /\ [Next]_vars => Justified'
<1> SUFFICES ASSUME TypeOK, Justified, [Next]_vars PROVE Justified'
    OBVIOUS
<1>1. CASE UNCHANGED vars
    BY <1>1 DEF vars, Justified
<1> QED
    BY <1>1, JustifiedMonitor, JustifiedOthers DEF Next

(* Nobody who never restricted the application is denied to it, whatever      *)
(* polls fail, however many tasks poll, and whatever copies of the table are  *)
(* put back (network.rs 2506-2605).                                           *)
THEOREM DenialJustified == Spec => []DeniedOnlyIfBlocked
<1>1. Init => TypeOK /\ Justified
    BY TypeOKInit, JustifiedInit
<1>2. TypeOK /\ Justified /\ [Next]_vars => (TypeOK /\ Justified)'
    BY TypeOKNext, JustifiedNext
<1>3. Justified => DeniedOnlyIfBlocked
    BY DEF Justified, Just, DeniedOnlyIfBlocked
<1> QED
    BY <1>1, <1>2, <1>3, PTL DEF Spec

-----------------------------------------------------------------------------
(* Who is saved is denied.  A task keeps the owners it is to deny on its list  *)
(* until their bit is off; what it will save besides was saved already.        *)

\* The owner whose bit task m has changed and has yet to tell of.
Changed(m) == IF monitor[m].sends = 0 THEN {} ELSE {monitor[m].owner}

\* Some task is about to deny owner o.
Due(o) ==
    \E m \in Monitors : monitor[m].pc = "deny" /\ o \in monitor[m].todo \ Changed(m)

Settled(o) == table[o] = TRUE => o \in slipped \/ Due(o)

\* The owners that task m is to save and that it has denied, or found saved.
Dealt(m) ==
    ((monitor[m].polled \cup monitor[m].actors) \ monitor[m].todo) \cup Changed(m)

\* A task that denies has a copy in which the owner's bit is off, and those it
\* has dealt with are settled.
DenyOK(m) ==
    monitor[m].pc = "deny" =>
        /\ monitor[m].copy # None => monitor[m].copy[monitor[m].owner] = FALSE
        /\ \A o \in Dealt(m) : Settled(o)

Enforced ==
    /\ \A o \in saved : Settled(o)
    /\ \A m \in Monitors : DenyOK(m)

LEMMA DealtType ==
    ASSUME TypeOK, NEW m \in Monitors
    PROVE  Dealt(m) \subseteq Owners /\ Changed(m) \subseteq Owners
<1>1. monitor[m] \in Tasks
    BY DEF TypeOK
<1> QED
    BY <1>1 DEF Dealt, Changed, Tasks

LEMMA EnforcedInit == Init => Enforced
<1> SUFFICES ASSUME Init PROVE Enforced
    OBVIOUS
<1>1. \A m \in Monitors : monitor[m].pc = "off"
    BY DEF Init, Off
<1> QED
    BY <1>1 DEF Init, Enforced, DenyOK

\* Owners stay settled when a table is put, if they stay due.
LEMMA SettledPut ==
    ASSUME NEW t, PutTable(t), NEW o \in Owners, Settled(o), Due(o) => Due(o)'
    PROVE  Settled(o)'
BY DEF Settled, PutTable, Opened

LEMMA SettledKept ==
    ASSUME UNCHANGED table, slipped \subseteq slipped', NEW o \in Owners, Settled(o),
           Due(o) => Due(o)'
    PROVE  Settled(o)'
BY DEF Settled

\* Steps after which everybody who was due, saved or dealt with still is.
LEMMA EnforcedKept ==
    ASSUME TypeOK, Enforced, UNCHANGED monitor, saved' = saved,
           \/ UNCHANGED <<table, slipped>>
           \/ \E t : PutTable(t)
    PROVE  Enforced'
<1>1. \A o \in Owners : Due(o) => Due(o)'
    BY DEF Due, Changed
<1>2. \A o \in Owners : Settled(o) => Settled(o)'
    BY <1>1, SettledPut, SettledKept
<1>3. saved \subseteq Owners
    BY DEF TypeOK
<1>4. ASSUME NEW m \in Monitors PROVE DenyOK(m)'
    <2>1. DenyOK(m) /\ UNCHANGED monitor
        BY DEF Enforced
    <2>2. Dealt(m) \subseteq Owners /\ Dealt(m)' = Dealt(m)
        BY DealtType DEF Dealt, Changed
    <2> QED
        BY <1>2, <2>1, <2>2 DEF DenyOK
<1> QED
    BY <1>2, <1>3, <1>4 DEF Enforced

LEMMA EnforcedOthers ==
    ASSUME TypeOK, Enforced, Others
    PROVE  Enforced'
<1>1. ASSUME NEW o \in Owners, Restrict(o) \/ Unrestrict(o) PROVE Enforced'
    BY <1>1, EnforcedKept DEF Restrict, Unrestrict
<1>2. ASSUME NEW t, Copy(t) PROVE Enforced'
    BY <1>2, EnforcedKept DEF Copy
<1>3. ASSUME NEW o \in Owners, StartWrite(o) \/ HearWrite(o) PROVE Enforced'
    BY <1>2, <1>3 DEF StartWrite, HearWrite
<1>4. ASSUME NEW o \in Owners, NEW perm \in BOOLEAN, HearAccess(o, perm) PROVE Enforced'
    BY <1>2, <1>4 DEF HearAccess
<1>5. ASSUME NEW done \in BOOLEAN, Notify(done) PROVE Enforced'
    BY <1>5, EnforcedKept DEF Notify, Modified
<1>6. CASE EndWrite
    BY <1>6, EnforcedKept DEF EndWrite
<1>7. CASE Leave
    BY <1>7, EnforcedKept DEF Leave
<1>8. ASSUME NEW m \in Monitors, NEW t \in Tables, Join(m, t) PROVE Enforced'
    <2>1. monitor[m] \in Tasks /\ monitor \in [Monitors -> Tasks] /\ saved \subseteq Owners
        BY DEF TypeOK
    <2>2. /\ monitor'[m].pc = "poll" /\ monitor[m].pc = "off"
          /\ \A n \in Monitors : n # m => monitor'[n] = monitor[n]
        BY <1>8, <2>1 DEF Join, Go, Tasks
    <2>3. \A o \in Owners : Due(o) => Due(o)'
        BY <2>2 DEF Due, Changed
    <2>4. PutTable(t) /\ saved' = saved
        BY <1>8 DEF Join
    <2>5. \A o \in Owners : Settled(o) => Settled(o)'
        BY <2>3, <2>4, SettledPut
    <2>6. ASSUME NEW n \in Monitors PROVE DenyOK(n)'
        <3>1. CASE n = m
            BY <2>2, <3>1 DEF DenyOK
        <3>2. CASE n # m
            <4>1. monitor[n] \in Tasks /\ DenyOK(n) /\ monitor'[n] = monitor[n]
                BY <2>1, <2>2, <3>2 DEF Enforced
            <4>2. Dealt(n) \subseteq Owners /\ Dealt(n)' = Dealt(n)
                BY <4>1, DealtType DEF Dealt, Changed
            <4> QED
                BY <2>5, <4>1, <4>2 DEF DenyOK
        <3> QED
            BY <3>1, <3>2
    <2> QED
        BY <2>1, <2>4, <2>5, <2>6 DEF Enforced
<1>9. CASE Crash
    <2>1. saved' = {} /\ \A n \in Monitors : monitor'[n].pc = "off"
        BY <1>9 DEF Crash, Off
    <2> QED
        BY <2>1 DEF Enforced, DenyOK
<1>10. CASE LoopStops
    BY <1>10, EnforcedKept DEF LoopStops
<1> QED
    BY <1>1, <1>3, <1>4, <1>5, <1>6, <1>7, <1>8, <1>9, <1>10 DEF Others

\* A step of task m keeps the invariant if it keeps settled who was, and leaves
\* only settled owners to the saved list and to its own.
LEMMA EnforcedStep ==
    ASSUME TypeOK, Enforced, NEW m \in Monitors,
           \A n \in Monitors : n # m => monitor'[n] = monitor[n],
           \A o \in Owners : Settled(o) => Settled(o)',
           \A o \in saved' : o \in Owners /\ Settled(o)',
           DenyOK(m)'
    PROVE  Enforced'
<1>1. ASSUME NEW n \in Monitors, n # m PROVE DenyOK(n)'
    <2>1. DenyOK(n) /\ monitor'[n] = monitor[n]
        BY <1>1 DEF Enforced
    <2>2. Dealt(n) \subseteq Owners /\ Dealt(n)' = Dealt(n)
        BY <2>1, DealtType DEF Dealt, Changed
    <2> QED
        BY <2>1, <2>2 DEF DenyOK
<1> QED
    BY <1>1 DEF Enforced

\* A step that denies nobody and puts no table.
LEMMA EnforcedAside ==
    ASSUME TypeOK, Enforced, NEW m \in Monitors,
           \A n \in Monitors : n # m => monitor'[n] = monitor[n],
           monitor[m].pc # "deny", monitor'[m].pc # "deny",
           UNCHANGED <<table, slipped>>, saved' \subseteq saved
    PROVE  Enforced'
<1>1. \A o \in Owners : Due(o) => Due(o)'
    BY DEF Due, Changed
<1>2. \A o \in Owners : Settled(o) => Settled(o)'
    BY <1>1, SettledKept
<1>3. \A o \in saved' : o \in Owners /\ Settled(o)'
    BY <1>2 DEF TypeOK, Enforced
<1>4. DenyOK(m)'
    BY DEF DenyOK
<1> QED
    BY <1>2, <1>3, <1>4, EnforcedStep

LEMMA EnforcedMonitor ==
    ASSUME TypeOK, Enforced, NEW m \in Monitors, Monitor(m)
    PROVE  Enforced'
<1> DEFINE k == monitor[m]
           k1 == monitor'[m]
<1>t. /\ k \in Tasks /\ monitor \in [Monitors -> Tasks] /\ table \in Tables
      /\ saved \subseteq Owners
      /\ k.copy # None \/ k.sends # 0 =>
            /\ k.pc \in {"allow", "deny"} /\ k.owner \in k.todo
            /\ k.copy = None \/ k.sends = 0
    BY DEF TypeOK
<1>p. PICK task \in Tasks : monitor' = [monitor EXCEPT ![m] = task]
    BY TaskStep
<1>n. \A n \in Monitors : n # m => monitor'[n] = monitor[n]
    BY <1>t, <1>p
<1>k. /\ \A o \in saved : Settled(o)
      /\ DenyOK(m) /\ Dealt(m) \subseteq Owners
    BY DealtType DEF Enforced
<1>1. ASSUME NEW answered \in BOOLEAN, Poll(m, answered) PROVE Enforced'
    <2>1. k.pc = "poll" /\ k1.pc = "compare"
        BY <1>t, <1>1 DEF Poll, Parsed, Tasks
    <2> QED
        BY <1>1, <1>n, <2>1, EnforcedAside DEF Poll, Parsed
<1>2. CASE Compare(m)
    <2>1. k.pc = "compare" /\ k1.pc = "allow"
        BY <1>t, <1>2 DEF Compare, Tasks
    <2> QED
        BY <1>2, <1>n, <2>1, EnforcedAside DEF Compare
<1>3. ASSUME NEW o \in Owners, CopyTable(m, o) PROVE Enforced'
    <2>1. /\ k1.pc = k.pc /\ k1.todo = k.todo /\ k1.polled = k.polled
          /\ k1.actors = k.actors /\ k1.owner = o /\ k.sends = 0 /\ k1.sends = 0
          /\ k1.copy = WithAccess(table, o, k.pc = "allow")
        BY <1>t, <1>3 DEF CopyTable, Tasks
    <2>2. UNCHANGED <<table, slipped, saved>>
        BY <1>3 DEF CopyTable
    <2>3. \A p \in Owners : Due(p) => Due(p)'
        BY <1>n, <2>1 DEF Due, Changed
    <2>4. \A p \in Owners : Settled(p) => Settled(p)'
        BY <2>2, <2>3, SettledKept
    <2>5. k.pc = "deny" => k1.copy[k1.owner] = FALSE
        <3>1. WithAccess(table, o, FALSE)[o] = FALSE
            BY <1>t, WithAccessType
        <3>2. k.pc = "deny" => (k.pc = "allow") = FALSE
            OBVIOUS
        <3> QED
            BY <2>1, <3>1, <3>2
    <2>6. Dealt(m)' = Dealt(m)
        BY <2>1 DEF Dealt, Changed
    <2>7. DenyOK(m)'
        BY <1>k, <2>1, <2>4, <2>5, <2>6 DEF DenyOK
    <2> QED
        BY <1>t, <1>k, <1>n, <2>2, <2>4, <2>7, EnforcedStep
<1>5. CASE PutCopy(m)
    <2>0. PICK o : o = k.owner
        OBVIOUS
    <2>1. /\ o \in Owners /\ o \in k.todo /\ k.pc \in {"allow", "deny"} /\ k.sends = 0
          /\ PutTable(k.copy) /\ saved' = saved
        BY <1>t, <1>5, <2>0 DEF PutCopy, Tasks
    <2>2. /\ k1.pc = k.pc /\ k1.todo = k.todo /\ k1.polled = k.polled
          /\ k1.actors = k.actors /\ k1.owner = o /\ k1.copy = None /\ k1.sends = 2
        BY <1>t, <1>5, <2>0 DEF PutCopy, Tasks
    <2>3. k.pc = "deny" => k.copy[o] = FALSE
        BY <1>k, <1>5, <2>0 DEF PutCopy, DenyOK
    <2>4. k.pc = "deny" => Settled(o)'
        BY <2>1, <2>3 DEF PutTable, Settled
    <2>5. \A p \in Owners : p # o \/ k.pc = "allow" => (Due(p) => Due(p)')
        BY <1>n, <2>1, <2>2 DEF Due, Changed
    <2>6. \A p \in Owners : Settled(p) => Settled(p)'
        BY <2>1, <2>4, <2>5, SettledPut
    <2>7. Dealt(m)' \subseteq Dealt(m) \cup {o}
        BY <2>1, <2>2 DEF Dealt, Changed
    <2>8. DenyOK(m)'
        BY <1>k, <2>2, <2>4, <2>6, <2>7 DEF DenyOK
    <2> QED
        BY <1>t, <1>k, <1>n, <2>1, <2>6, <2>8, EnforcedStep
<1>10. CASE Tell(m)
    <2>1. /\ k1.pc = k.pc /\ k1.todo = k.todo /\ k1.polled = k.polled
          /\ k1.actors = k.actors /\ k1.owner = k.owner /\ k1.copy = k.copy
          /\ k.sends = 2 /\ k1.sends = 1
        BY <1>t, <1>10 DEF Tell, Tasks
    <2>2. UNCHANGED <<table, slipped, saved>>
        BY <1>10 DEF Tell
    <2>3. \A p \in Owners : Due(p) => Due(p)'
        BY <1>n, <2>1 DEF Due, Changed
    <2>4. \A p \in Owners : Settled(p) => Settled(p)'
        BY <2>2, <2>3, SettledKept
    <2>5. Dealt(m)' = Dealt(m)
        BY <2>1 DEF Dealt, Changed
    <2>6. DenyOK(m)'
        BY <1>k, <2>1, <2>4, <2>5 DEF DenyOK
    <2> QED
        BY <1>t, <1>k, <1>n, <2>2, <2>4, <2>6, EnforcedStep
<1>4. ASSUME NEW o \in Owners, Done(m, o), k.pc \in {"allow", "deny"}, k.copy = None,
             k.pc = "deny" => Settled(o)',
             k.sends = 0 \/ k.owner = o,
             UNCHANGED <<table, slipped, saved>>
      PROVE  Enforced'
    <2>1. /\ k1.pc = (IF k.pc = "allow" THEN "forget" ELSE k.pc)
          /\ k1.todo = k.todo \ {o} /\ k1.polled = k.polled
          /\ k1.actors = k.actors /\ k1.copy = None /\ k1.sends = 0
        BY <1>t, <1>4 DEF Done, Tasks
    <2>2. \A p \in Owners : p # o \/ k.pc = "allow" => (Due(p) => Due(p)')
        BY <1>n, <1>4, <2>1 DEF Due, Changed
    <2>3. \A p \in Owners : Settled(p) => Settled(p)'
        BY <1>4, <2>2, SettledKept
    <2>4. Dealt(m)' \subseteq Dealt(m) \cup {o}
        BY <2>1 DEF Dealt, Changed
    <2>5. DenyOK(m)'
        BY <1>4, <1>k, <2>1, <2>3, <2>4 DEF DenyOK
    <2> QED
        BY <1>4, <1>t, <1>k, <1>n, <2>3, <2>5, EnforcedStep
<1>11. CASE TellAccess(m)
    <2>0. PICK o : o = k.owner
        OBVIOUS
    <2>1. /\ o \in Owners /\ k.sends = 1 /\ k.pc \in {"allow", "deny"} /\ o \in k.todo
          /\ k.copy = None /\ Done(m, o)
        BY <1>t, <1>11, <2>0 DEF TellAccess, Tasks
    <2>2. UNCHANGED <<table, slipped, saved>>
        BY <1>11 DEF TellAccess
    <2>3. k1.todo = k.todo \ {o} /\ k1.sends = 0
        BY <1>t, <2>1 DEF Done, Tasks
    <2>4. Due(o) => Due(o)'
        BY <1>n, <2>0, <2>1, <2>3 DEF Due, Changed
    <2>5. k.pc = "deny" => Settled(o)
        BY <1>k, <2>0, <2>1 DEF DenyOK, Dealt, Changed
    <2>6. k.pc = "deny" => Settled(o)'
        BY <2>1, <2>2, <2>4, <2>5, SettledKept
    <2> QED
        BY <1>4, <2>0, <2>1, <2>2, <2>6
<1>6. ASSUME NEW o \in Owners, NoEntry(m, o) PROVE Enforced'
    <2>1. Settled(o)'
        BY <1>6 DEF NoEntry, Settled
    <2> QED
        BY <1>4, <1>6, <2>1 DEF NoEntry
<1>7. CASE Forget(m)
    <2>1. k.pc = "forget" /\ k1.pc = "allow" /\ saved' \subseteq saved
        BY <1>t, <1>7 DEF Forget, Tasks
    <2> QED
        BY <1>7, <1>n, <2>1, EnforcedAside DEF Forget
<1>8. CASE Review(m)
    <2> DEFINE blocking == k.polled \ saved
    <2>1. /\ k.pc = "allow" /\ k1.polled = k.polled /\ k1.todo = blocking
          /\ k1.pc = (IF blocking = {} THEN "poll" ELSE "deny")
          /\ k1.actors = saved /\ k1.copy = k.copy /\ k1.sends = k.sends
        BY <1>t, <1>8 DEF Review, Tasks
    <2>2. k.copy = None /\ k.sends = 0
        BY <1>t, <1>8 DEF Review
    <2>3. slipped' = slipped \ blocking /\ UNCHANGED <<table, saved>>
        BY <1>8 DEF Review
    <2>4. \A p \in Owners : Due(p) => Due(p)'
        BY <1>n, <2>1 DEF Due, Changed
    <2>5. \A p \in blocking : Due(p)'
        BY <2>1, <2>2 DEF Due, Changed
    <2>6. \A p \in Owners : Settled(p) => Settled(p)'
        BY <2>3, <2>4, <2>5 DEF Settled
    <2>7. DenyOK(m)'
        <3>1. Dealt(m)' \subseteq saved
            BY <2>1, <2>2 DEF Dealt, Changed
        <3> QED
            BY <1>t, <1>k, <2>1, <2>2, <2>6, <3>1 DEF DenyOK
    <2> QED
        BY <1>t, <1>k, <1>n, <2>3, <2>6, <2>7, EnforcedStep
<1>9. CASE Save(m)
    <2>1. /\ k.pc = "deny" /\ k.todo = {} /\ k1.pc = "poll" /\ k.sends = 0
          /\ saved' = k.actors \cup k.polled
        BY <1>t, <1>9 DEF Save, Tasks
    <2>2. UNCHANGED <<table, slipped>>
        BY <1>9 DEF Save
    <2>3. \A p \in Owners : Due(p) => Due(p)'
        BY <1>n, <2>1 DEF Due, Changed
    <2>4. \A p \in Owners : Settled(p) => Settled(p)'
        BY <2>2, <2>3, SettledKept
    <2>5. \A p \in saved' : p \in Owners /\ Settled(p)'
        BY <1>t, <1>k, <2>1, <2>4 DEF DenyOK, Dealt, Changed, Tasks
    <2>6. DenyOK(m)'
        BY <2>1 DEF DenyOK
    <2> QED
        BY <1>n, <2>4, <2>5, <2>6, EnforcedStep
<1> QED
    BY <1>1, <1>2, <1>3, <1>5, <1>6, <1>7, <1>8, <1>9, <1>10, <1>11 DEF Monitor

LEMMA EnforcedNext == TypeOK /\ Enforced /\ [Next]_vars => Enforced'
<1> SUFFICES ASSUME TypeOK, Enforced, [Next]_vars PROVE Enforced'
    OBVIOUS
<1>1. CASE UNCHANGED vars
    BY <1>1, EnforcedKept DEF vars
<1> QED
    BY <1>1, EnforcedMonitor, EnforcedOthers DEF Next

(* Whoever is on the saved list is denied, or about to be, or was made        *)
(* readable by someone else after the task had decided (network.rs            *)
(* 2573-2604).                                                                *)
THEOREM SavedIsDenied == Spec => []SavedMeansDenied
<1>1. Init => TypeOK /\ Enforced
    BY TypeOKInit, EnforcedInit
<1>2. TypeOK /\ Enforced /\ [Next]_vars => (TypeOK /\ Enforced)'
    BY TypeOKNext, EnforcedNext
<1>3. Enforced => SavedMeansDenied
    BY DEF Enforced, Settled, Due, Changed, SavedMeansDenied
<1> QED
    BY <1>1, <1>2, <1>3, PTL DEF Spec
=============================================================================
