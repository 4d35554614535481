--------------------------- MODULE AccessMonitor ----------------------------
(* How a node enforces, for one application it runs, the restrictions that    *)
(* the owners of data put on that application in the contract: a task polls   *)
(* the contract's list every few seconds (manage_data_access_changes), turns  *)
(* the access bits of owners that are new on the list off and of owners that  *)
(* left it on (manage_db_access), and saves whom it turned off.               *)
(*                                                                            *)
(* A poll that fails looks like an empty list.  The task does not end when    *)
(* the application is left: running it again starts another one.  Every       *)
(* change of a bit copies the application's table and puts the copy back, and *)
(* so do client commands, uploads and merges of gossip.  Peers run the same   *)
(* code: they gossip and publish bits that are off only for owners who once   *)
(* were on the list.                                                          *)
EXTENDS Naturals

CONSTANTS
    Owners,     \* owners of entries
    App,        \* the application, an owner itself
    Monitors,   \* tasks that can be started
    None        \* no entry, no copy, no notice

ASSUME AccessMonitorAssumption == App \in Owners

\* The access bit of each owner's entry; all None when the table is not in memory.
Tables == [Owners -> BOOLEAN \cup {None}]
Absent == [o \in Owners |-> None]

ASSUME NamesAssumption == None \notin BOOLEAN \cup Tables

VARIABLES
    blockers,     \* the contract: restricted[App]
    everBlocked,  \* history: who was on that list
    table,        \* access bits
    saved,        \* DataAccessManager.restrictions[App]
    monitor,      \* the task: where it is, with its local variables
    writer,       \* a table copied by another task, to be put back, or None
    notice,       \* what the network loop is telling the contract about, or None
    stuck,        \* the network loop waits in a circle of tasks and never goes on
    slipped       \* history: who was made readable after a task decided to deny them

vars == <<blockers, everBlocked, table, saved, monitor, writer, notice, stuck, slipped>>

Phases == {"off", "poll", "compare", "allow", "forget", "deny"}

Off == [pc |-> "off", polled |-> {}, todo |-> {}, actors |-> {}, owner |-> App,
        copy |-> None, sends |-> 0]

\* Owners that t makes readable.
Opened(t) == {o \in Owners : t[o] = TRUE /\ table[o] # TRUE}

PutTable(t) ==
    /\ table' = t
    /\ slipped' = slipped \cup Opened(t)

Go(m, phase) == monitor' = [monitor EXCEPT ![m].pc = phase]

-----------------------------------------------------------------------------
(* manage_data_access_changes                                                 *)

\* The list as it is parsed: a failed call has an empty output, from which one
\* zero character comes, which is filtered out.
Parsed(answered) == IF answered THEN blockers ELSE {}

\* get_application_access_blockers.
Poll(m, answered) ==
    /\ monitor[m].pc = "poll"
    /\ monitor' = [monitor EXCEPT ![m].pc = "compare", ![m].polled = Parsed(answered)]
    /\ UNCHANGED <<blockers, everBlocked, table, saved, writer, notice, stuck, slipped>>

\* Faulty variant: the two lists are taken the other way round.
CompareSwapped(m) ==
    /\ monitor[m].pc = "compare"
    /\ monitor' = [monitor EXCEPT ![m].pc = "allow",
                                  ![m].todo = monitor[m].polled \ saved]
    /\ UNCHANGED <<blockers, everBlocked, table, saved, writer, notice, stuck, slipped>>

\* Those who are saved and no longer listed are to be allowed.
Compare(m) ==
    /\ monitor[m].pc = "compare"
    /\ monitor' = [monitor EXCEPT ![m].pc = "allow",
                                  ![m].todo = saved \ monitor[m].polled]
    /\ UNCHANGED <<blockers, everBlocked, table, saved, writer, notice, stuck, slipped>>

\* Faulty variant: the bit is turned on whatever is asked for.
WithAccessOn(t, o, perm) == [t EXCEPT ![o] = TRUE]

WithAccess(t, o, perm) == [t EXCEPT ![o] = perm]

\* Faulty variant: the owner is taken off the list before the copy is put back.
CopyTablePop(m, o) ==
    /\ monitor[m].pc \in {"allow", "deny"} /\ monitor[m].copy = None /\ monitor[m].sends = 0
    /\ o \in monitor[m].todo /\ table[o] # None
    /\ monitor' = [monitor EXCEPT
                      ![m].owner = o, ![m].todo = @ \ {o},
                      ![m].copy = WithAccess(table, o, monitor[m].pc = "allow")]
    /\ UNCHANGED <<blockers, everBlocked, table, saved, writer, notice, stuck, slipped>>

\* manage_db_access copies the table, if there is an entry of the owner, ...
CopyTable(m, o) ==
    /\ monitor[m].pc \in {"allow", "deny"} /\ monitor[m].copy = None /\ monitor[m].sends = 0
    /\ o \in monitor[m].todo /\ table[o] # None
    /\ monitor' = [monitor EXCEPT
                      ![m].owner = o,
                      ![m].copy = WithAccess(table, o, monitor[m].pc = "allow")]
    /\ UNCHANGED <<blockers, everBlocked, table, saved, writer, notice, stuck, slipped>>

\* Done with an owner; one that was allowed is taken off the saved list.
Done(m, o) ==
    monitor' = [monitor EXCEPT
                   ![m].pc = IF @ = "allow" THEN "forget" ELSE @,
                   ![m].owner = IF monitor[m].pc = "allow" THEN o ELSE App,
                   ![m].sends = 0, ![m].todo = @ \ {o}]

NoEntry(m, o) ==
    /\ monitor[m].pc \in {"allow", "deny"} /\ monitor[m].copy = None /\ monitor[m].sends = 0
    /\ o \in monitor[m].todo /\ table[o] = None
    /\ Done(m, o)
    /\ UNCHANGED <<blockers, everBlocked, table, saved, writer, notice, stuck, slipped>>

\* ... and puts the copy back.  Two messages are for the network loop then, ...
PutCopy(m) ==
    /\ monitor[m].copy # None
    /\ PutTable(monitor[m].copy)
    /\ monitor' = [monitor EXCEPT ![m].copy = None, ![m].sends = 2]
    /\ UNCHANGED <<blockers, everBlocked, saved, writer, notice, stuck>>

\* The loop takes a message when it is done with the last.
LoopFree == notice = None /\ ~stuck

\* ... that the data was altered (SetNetworkSyncFlag) ...
Tell(m) ==
    /\ monitor[m].sends = 2 /\ LoopFree
    /\ monitor' = [monitor EXCEPT ![m].sends = 1]
    /\ UNCHANGED <<blockers, everBlocked, table, saved, writer, notice, stuck, slipped>>

\* ... and who is denied (GossipAccessChange), which the loop tells the contract.
\* It has the owner and the application the wrong way round there, so the only
\* change that bears on the application's list is that of its own entry.
TellAccess(m) ==
    LET o == monitor[m].owner
    IN  /\ monitor[m].sends = 1 /\ LoopFree
        /\ notice' = IF o = App THEN monitor[m].pc = "allow" ELSE None
        /\ Done(m, o)
        /\ UNCHANGED <<blockers, everBlocked, table, saved, writer, stuck, slipped>>

\* What is removed from the saved lists is the owner's list, not the owner.
Forget(m) ==
    /\ monitor[m].pc = "forget"
    /\ saved' = IF monitor[m].owner = App THEN {} ELSE saved
    /\ monitor' = [monitor EXCEPT ![m].pc = "allow", ![m].owner = App]
    /\ UNCHANGED <<blockers, everBlocked, table, writer, notice, stuck, slipped>>

\* When they are allowed, those who are listed and not saved are to be denied.
Review(m) ==
    LET blocking == monitor[m].polled \ saved
    IN  /\ monitor[m].pc = "allow" /\ monitor[m].todo = {}
        /\ monitor' = [monitor EXCEPT ![m].pc = IF blocking = {} THEN "poll" ELSE "deny",
                                      ![m].actors = saved, ![m].todo = blocking]
        /\ slipped' = slipped \ blocking
        /\ UNCHANGED <<blockers, everBlocked, table, saved, writer, notice, stuck>>

\* Faulty variant: what was saved before is saved again.
SaveForgets(m) ==
    /\ monitor[m].pc = "deny" /\ monitor[m].todo = {}
    /\ saved' = monitor[m].actors
    /\ monitor' = [monitor EXCEPT ![m].pc = "poll", ![m].actors = {}]
    /\ UNCHANGED <<blockers, everBlocked, table, writer, notice, stuck, slipped>>

Save(m) ==
    /\ monitor[m].pc = "deny" /\ monitor[m].todo = {}
    /\ saved' = monitor[m].actors \cup monitor[m].polled
    /\ monitor' = [monitor EXCEPT ![m].pc = "poll", ![m].actors = {}]
    /\ UNCHANGED <<blockers, everBlocked, table, writer, notice, stuck, slipped>>

Monitor(m) ==
    \/ \E answered \in BOOLEAN : Poll(m, answered)
    \/ Compare(m) \/ PutCopy(m) \/ Tell(m) \/ TellAccess(m) \/ Forget(m) \/ Review(m) \/ Save(m)
    \/ \E o \in Owners : CopyTable(m, o) \/ NoEntry(m, o)

-----------------------------------------------------------------------------
(* The contract, the network loop, other tasks                                *)

Restrict(o) ==
    /\ blockers' = blockers \cup {o}
    /\ everBlocked' = everBlocked \cup {o}
    /\ UNCHANGED <<table, saved, monitor, writer, notice, stuck, slipped>>

Unrestrict(o) ==
    /\ blockers' = blockers \ {o}
    /\ UNCHANGED <<everBlocked, table, saved, monitor, writer, notice, stuck, slipped>>

\* modify_app_access restricts when access is allowed, and the other way round.
Modified(perm) == IF perm THEN blockers \cup {App} ELSE blockers \ {App}

\* The transaction may fail.
Notify(done) ==
    /\ notice # None /\ ~stuck
    /\ blockers' = IF done THEN Modified(notice) ELSE blockers
    /\ notice' = None
    /\ UNCHANGED <<everBlocked, table, saved, monitor, writer, stuck, slipped>>

\* NetworkLoop!OnlyKnownCircles names the circles; only a restart ends them.
LoopStops ==
    /\ ~stuck /\ stuck' = TRUE
    /\ UNCHANGED <<blockers, everBlocked, table, saved, monitor, writer, notice, slipped>>

\* Faulty variant: entries are made with the default bit.
NewEntryOff(t, o) == [t EXCEPT ![o] = IF t[o] = None THEN FALSE ELSE @]

NewEntry(t, o) == [t EXCEPT ![o] = IF t[o] = None THEN TRUE ELSE @]

Copy(t) ==
    /\ writer = None
    /\ writer' = t
    /\ UNCHANGED <<blockers, everBlocked, table, saved, monitor, notice, stuck, slipped>>

\* set_db_value, deletions, update_data_image, localize_application_data.
StartWrite(o) == table # Absent /\ Copy(NewEntry(table, o))

\* Data of an owner without an entry, merged from a peer: the others' are lost.
HearWrite(o) == table[o] = None /\ Copy(NewEntry(Absent, o))

\* A peer's monitor changed a bit.
HearAccess(o, perm) ==
    /\ table[o] # None /\ o \in everBlocked
    /\ Copy(WithAccess(table, o, perm))

EndWrite ==
    /\ writer # None
    /\ PutTable(writer)
    /\ writer' = None
    /\ UNCHANGED <<blockers, everBlocked, saved, monitor, notice, stuck>>

Leave ==
    /\ table # Absent
    /\ PutTable(Absent)
    /\ UNCHANGED <<blockers, everBlocked, saved, monitor, writer, notice, stuck>>

\* The table is that of an image some node published, or new.
Join(m, t) ==
    /\ table = Absent /\ monitor[m].pc = "off"
    /\ \A o \in Owners : t[o] = FALSE => o \in everBlocked
    /\ t[App] # None
    /\ PutTable(t)
    /\ Go(m, "poll")
    /\ UNCHANGED <<blockers, everBlocked, saved, writer, notice, stuck>>

Crash ==
    /\ \E m \in Monitors : monitor[m].pc # "off"
    /\ PutTable(Absent)
    /\ saved' = {} /\ writer' = None /\ notice' = None /\ stuck' = FALSE
    /\ monitor' = [m \in Monitors |-> Off]
    /\ UNCHANGED <<blockers, everBlocked>>

Others ==
    \/ \E o \in Owners : Restrict(o) \/ Unrestrict(o) \/ StartWrite(o) \/ HearWrite(o)
    \/ \E o \in Owners, perm \in BOOLEAN : HearAccess(o, perm)
    \/ \E done \in BOOLEAN : Notify(done)
    \/ EndWrite \/ Leave \/ Crash \/ LoopStops
    \/ \E m \in Monitors, t \in Tables : Join(m, t)

Init ==
    /\ blockers = {} /\ everBlocked = {}
    /\ table = Absent /\ saved = {}
    /\ monitor = [m \in Monitors |-> Off]
    /\ writer = None /\ notice = None /\ stuck = FALSE /\ slipped = {}

Next == Others \/ \E m \in Monitors : Monitor(m)

\* The scheduler runs every task, and the chain is not out of reach for ever.
\* Nothing is assumed once the network loop is stuck: a task that changes a bit
\* waits for the loop, and others wait for the locks of those in the circle.
Fairness ==
    /\ \A m \in Monitors : WF_vars(~stuck /\ Monitor(m)) /\ SF_vars(~stuck /\ Poll(m, TRUE))
    /\ WF_vars(\E done \in BOOLEAN : Notify(done))

Spec == Init /\ [][Next]_vars

FairSpec == Spec /\ Fairness

-----------------------------------------------------------------------------
(* Properties                                                                 *)

Tasks == [pc : Phases, polled : SUBSET Owners, todo : SUBSET Owners,
          actors : SUBSET Owners, owner : Owners, copy : Tables \cup {None}, sends : 0..2]

(* Every variable has its values, and a task has a copy, or messages to send, *)
(* only for an owner it has still to allow or to deny.                        *)
TypeOK ==
    /\ blockers \subseteq Owners /\ everBlocked \subseteq Owners
    /\ saved \subseteq Owners /\ slipped \subseteq Owners
    /\ table \in Tables /\ writer \in Tables \cup {None}
    /\ monitor \in [Monitors -> Tasks]
    /\ \A m \in Monitors : monitor[m].copy # None \/ monitor[m].sends # 0 =>
          /\ monitor[m].pc \in {"allow", "deny"} /\ monitor[m].owner \in monitor[m].todo
          /\ monitor[m].copy = None \/ monitor[m].sends = 0
    /\ notice \in BOOLEAN \cup {None} /\ stuck \in BOOLEAN

(* Whatever polls fail and whatever tables are put back over others, nobody   *)
(* who never restricted the application is denied to it                       *)
(* (manage_data_access_changes, network.rs 2506).                             *)
DeniedOnlyIfBlocked ==
    \A o \in Owners : table[o] = FALSE => o \in everBlocked

(* An owner on the saved list is one the task will not deny again (network.rs *)
(* 2573): such an owner is denied already, or is about to be, or somebody     *)
(* made the entry, or turned its bit on, after the task had decided.          *)
SavedMeansDenied ==
    \A o \in saved :
        table[o] = TRUE =>
            \/ o \in slipped
            \/ \E m \in Monitors : monitor[m].pc = "deny" /\ o \in monitor[m].todo

(* network.rs 2557, "remove it from the DID list we have saved": when the     *)
(* only task that runs is about to poll again, nobody is on the saved list    *)
(* that the last poll did not name.                                           *)
LiftedForgotten ==
    \A m \in Monitors :
        (monitor[m].pc = "poll" /\ \A n \in Monitors \ {m} : monitor[n].pc = "off")
            => saved \subseteq monitor[m].polled

Running == \E m \in Monitors : monitor[m].pc # "off"

Users == Owners \ {App}

(* A user's restriction that stays in the contract is noticed: the user comes *)
(* on the saved list, as long as the node runs and its network loop, which    *)
(* every change of a bit waits for (prelude 1802-1816), is not stuck.         *)
BlockNoticed ==
    \A o \in Users :
        (o \in blockers /\ Running)
            ~> (o \in saved \/ o \notin blockers \/ ~Running \/ stuck)

(* A restriction that was enforced and is lifted does not hold on: as long as *)
(* the user is saved and stays off the contract's list, their entry is        *)
(* readable, or gone, again and again, unless the network loop is stuck.      *)
LiftedIsAllowed ==
    \A o \in Users :
        (o \in saved /\ o \notin blockers)
            ~> (table[o] # FALSE \/ o \notin saved \/ o \in blockers \/ stuck)
=============================================================================
