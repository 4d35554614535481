--------------------------- MODULE SyncTokenProofs ---------------------------
(* Proofs about SyncToken, for any finite set of nodes, any durations in the  *)
(* order the code has them, and any number of joins, faults and messages.     *)
EXTENDS SyncToken, FiniteSetTheorems, TLAPS

USE NodesAssumption, DurationsAssumption, BoundsAssumption, NoneAssumption

-----------------------------------------------------------------------------
(* Types                                                                      *)

Counts == 0 .. MaxUpdates - 1 \cup {None}

Times == (-HandOver .. LongAgo) \cup {None}

LoopState ==
    [phase : {"asleep", "asked", "upload"}, sole : BOOLEAN,
     timer : Nat \cup {None}, peers : Seq(Nodes)]

Check == [left : Nat, place : Nat]

TypeInv ==
    /\ joined \subseteq Nodes /\ noted \subseteq Nodes /\ registering \subseteq Nodes
    /\ registered \subseteq Nodes /\ leaving \subseteq Nodes
    /\ mesh \in [Nodes -> Seq(Nodes)]
    /\ turn \in [Nodes -> BOOLEAN]
    /\ count \in [Nodes -> Counts]
    /\ sync_peers \in [Nodes -> Seq(Nodes)]
    /\ since \in [Nodes -> Times]
    /\ loops \in [Nodes -> Seq(LoopState)]
    /\ seize \in [Nodes -> SUBSET (0 .. SeizeAfter)]
    /\ checks \in [Nodes -> SUBSET Check]
    /\ net \subseteq Message

LEMMA TypeInvTypeOK == TypeInv => TypeOK
BY DEF TypeInv, TypeOK, Counts, Times, LoopState, Check

LEMMA TypeInit == Init => TypeInv
BY DEF Init, TypeInv, Counts, Times

\* An ordering of a set of nodes is a list of nodes.
LEMMA OrderingsAreLists ==
    ASSUME NEW S \in SUBSET Nodes, NEW s \in Orderings(S)
    PROVE  s \in Seq(Nodes)
<1>1. Cardinality(S) \in Nat
    BY FS_Subset, FS_CardinalityType
<1> QED
    BY <1>1 DEF Orderings

\* The list without its i-th entry.
LEMMA RemoveAtType ==
    ASSUME NEW S, NEW s \in Seq(S), NEW i \in DOMAIN s
    PROVE  RemoveAt(s, i) \in Seq(S)
BY DEF RemoveAt

LEMMA LoopsAt ==
    ASSUME loops \in [Nodes -> Seq(LoopState)], NEW n \in Nodes, NEW i \in DOMAIN loops[n],
           NEW t \in LoopState
    PROVE  [loops EXCEPT ![n][i] = t] \in [Nodes -> Seq(LoopState)]
<1>1. [loops[n] EXCEPT ![i] = t] \in Seq(LoopState)
    OBVIOUS
<1> QED
    BY <1>1

LEMMA AsleepType ==
    ASSUME NEW t \in Nat \cup {None}
    PROVE  Asleep(t) \in LoopState
<1>1. <<>> \in Seq(Nodes)
    OBVIOUS
<1> QED
    BY <1>1 DEF Asleep, LoopState

LEMMA UploadingType ==
    ASSUME NEW peers \in Seq(Nodes)
    PROVE  Uploading(peers) \in LoopState
BY DEF Uploading, LoopState

LEMMA JoinType ==
    ASSUME TypeInv, NEW n \in Nodes, Join(n)
    PROVE  TypeInv'
<1> USE DEF TypeInv
<1>1. mesh' \in [Nodes -> Seq(Nodes)]
    <2>0. PICK works \in BOOLEAN :
              \E peers \in Orderings(IF works THEN registered \ {n} ELSE {}) :
                  mesh' = [mesh EXCEPT ![n] = peers]
        BY DEF Join
    <2>1. PICK peers \in Orderings(IF works THEN registered \ {n} ELSE {}) :
              mesh' = [mesh EXCEPT ![n] = peers]
        BY <2>0
    <2>2. peers \in Seq(Nodes)
        <3>1. (IF works THEN registered \ {n} ELSE {}) \in SUBSET Nodes
            OBVIOUS
        <3> QED
            BY <2>1, <3>1, OrderingsAreLists
    <2> QED
        BY <2>1, <2>2
<1>2. loops' \in [Nodes -> Seq(LoopState)]
    BY AsleepType DEF Join
<1>3. seize' \in [Nodes -> SUBSET (0 .. SeizeAfter)]
    BY DEF Join
<1>4. net' \subseteq Message
    BY DEF Join, Announce, Message
<1> QED
    BY <1>1, <1>2, <1>3, <1>4 DEF Join

LEMMA MembershipType ==
    ASSUME TypeInv, NEW n \in Nodes,
           JoinFails(n) \/ Register(n) \/ LeaveBegin(n) \/ LeaveEnd(n)
    PROVE  TypeInv'
<1> USE DEF TypeInv
<1>1. CASE Register(n)
    BY <1>1 DEF Register
<1>2. CASE LeaveBegin(n)
    BY <1>2 DEF LeaveBegin
<1>3. CASE LeaveEnd(n)
    <2>1. net' \subseteq Message
        BY <1>3 DEF LeaveEnd, Announce, Message
    <2>2. mesh' \in [Nodes -> Seq(Nodes)]
        BY <1>3 DEF LeaveEnd
    <2> QED
        BY <1>3, <2>1, <2>2 DEF LeaveEnd
<1>4. CASE JoinFails(n)
    BY <1>4 DEF JoinFails
<1> QED
    BY <1>1, <1>2, <1>3, <1>4

LEMMA CrashType ==
    ASSUME TypeInv, NEW n \in Nodes, Crash(n)
    PROVE  TypeInv'
BY DEF TypeInv, Crash, Counts, Times

LEMMA WakeType ==
    ASSUME TypeInv, NEW n \in Nodes, NEW i \in DOMAIN loops[n], Wake(n, i)
    PROVE  TypeInv'
<1> USE DEF TypeInv
<1>0. loops[n] \in Seq(LoopState) /\ loops[n][i] \in LoopState
    OBVIOUS
<1>1. loops' \in [Nodes -> Seq(LoopState)]
    <2>1. CASE n \in noted
        <3>1. PICK works \in BOOLEAN :
                  loops' = [loops EXCEPT ![n][i] =
                       [@ EXCEPT !.phase = "asked", !.timer = None,
                                 !.sole = works => Cardinality(registered) <= 1]]
            BY <2>1 DEF Wake
        <3> DEFINE alone == works => Cardinality(registered) <= 1
        <3>2. alone \in BOOLEAN
            OBVIOUS
        <3> HIDE DEF alone
        <3>3. [loops[n][i] EXCEPT !.phase = "asked", !.timer = None, !.sole = alone] \in LoopState
            BY <1>0, <3>2 DEF LoopState
        <3>4. loops' = [loops EXCEPT ![n][i] =
                  [loops[n][i] EXCEPT !.phase = "asked", !.timer = None, !.sole = alone]]
            BY <3>1 DEF alone
        <3> QED
            BY <3>3, <3>4, LoopsAt
    <2>2. CASE n \notin noted
        <3>1. loops' = [loops EXCEPT ![n] = RemoveAt(loops[n], i)]
            BY <2>2 DEF Wake
        <3>2. RemoveAt(loops[n], i) \in Seq(LoopState)
            BY <1>0, RemoveAtType
        <3> QED
            BY <3>1, <3>2
    <2> QED
        BY <2>1, <2>2
<1> QED
    BY <1>1 DEF Wake

LEMMA DecideType ==
    ASSUME TypeInv, NEW n \in Nodes, NEW i \in DOMAIN loops[n],
           \/ DecideAlone(n, i) \/ DecideUpload(n, i) \/ DecideMonitor(n, i)
           \/ NoteImage(n, i)
    PROVE  TypeInv'
<1> USE DEF TypeInv
<1>0. loops[n] \in Seq(LoopState) /\ loops[n][i] \in LoopState
    OBVIOUS
<1>1. Asleep(SyncFrequency) \in LoopState
    BY AsleepType
<1>2. CASE DecideAlone(n, i)
    <2>0. Uploading(<<>>) \in LoopState
        <3>1. <<>> \in Seq(Nodes)
            OBVIOUS
        <3> QED
            BY <3>1, UploadingType
    <2>1. loops' \in [Nodes -> Seq(LoopState)]
        BY <1>2, <2>0, LoopsAt DEF DecideAlone
    <2> QED
        BY <1>2, <2>1 DEF DecideAlone
<1>3. CASE DecideUpload(n, i)
    <2>1. Uploading(mesh[n]) \in LoopState
        BY UploadingType
    <2>2. loops' \in [Nodes -> Seq(LoopState)]
        BY <1>3, <2>1, LoopsAt DEF DecideUpload
    <2> QED
        BY <1>3, <2>2 DEF DecideUpload
<1>4. CASE DecideMonitor(n, i)
    <2>1. loops' \in [Nodes -> Seq(LoopState)]
        BY <1>4, <1>1, LoopsAt DEF DecideMonitor, Rest
    <2>2. checks' \in [Nodes -> SUBSET Check]
        <3>1. \A p \in DOMAIN sync_peers[n] : p \in Nat
            OBVIOUS
        <3> QED
            BY <1>4, <3>1 DEF DecideMonitor, Check
    <2> QED
        BY <1>4, <2>1, <2>2 DEF DecideMonitor
<1>5. CASE NoteImage(n, i)
    BY <1>5 DEF NoteImage
<1> QED
    BY <1>2, <1>3, <1>4, <1>5

\* What the SYNC of node n counts, and what it leaves behind.
LEMMA SentCounts ==
    ASSUME TypeInv, NEW n \in Nodes, NEW sent,
           sent = IF count[n] = None THEN 0 ELSE count[n]
    PROVE  /\ sent \in 0 .. MaxUpdates - 1
           /\ (IF PassesOn(sent) THEN 0 ELSE sent + 1) \in 0 .. MaxUpdates - 1
<1>1. count[n] \in 0 .. MaxUpdates - 1 \cup {None}
    BY DEF TypeInv, Counts
<1>2. sent \in 0 .. MaxUpdates - 1
    BY <1>1
<1>3. sent # MaxUpdates - 1 => sent + 1 \in 0 .. MaxUpdates - 1
    BY <1>2
<1>4. sent = MaxUpdates - 1 => PassesOn(sent)
    BY <1>2 DEF PassesOn
<1> QED
    BY <1>2, <1>3, <1>4

LEMMA SendSyncType ==
    ASSUME TypeInv, NEW n \in Nodes, NEW i \in DOMAIN loops[n], SendSync(n, i)
    PROVE  TypeInv'
<1> USE DEF TypeInv
<1> DEFINE peers == loops[n][i].peers
           sent == IF count[n] = None THEN 0 ELSE count[n]
<1>0. loops[n][i] \in LoopState /\ peers \in Seq(Nodes)
    <2>1. loops[n] \in Seq(LoopState)
        OBVIOUS
    <2>2. loops[n][i] \in LoopState
        BY <2>1
    <2> QED
        BY <2>2 DEF LoopState
<1>1. loops' \in [Nodes -> Seq(LoopState)]
    BY AsleepType, LoopsAt DEF SendSync, Rest
<1>2. CASE peers = <<>>
    BY <1>1, <1>2 DEF SendSync
<1>3. CASE peers # <<>>
    <2>1. /\ net' = net \cup {SyncMsg(p, sent, peers) : p \in ToSet(peers)}
          /\ count' = [count EXCEPT ![n] = IF PassesOn(sent) THEN 0 ELSE sent + 1]
          /\ turn' = [turn EXCEPT ![n] = @ /\ ~PassesOn(sent)]
          /\ since' = IF PassesOn(sent) THEN [since EXCEPT ![n] = -HandOver] ELSE since
        BY <1>3 DEF SendSync
    <2>2. /\ sent \in 0 .. MaxUpdates - 1
          /\ (IF PassesOn(sent) THEN 0 ELSE sent + 1) \in 0 .. MaxUpdates - 1
        BY SentCounts
    <2> HIDE DEF sent
    <2>3. net' \subseteq Message
        <3>1. ToSet(peers) \subseteq Nodes
            BY <1>0 DEF ToSet
        <3>2. \A p \in ToSet(peers) : SyncMsg(p, sent, peers) \in Message
            BY <1>0, <2>2, <3>1 DEF SyncMsg, Message
        <3> QED
            BY <2>1, <3>2
    <2>4. count' \in [Nodes -> Counts]
        BY <2>1, <2>2 DEF Counts
    <2>5. turn' \in [Nodes -> BOOLEAN]
        <3>1. (turn[n] /\ ~PassesOn(sent)) \in BOOLEAN
            OBVIOUS
        <3> QED
            BY <2>1, <3>1
    <2>6. since' \in [Nodes -> Times]
        <3>1. -HandOver \in Times
            BY DEF Times
        <3> QED
            BY <2>1, <3>1
    <2> QED
        BY <1>1, <2>3, <2>4, <2>5, <2>6 DEF SendSync
<1> QED
    BY <1>2, <1>3

LEMMA CheckType ==
    ASSUME TypeInv, NEW n \in Nodes, TakeOver(n) \/ Seize(n)
    PROVE  TypeInv'
<1> USE DEF TypeInv
<1>1. CASE TakeOver(n)
    <2>1. PICK check \in checks[n] :
              /\ checks' = [checks EXCEPT ![n] = @ \ {check}]
              /\ turn' = [turn EXCEPT ![n] = @ \/ Overdue(n, check.place)]
              /\ UNCHANGED <<joined, noted, registering, registered, leaving, mesh, count,
                             sync_peers, since, loops, seize, net, counters>>
        BY <1>1 DEF TakeOver
    <2>2. turn' \in [Nodes -> BOOLEAN]
        <3>1. (turn[n] \/ Overdue(n, check.place)) \in BOOLEAN
            BY DEF Overdue
        <3> QED
            BY <2>1, <3>1
    <2>3. checks' \in [Nodes -> SUBSET Check]
        BY <2>1
    <2> QED
        BY <2>1, <2>2, <2>3
<1>2. CASE Seize(n)
    <2>1. turn' \in [Nodes -> BOOLEAN]
        <3>1. (turn[n] \/ (Quiet(n) /\ sync_peers[n] = <<>>)) \in BOOLEAN
            BY DEF Quiet
        <3> QED
            BY <1>2, <3>1 DEF Seize
    <2> QED
        BY <1>2, <2>1 DEF Seize
<1> QED
    BY <1>1, <1>2

LEMMA ReceiveType ==
    ASSUME TypeInv, NEW m \in net, ReceiveSync(m) \/ ReceiveAnnouncement(m) \/ Lose(m)
    PROVE  TypeInv'
<1> USE DEF TypeInv
<1>0. m \in Message
    OBVIOUS
<1>1. CASE ReceiveSync(m)
    <2> DEFINE yield == Holds(m.to) /\ count[m.to] # None /\ count[m.to] <= m.update_count
    <2>0. m.to \in Nodes /\ m.peers \in Seq(Nodes)
        BY <1>0, <1>1 DEF Message, ReceiveSync
    <2>1. /\ turn' = [turn EXCEPT ![m.to] = @ /\ ~yield]
          /\ count' = IF yield THEN [count EXCEPT ![m.to] = 0] ELSE count
        BY <1>1 DEF ReceiveSync
    <2>2. turn' \in [Nodes -> BOOLEAN]
        <3>1. (turn[m.to] /\ ~yield) \in BOOLEAN
            OBVIOUS
        <3> QED
            BY <2>1, <3>1
    <2>3. count' \in [Nodes -> Counts]
        <3>1. 0 \in Counts
            BY DEF Counts
        <3> QED
            BY <2>1, <3>1
    <2>4. since' \in [Nodes -> Times] /\ sync_peers' \in [Nodes -> Seq(Nodes)]
        <3>1. 0 \in Times
            BY DEF Times
        <3> QED
            BY <1>1, <2>0, <3>1 DEF ReceiveSync
    <2> QED
        BY <1>1, <2>2, <2>3, <2>4 DEF ReceiveSync
<1>2. CASE ReceiveAnnouncement(m)
    <2>1. m.to \in Nodes /\ m.from \in Nodes
        BY <1>0, <1>2 DEF Message, ReceiveAnnouncement
    <2>2. mesh' \in [Nodes -> Seq(Nodes)]
        <3>1. PICK p \in (joined \cup leaving \cup {m.from}) \ {m.to} :
                  mesh' = IF m.to \notin joined THEN mesh
                          ELSE [mesh EXCEPT ![m.to] = IF m.type = "Subscribe"
                                                      THEN Append(@, p) ELSE <<>>]
            BY <1>2 DEF ReceiveAnnouncement
        <3>2. p \in Nodes
            BY <2>1
        <3> QED
            BY <2>1, <3>1, <3>2
    <2> QED
        BY <1>2, <2>2 DEF ReceiveAnnouncement
<1>3. CASE Lose(m)
    BY <1>3 DEF Lose
<1> QED
    BY <1>1, <1>2, <1>3

LEMMA TickType == TypeInv /\ Tick => TypeInv'
<1> SUFFICES ASSUME TypeInv, Tick PROVE TypeInv'
    OBVIOUS
<1> USE DEF TypeInv
<1>0. \A t \in Nat \cup {None} : Less(t) \in Nat \cup {None}
    BY DEF Less
<1>1. since' \in [Nodes -> Times]
    <2>1. \A n \in Nodes :
              (IF since[n] \in {None, LongAgo} THEN since[n] ELSE since[n] + 1) \in Times
        BY DEF Times
    <2> QED
        BY <2>1 DEF Tick
<1>2. loops' \in [Nodes -> Seq(LoopState)]
    <2>1. ASSUME NEW n \in Nodes
          PROVE  [i \in DOMAIN loops[n] |-> [loops[n][i] EXCEPT !.timer = Less(@)]]
                     \in Seq(LoopState)
        <3>1. loops[n] \in Seq(LoopState) /\ DOMAIN loops[n] = 1 .. Len(loops[n])
              /\ Len(loops[n]) \in Nat
            OBVIOUS
        <3>2. ASSUME NEW i \in 1 .. Len(loops[n])
              PROVE  [loops[n][i] EXCEPT !.timer = Less(@)] \in LoopState
            <4>1. loops[n][i] \in LoopState
                BY <3>1
            <4>2. loops[n][i].timer \in Nat \cup {None}
                BY <4>1 DEF LoopState
            <4>3. Less(loops[n][i].timer) \in Nat \cup {None}
                BY <4>2, <1>0
            <4> QED
                BY <4>1, <4>3 DEF LoopState
        <3> QED
            BY <3>1, <3>2
    <2> QED
        BY <2>1 DEF Tick
<1>3. seize' \in [Nodes -> SUBSET (0 .. SeizeAfter)]
    <2>1. \A t \in 0 .. SeizeAfter : Less(t) \in 0 .. SeizeAfter
        BY DEF Less
    <2>2. \A n \in Nodes : {Less(t) : t \in seize[n]} \in SUBSET (0 .. SeizeAfter)
        BY <2>1
    <2> QED
        BY <2>2 DEF Tick
<1>4. checks' \in [Nodes -> SUBSET Check]
    <2>1. ASSUME NEW c \in Check
          PROVE  [c EXCEPT !.left = Less(@)] \in Check
        <3>1. c.left \in Nat /\ None \notin Nat
            BY DEF Check
        <3>2. Less(c.left) \in Nat
            BY <3>1 DEF Less
        <3> QED
            BY <3>2 DEF Check
    <2>2. \A n \in Nodes : {[check EXCEPT !.left = Less(@)] : check \in checks[n]} \in SUBSET Check
        BY <2>1
    <2> QED
        BY <2>2 DEF Tick
<1> QED
    BY <1>1, <1>2, <1>3, <1>4 DEF Tick

LEMMA TypeStep == TypeInv /\ [Next]_vars => TypeInv'
<1> SUFFICES ASSUME TypeInv, [Next]_vars PROVE TypeInv'
    OBVIOUS
<1>1. CASE UNCHANGED vars
    BY <1>1 DEF vars, TypeInv, counters
<1> QED
    BY <1>1, JoinType, MembershipType, CrashType, WakeType, DecideType, SendSyncType,
       CheckType, ReceiveType, TickType DEF Next

(* Counts, times, lists and messages are what their types say, on any nodes   *)
(* and with any durations: no count reaches the number that passes the token  *)
(* on, and no time leaves its range.                                          *)
THEOREM TypeCorrect == Spec => []TypeOK
<1>1. Spec => []TypeInv
    BY TypeInit, TypeStep, PTL DEF Spec
<1> QED
    BY <1>1, TypeInvTypeOK, PTL

-----------------------------------------------------------------------------
(* The token.  Besides the property itself the invariant says what the checks *)
(* rely on: a node is on the list of any SYNC it received, and a node that    *)
(* has a last_sync_time was sent a SYNC or sent one.                          *)

Covered(n) ==
    \/ Holds(n)
    \/ n \in ToSet(sync_peers[n])
    \/ seize[n] # {} /\ since[n] = None
    \/ OnlySent(n)

OnItsList(n) == sync_peers[n] # <<>> => n \in ToSet(sync_peers[n])

TimedBySync(n) == since[n] # None => sync_peers[n] # <<>> \/ count[n] # None

SyncsNameReceiver == \A m \in net : m.type = "Sync" => m.to \in ToSet(m.peers)

HeirInv ==
    /\ \A n \in TakingPart : Covered(n)
    /\ \A n \in Nodes : OnItsList(n) /\ TimedBySync(n)
    /\ SyncsNameReceiver

LEMMA HeirInvProperty == HeirInv => HolderOrHeir
BY DEF HeirInv, Covered, HolderOrHeir

LEMMA HeirInit == Init => HeirInv
BY DEF Init, HeirInv, TakingPart, OnItsList, TimedBySync, SyncsNameReceiver

LEMMA NotOnEmpty == \A n : n \notin ToSet(<<>>)
BY DEF ToSet

\* A node that a step leaves alone.
LEMMA NodeSame ==
    ASSUME NEW n,
           turn'[n] = turn[n], count'[n] = count[n], sync_peers'[n] = sync_peers[n],
           since'[n] = since[n], seize'[n] = seize[n]
    PROVE  /\ Covered(n) => Covered(n)'
           /\ OnItsList(n) /\ TimedBySync(n) => OnItsList(n)' /\ TimedBySync(n)'
BY DEF Covered, OnItsList, TimedBySync, Holds, OnlySent

\* A step that changes at most what node n knows.
LEMMA HeirFrame ==
    ASSUME TypeInv, HeirInv, NEW n \in Nodes, TypeInv',
           \A k \in Nodes \ {n} :
               /\ turn'[k] = turn[k] /\ count'[k] = count[k]
               /\ sync_peers'[k] = sync_peers[k] /\ since'[k] = since[k]
               /\ seize'[k] = seize[k] /\ loops'[k] = loops[k],
           joined' \ {n} \subseteq joined,
           n \in TakingPart' => Covered(n)',
           OnItsList(n)' /\ TimedBySync(n)', SyncsNameReceiver'
    PROVE  HeirInv'
<1>1. \A k \in Nodes \ {n} : /\ Covered(k) => Covered(k)'
                             /\ OnItsList(k)' /\ TimedBySync(k)'
    BY NodeSame DEF HeirInv
<1>2. \A k \in TakingPart' : Covered(k)'
    <2> TAKE k \in TakingPart'
    <2>1. k \in Nodes
        BY DEF TypeInv, TakingPart
    <2>2. CASE k = n
        BY <2>2
    <2>3. CASE k # n
        <3>1. k \in TakingPart
            BY <2>1, <2>3 DEF TakingPart
        <3> QED
            BY <2>1, <2>3, <3>1, <1>1 DEF HeirInv
    <2> QED
        BY <2>2, <2>3
<1>3. \A k \in Nodes : OnItsList(k)' /\ TimedBySync(k)'
    BY <1>1
<1> QED
    BY <1>2, <1>3 DEF HeirInv

LEMMA MembershipHeir ==
    ASSUME TypeInv, HeirInv, TypeInv', NEW n \in Nodes,
           \/ Join(n) \/ JoinFails(n) \/ Register(n)
           \/ LeaveBegin(n) \/ LeaveEnd(n) \/ Crash(n)
    PROVE  HeirInv'
<1>0. n \in TakingPart => Covered(n)
    BY DEF HeirInv
<1>1. OnItsList(n) /\ TimedBySync(n) /\ SyncsNameReceiver
    BY DEF HeirInv
<1>2. CASE Join(n)
    <2>1. /\ UNCHANGED <<turn, count, sync_peers, since>>
          /\ seize' = [seize EXCEPT ![n] = @ \cup {SeizeAfter}]
          /\ joined' = joined \cup {n} /\ net' = net \cup Announce("Subscribe", n)
        BY <1>2 DEF Join
    <2>2. /\ seize'[n] # {}
          /\ \A k \in Nodes \ {n} : seize'[k] = seize[k] /\ loops'[k] = loops[k]
        BY <1>2, <2>1 DEF TypeInv, Join
    <2>3. OnItsList(n)' /\ TimedBySync(n)'
        BY <1>1, <2>1 DEF OnItsList, TimedBySync
    <2>4. Covered(n)'
        BY <2>2, <2>3 DEF Covered, OnItsList, TimedBySync, OnlySent
    <2>5. SyncsNameReceiver'
        BY <1>1, <2>1 DEF SyncsNameReceiver, Announce
    <2> QED
        BY <2>1, <2>2, <2>3, <2>4, <2>5, HeirFrame
<1>3. CASE JoinFails(n) \/ Register(n) \/ LeaveBegin(n) \/ LeaveEnd(n)
    <2>1. /\ UNCHANGED <<turn, count, sync_peers, since, seize, loops>>
          /\ joined' \subseteq joined
        BY <1>3 DEF JoinFails, Register, LeaveBegin, LeaveEnd
    <2>2. OnItsList(n)' /\ TimedBySync(n)' /\ (n \in TakingPart' => Covered(n)')
        <3>1. n \in TakingPart' => n \in TakingPart
            BY <2>1 DEF TakingPart
        <3> QED
            BY <1>0, <1>1, <2>1, <3>1, NodeSame
    <2>3. SyncsNameReceiver'
        BY <1>1, <1>3
           DEF SyncsNameReceiver, Announce, JoinFails, Register, LeaveBegin, LeaveEnd
    <2> QED
        BY <2>1, <2>2, <2>3, HeirFrame
<1>4. CASE Crash(n)
    <2>1. /\ turn' = [turn EXCEPT ![n] = FALSE] /\ count' = [count EXCEPT ![n] = None]
          /\ sync_peers' = [sync_peers EXCEPT ![n] = <<>>] /\ since' = [since EXCEPT ![n] = None]
          /\ seize' = [seize EXCEPT ![n] = {}] /\ loops' = [loops EXCEPT ![n] = <<>>]
          /\ joined' = joined \ {n} /\ net' \subseteq net
        BY <1>4 DEF Crash
    <2>2. OnItsList(n)' /\ TimedBySync(n)'
        BY <2>1 DEF OnItsList, TimedBySync, TypeInv
    <2>3. SyncsNameReceiver'
        BY <1>1, <2>1 DEF SyncsNameReceiver
    <2>4. \A k \in Nodes \ {n} :
              /\ turn'[k] = turn[k] /\ count'[k] = count[k]
              /\ sync_peers'[k] = sync_peers[k] /\ since'[k] = since[k]
              /\ seize'[k] = seize[k] /\ loops'[k] = loops[k]
        BY <2>1 DEF TypeInv
    <2>5. n \notin TakingPart'
        BY <2>1 DEF TakingPart, TypeInv
    <2> QED
        BY <2>1, <2>2, <2>3, <2>4, <2>5, HeirFrame
<1> QED
    BY <1>2, <1>3, <1>4

LEMMA LoopHeir ==
    ASSUME TypeInv, HeirInv, TypeInv', NEW n \in Nodes, NEW i \in DOMAIN loops[n],
           \/ Wake(n, i) \/ DecideAlone(n, i) \/ DecideUpload(n, i) \/ DecideMonitor(n, i)
           \/ NoteImage(n, i) \/ SendSync(n, i)
    PROVE  HeirInv'
<1>0. Covered(n)
    <2>1. loops[n] # <<>>
        OBVIOUS
    <2> QED
        BY <2>1 DEF HeirInv, TakingPart
<1>9. \A k \in Nodes \ {n} : loops'[k] = loops[k]
    <2>1. loops \in [Nodes -> Seq(LoopState)]
        BY DEF TypeInv
    <2> QED
        BY <2>1 DEF Wake, DecideAlone, DecideUpload, DecideMonitor, NoteImage, SendSync, Rest
<1>1. OnItsList(n) /\ TimedBySync(n) /\ SyncsNameReceiver
    BY DEF HeirInv
<1>2. CASE Wake(n, i) \/ DecideUpload(n, i) \/ DecideMonitor(n, i) \/ NoteImage(n, i)
    <2>1. UNCHANGED <<turn, count, sync_peers, since, seize, joined, net>>
        BY <1>2 DEF Wake, DecideUpload, DecideMonitor, NoteImage, counters
    <2>2. OnItsList(n)' /\ TimedBySync(n)' /\ (n \in TakingPart' => Covered(n)')
        BY <1>0, <1>1, <2>1, NodeSame
    <2>3. SyncsNameReceiver'
        BY <1>1, <2>1 DEF SyncsNameReceiver
    <2> QED
        BY <2>1, <2>2, <2>3, <1>9, HeirFrame
<1>3. CASE DecideAlone(n, i)
    <2>1. /\ UNCHANGED <<count, sync_peers, since, seize, joined, net>>
          /\ turn' = [turn EXCEPT ![n] = TRUE]
        BY <1>3 DEF DecideAlone
    <2>2. Covered(n)' /\ \A k \in Nodes \ {n} : turn'[k] = turn[k]
        BY <2>1 DEF Covered, Holds, TypeInv
    <2>3. OnItsList(n)' /\ TimedBySync(n)' /\ SyncsNameReceiver'
        BY <1>1, <2>1 DEF OnItsList, TimedBySync, SyncsNameReceiver
    <2> QED
        BY <2>1, <2>2, <2>3, <1>9, HeirFrame
<1>4. CASE SendSync(n, i)
    <2> DEFINE peers == loops[n][i].peers
               sent == IF count[n] = None THEN 0 ELSE count[n]
    <2>1. UNCHANGED <<sync_peers, seize, joined>>
        BY <1>4 DEF SendSync
    <2>2. CASE peers = <<>>
        <3>1. UNCHANGED <<turn, count, since, net>>
            BY <1>4, <2>2 DEF SendSync
        <3>2. OnItsList(n)' /\ TimedBySync(n)' /\ (n \in TakingPart' => Covered(n)')
            BY <1>0, <1>1, <2>1, <3>1, NodeSame
        <3>3. SyncsNameReceiver'
            BY <1>1, <3>1 DEF SyncsNameReceiver
        <3> QED
            BY <2>1, <3>1, <3>2, <3>3, <1>9, HeirFrame
    <2>3. CASE peers # <<>>
        <3>1. /\ net' = net \cup {SyncMsg(p, sent, peers) : p \in ToSet(peers)}
              /\ count' = [count EXCEPT ![n] = IF PassesOn(sent) THEN 0 ELSE sent + 1]
              /\ turn' = [turn EXCEPT ![n] = @ /\ ~PassesOn(sent)]
              /\ since' = IF PassesOn(sent) THEN [since EXCEPT ![n] = -HandOver] ELSE since
            BY <1>4, <2>3 DEF SendSync
        <3>2. (IF PassesOn(sent) THEN 0 ELSE sent + 1) # None
            BY SentCounts
        <3> HIDE DEF sent, peers
        <3>3. count'[n] # None
            BY <3>1, <3>2 DEF TypeInv
        <3>4. \A k \in Nodes \ {n} :
                  turn'[k] = turn[k] /\ count'[k] = count[k] /\ since'[k] = since[k]
            BY <3>1 DEF TypeInv
        <3>5. OnItsList(n)' /\ TimedBySync(n)'
            BY <1>1, <2>1, <3>3 DEF OnItsList, TimedBySync
        <3>6. Covered(n)'
            BY <3>3, <3>5 DEF Covered, OnItsList, OnlySent
        <3>7. SyncsNameReceiver'
            BY <1>1, <3>1 DEF SyncsNameReceiver, SyncMsg
        <3> QED
            BY <2>1, <3>4, <3>5, <3>6, <3>7, <1>9, HeirFrame
    <2> QED
        BY <2>2, <2>3
<1> QED
    BY <1>2, <1>3, <1>4

LEMMA CheckHeir ==
    ASSUME TypeInv, HeirInv, TypeInv', NEW n \in Nodes, TakeOver(n) \/ Seize(n)
    PROVE  HeirInv'
<1>0. n \in TakingPart => Covered(n)
    BY DEF HeirInv
<1>1. OnItsList(n) /\ TimedBySync(n) /\ SyncsNameReceiver
    BY DEF HeirInv
<1>2. UNCHANGED <<count, sync_peers, since, joined, loops, net>>
    BY DEF TakeOver, Seize
<1>3. OnItsList(n)' /\ TimedBySync(n)' /\ SyncsNameReceiver'
    BY <1>1, <1>2 DEF OnItsList, TimedBySync, SyncsNameReceiver
<1>4. CASE TakeOver(n)
    <2>1. PICK check \in checks[n] : turn' = [turn EXCEPT ![n] = @ \/ Overdue(n, check.place)]
        BY <1>4 DEF TakeOver
    <2>2. (turn[n] => turn'[n]) /\ \A k \in Nodes \ {n} : turn'[k] = turn[k]
        BY <2>1 DEF TypeInv
    <2>3. seize' = seize
        BY <1>4 DEF TakeOver
    <2>4. n \in TakingPart' => Covered(n)'
        BY <1>0, <1>2, <2>2, <2>3 DEF Covered, Holds, OnlySent, TakingPart
    <2> QED
        BY <1>2, <1>3, <2>2, <2>3, <2>4, HeirFrame
<1>5. CASE Seize(n)
    <2>1. /\ seize' = [seize EXCEPT ![n] = @ \ {0}]
          /\ turn' = [turn EXCEPT ![n] = @ \/ (Quiet(n) /\ sync_peers[n] = <<>>)]
        BY <1>5 DEF Seize
    <2>2. /\ turn[n] => turn'[n]
          /\ Quiet(n) /\ sync_peers[n] = <<>> => turn'[n]
          /\ \A k \in Nodes \ {n} : turn'[k] = turn[k] /\ seize'[k] = seize[k]
        BY <2>1 DEF TypeInv
    <2>3. since[n] = None => Quiet(n)
        BY DEF Quiet
    <2>4. n \in TakingPart' => Covered(n)'
        <3>1. CASE sync_peers[n] = <<>>
            BY <3>1, <1>0, <1>2, <2>2, <2>3 DEF Covered, Holds, OnlySent, TakingPart
        <3>2. CASE sync_peers[n] # <<>>
            BY <3>2, <1>1, <1>2 DEF Covered, OnItsList
        <3> QED
            BY <3>1, <3>2
    <2> QED
        BY <1>2, <1>3, <2>2, <2>4, HeirFrame
<1> QED
    BY <1>4, <1>5

LEMMA NetHeir ==
    ASSUME TypeInv, HeirInv, TypeInv', NEW m \in net,
           ReceiveSync(m) \/ ReceiveAnnouncement(m) \/ Lose(m)
    PROVE  HeirInv'
<1>0. m \in Message /\ m.to \in Nodes
    BY DEF TypeInv, Message
<1>1. SyncsNameReceiver'
    BY DEF HeirInv, SyncsNameReceiver, ReceiveSync, ReceiveAnnouncement, Lose
<1>2. CASE ReceiveSync(m)
    <2> DEFINE n == m.to
    <2>1. m.type = "Sync" /\ n \in ToSet(m.peers)
        BY <1>2 DEF ReceiveSync, HeirInv, SyncsNameReceiver
    <2>2. /\ sync_peers' = [sync_peers EXCEPT ![n] = m.peers]
          /\ since' = [since EXCEPT ![n] = 0]
          /\ UNCHANGED <<joined, seize, loops>>
        BY <1>2 DEF ReceiveSync
    <2>3. \A k \in Nodes \ {n} : turn'[k] = turn[k] /\ count'[k] = count[k]
        BY <1>2 DEF ReceiveSync, TypeInv
    <2>4. n \in ToSet(sync_peers'[n]) /\ sync_peers'[n] # <<>>
        BY <1>0, <2>1, <2>2, NotOnEmpty DEF TypeInv
    <2>5. Covered(n)' /\ OnItsList(n)' /\ TimedBySync(n)'
        BY <2>4 DEF Covered, OnItsList, TimedBySync
    <2>6. \A k \in Nodes \ {n} : sync_peers'[k] = sync_peers[k] /\ since'[k] = since[k]
        BY <1>0, <2>2 DEF TypeInv
    <2> HIDE DEF n
    <2>7. n \in Nodes
        BY <1>0 DEF n
    <2> QED
        BY <1>1, <2>2, <2>3, <2>5, <2>6, <2>7, HeirFrame
<1>3. CASE ReceiveAnnouncement(m) \/ Lose(m)
    <2>1. UNCHANGED <<turn, count, sync_peers, since, seize, joined, loops>>
        BY <1>3 DEF ReceiveAnnouncement, Lose
    <2>2. \A n \in Nodes : /\ OnItsList(n)' /\ TimedBySync(n)'
                           /\ n \in TakingPart' => Covered(n)'
        BY <2>1, NodeSame DEF HeirInv, TakingPart
    <2> QED
        BY <1>0, <1>1, <2>1, <2>2, HeirFrame
<1> QED
    BY <1>2, <1>3

LEMMA TickHeir ==
    ASSUME TypeInv, HeirInv, Tick
    PROVE  HeirInv'
<1>1. UNCHANGED <<joined, turn, count, sync_peers, net>>
    BY DEF Tick
<1>2. \A n \in Nodes : since'[n] = None <=> since[n] = None
    <2>1. \A n \in Nodes : since[n] \in Int \cup {None}
        BY DEF TypeInv, Times
    <2> QED
        BY <2>1 DEF Tick
<1>3. \A n \in Nodes : seize[n] # {} => seize'[n] # {}
    BY DEF Tick
<1>4. ASSUME NEW n \in Nodes
      PROVE  /\ Covered(n) => Covered(n)'
             /\ OnItsList(n) /\ TimedBySync(n) => OnItsList(n)' /\ TimedBySync(n)'
    BY <1>1, <1>2, <1>3 DEF Covered, OnItsList, TimedBySync, Holds, OnlySent
<1>5. TakingPart' \subseteq TakingPart /\ TakingPart \subseteq Nodes
    <2>1. \A n \in Nodes : loops'[n] # <<>> => loops[n] # <<>>
        BY DEF Tick
    <2> QED
        BY <1>1, <2>1 DEF TakingPart, TypeInv
<1> QED
    BY <1>1, <1>4, <1>5 DEF HeirInv, SyncsNameReceiver

LEMMA HeirStep == TypeInv /\ HeirInv /\ [Next]_vars => HeirInv'
<1> SUFFICES ASSUME TypeInv, HeirInv, [Next]_vars PROVE HeirInv'
    OBVIOUS
<1>0. TypeInv'
    BY TypeStep
<1>1. CASE UNCHANGED vars
    BY <1>1 DEF vars, HeirInv, TakingPart, Covered, OnItsList, TimedBySync, SyncsNameReceiver, Holds, OnlySent
<1> QED
    BY <1>0, <1>1, MembershipHeir, LoopHeir, CheckHeir, NetHeir, TickHeir DEF Next

(* Every node that takes part, even one that left and whose loop goes on,     *)
(* holds the token, will take it when it is missed, or is one that only ever  *)
(* sent SYNC messages: joining again or failing to, leaving, crashing,        *)
(* yielding, losing messages and failed calls never take that away.           *)
THEOREM HolderOrHeirCorrect == Spec => []HolderOrHeir
<1>1. Spec => []TypeInv
    BY TypeInit, TypeStep, PTL DEF Spec
<1>2. Spec => []HeirInv
    BY <1>1, HeirInit, HeirStep, PTL DEF Spec
<1> QED
    BY <1>2, HeirInvProperty, PTL

LEMMA HeirMeansKept == TypeInv /\ HolderOrHeir => TokenKept
<1> SUFFICES ASSUME TypeInv, HolderOrHeir, joined # {},
                    registered \cup registering \subseteq joined \cup leaving,
                    \A n, q \in joined : OnlySent(n) /\ OnlySent(q) => n = q,
                    \A n \in joined : ~Holds(n) /\ ~CanTakeOver(n)
             PROVE  FALSE
    BY DEF TokenKept
<1>1. \A n \in joined : OnlySent(n)
    BY DEF HolderOrHeir, CanTakeOver, TakingPart
<1>2. PICK n \in joined : joined = {n}
    BY <1>1
<1>3. (registered \cup registering) \ leaving \subseteq {n} /\ sync_peers[n] = <<>>
    BY <1>1, <1>2 DEF OnlySent
<1> QED
    BY <1>2, <1>3 DEF CanTakeOver

(* The token is kept: as long as the contract lists only nodes that run the   *)
(* application, and no two of them only ever sent SYNC messages, one of them  *)
(* holds the token or will take it.                                           *)
THEOREM TokenCorrect == Spec => []TokenKept
<1>1. Spec => []TypeInv
    BY TypeInit, TypeStep, PTL DEF Spec
<1> QED
    BY <1>1, HolderOrHeirCorrect, HeirMeansKept, PTL
=============================================================================
