------------------------- MODULE NetworkLoopProofs -------------------------
(* Proofs about NetworkLoop, for any number of clients, any commands and      *)
(* events, and any degrees of the mesh.  The inductive invariant says of each *)
(* task which lists of instructions it may have left, and which locks it has  *)
(* in its hands at each of them.                                              *)
EXTENDS NetworkLoop, TLAPS

-----------------------------------------------------------------------------
(* Lists of instructions, one instruction at a time                           *)

Ops == {"peek", "touch", "read", "write", "drop", "send", "await", "answer", "end", "spin"}

Effects == {"nothing", "join", "leave", "spawn", "fill", "empty", "graft", "newcomer", "leaver"}

Messages == {"subscribe", "unsubscribe", "flag", "gossip", "sync", "info", "pinning"}

Ways == {"next", "subscribed", "alone", "turn", "peers", "modified", "entries", "seize",
         "mesh", "graft", "none left", "below zero", "prune", "pinning", "data", "newcomer",
         "leaver", "yield"}

\* Instructions about locks; and those that talk to the loop, or are its answer,
\* which leave nothing open.
Handles == {"peek", "touch", "read", "write", "drop"}
Talks   == {"send", "await", "answer"}

Instruction ==
    {i \in [op : Ops, lock : Locks \cup {""}, arg : Effects \cup Messages \cup {""} \cup Tasks,
            then : Ways] : /\ i.op \in Talks => i.then = "next"
                           /\ i.op \in Handles => i.lock \in Locks}

Program == Seq(Instruction)

Then(a, s) == <<a>> \o s

LEMMA SameLists ==
    ASSUME NEW S, NEW s \in Seq(S), NEW r \in Seq(S), Len(s) = Len(r),
           \A i \in 1 .. Len(s) : s[i] = r[i]
    PROVE  s = r
OBVIOUS

LEMMA ThenFacts ==
    ASSUME NEW a \in Instruction, NEW s \in Program
    PROVE  /\ Then(a, s) \in Program
           /\ Then(a, s) # <<>>
           /\ Head(Then(a, s)) = a
           /\ Tail(Then(a, s)) = s
<1>1. <<a>> \in Seq(Instruction) /\ Len(<<a>>) = 1
    OBVIOUS
<1> DEFINE r == <<a>> \o s
<1>2. r \in Seq(Instruction) /\ Len(r) = Len(s) + 1 /\ r[1] = a
      /\ \A i \in 1 .. Len(s) : r[i + 1] = s[i]
    BY <1>1 DEF Program
<1> HIDE DEF r
<1>3. r # <<>> /\ Head(r) = a /\ Tail(r) \in Seq(Instruction) /\ Len(Tail(r)) = Len(s)
      /\ \A i \in 1 .. Len(s) : Tail(r)[i] = s[i]
    BY <1>2 DEF Program
<1>4. Tail(r) = s
    BY <1>3, SameLists DEF Program
<1> QED
    BY <1>2, <1>3, <1>4 DEF r, Then, Program

LEMMA CatFacts ==
    ASSUME NEW s \in Program
    PROVE  /\ <<>> \o s = s
           /\ s \o <<>> = s
           /\ \A a \in Instruction, r \in Program : Then(a, r) \o s = Then(a, r \o s)
           /\ \A r \in Program : r \o s \in Program
<1>0. <<>> \in Program
    BY DEF Program
<1>1. <<>> \o s = s /\ s \o <<>> = s
    BY DEF Program
<1>2. ASSUME NEW a \in Instruction, NEW r \in Program
      PROVE  Then(a, r) \o s = Then(a, r \o s)
    <2>1. <<a>> \in Seq(Instruction) /\ Len(<<a>>) = 1
        OBVIOUS
    <2> DEFINE x == (<<a>> \o r) \o s
               y == <<a>> \o (r \o s)
    <2>2. /\ x \in Seq(Instruction) /\ y \in Seq(Instruction) /\ Len(x) = Len(y)
          /\ \A i \in 1 .. Len(x) : x[i] = y[i]
        BY <2>1 DEF Program
    <2> HIDE DEF x, y
    <2>3. x = y
        BY <2>2, SameLists
    <2> QED
        BY <2>3 DEF Then, x, y
<1>3. \A r \in Program : r \o s \in Program
    BY DEF Program
<1> QED
    BY <1>1, <1>2, <1>3

LEMMA CatAssociative ==
    ASSUME NEW q \in Program, NEW r \in Program, NEW s \in Program
    PROVE  q \o (r \o s) = (q \o r) \o s
<1> DEFINE x == q \o (r \o s)
           y == (q \o r) \o s
<1>1. /\ x \in Seq(Instruction) /\ y \in Seq(Instruction) /\ Len(x) = Len(y)
      /\ \A i \in 1 .. Len(x) : x[i] = y[i]
    BY DEF Program
<1> HIDE DEF x, y
<1>2. x = y
    BY <1>1, SameLists
<1> QED
    BY <1>2 DEF x, y

\* List r is instruction a, then list s.
Follows(r, a, s) ==
    /\ Len(r) = Len(s) + 1 /\ r[1] = a
    /\ \A i \in 1 .. Len(s) : r[i + 1] = s[i]

LEMMA FollowsThen ==
    ASSUME NEW a \in Instruction, NEW s \in Program, NEW r \in Program, Follows(r, a, s)
    PROVE  r = Then(a, s)
<1>0. Len(r) = Len(s) + 1 /\ r[1] = a /\ \A i \in 1 .. Len(s) : r[i + 1] = s[i]
    BY DEF Follows
<1>1. <<a>> \in Seq(Instruction) /\ Len(<<a>>) = 1
    OBVIOUS
<1> DEFINE x == <<a>> \o s
<1>2. x \in Seq(Instruction) /\ Len(x) = Len(s) + 1 /\ \A i \in 1 .. Len(x) : x[i] = r[i]
    <2>1. x \in Seq(Instruction) /\ Len(x) = Len(s) + 1 /\ Len(s) \in Nat /\ x[1] = a
          /\ \A i \in 2 .. Len(s) + 1 : x[i] = s[i - 1]
        BY <1>1 DEF Program
    <2>2. \A i \in 2 .. Len(s) + 1 : r[i] = s[i - 1]
        <3> TAKE i \in 2 .. Len(s) + 1
        <3>1. i - 1 \in 1 .. Len(s) /\ (i - 1) + 1 = i
            BY <2>1
        <3> QED
            BY <3>1, <1>0
    <2> QED
        BY <2>1, <2>2, <1>0
<1> HIDE DEF x
<1>3. x = r
    BY <1>2, <1>0, SameLists DEF Program
<1> QED
    BY <1>3 DEF Then, x

Ending   == Instr("end", "", "", "next")
Spinning == Instr("spin", "", "", "next")
Spawning == Instr("peek", "gossip", "spawn", "next")

LEMMA InstructionFacts ==
    /\ \A l \in Locks :
          /\ Drop(l) \in Instruction /\ Peek(l) \in Instruction /\ Touch(l) \in Instruction
          /\ \A b \in Ways : /\ Look(l, b) \in Instruction /\ Read(l, b) \in Instruction
                            /\ Write(l, b) \in Instruction
          /\ \A e \in Effects : Change(l, e) \in Instruction
    /\ \A m \in Messages : Send(m) \in Instruction
    /\ Await \in Instruction
    /\ \A t \in Tasks : Answer(t) \in Instruction
    /\ Ending \in Instruction /\ Spinning \in Instruction /\ Spawning \in Instruction
<1>1. /\ "next" \in Ways /\ "nothing" \in Effects
      /\ {"peek", "touch", "read", "write", "drop", "send", "await", "answer", "end", "spin"}
            \subseteq Ops
    BY DEF Ways, Effects, Ops
<1>2. ASSUME NEW op \in Ops, NEW lock \in Locks \cup {""}, NEW then \in Ways,
             NEW arg \in Effects \cup Messages \cup {""} \cup Tasks,
             op \in Talks => then = "next", op \in Handles => lock \in Locks
      PROVE  Instr(op, lock, arg, then) \in Instruction
    <2> DEFINE i == Instr(op, lock, arg, then)
    <2>1. /\ i.op = op /\ i.then = then /\ i.lock = lock
          /\ i \in [op : Ops, lock : Locks \cup {""}, arg : Effects \cup Messages \cup {""} \cup Tasks,
                    then : Ways]
        BY DEF Instr
    <2> HIDE DEF i
    <2>2. (i.op \in Talks => i.then = "next") /\ (i.op \in Handles => i.lock \in Locks)
        BY <1>2, <2>1
    <2>3. i \in Instruction
        BY <2>1, <2>2 DEF Instruction
    <2> QED
        BY <2>3 DEF i
<1>3. ASSUME NEW l \in Locks
      PROVE  /\ Drop(l) \in Instruction /\ Peek(l) \in Instruction /\ Touch(l) \in Instruction
             /\ \A b \in Ways : /\ Look(l, b) \in Instruction /\ Read(l, b) \in Instruction
                               /\ Write(l, b) \in Instruction
             /\ \A e \in Effects : Change(l, e) \in Instruction
    BY <1>1, <1>2 DEF Talks, Handles, Look, Peek, Change, Touch, Read, Write, Drop
<1>4. \A m \in Messages : Send(m) \in Instruction
    BY <1>1, <1>2 DEF Talks, Handles, Send
<1>5. Await \in Instruction /\ \A t \in Tasks : Answer(t) \in Instruction
    BY <1>1, <1>2 DEF Talks, Handles, Await, Answer
<1>6. Ending \in Instruction /\ Spinning \in Instruction /\ Spawning \in Instruction
    BY <1>1, <1>2 DEF Talks, Handles, Ending, Spinning, Spawning, Effects, Locks
<1> QED
    BY <1>3, <1>4, <1>5, <1>6

-----------------------------------------------------------------------------
(* How a list goes on                                                         *)

After(b, r) == {list \o r : list \in Continuations(b)}

\* List s begins with an instruction op on lock l with argument e, and may go on as u.
Goes(s, op, l, e, u) ==
    /\ s # <<>>
    /\ Head(s).op = op /\ Head(s).lock = l /\ Head(s).arg = e
    /\ u \in After(Head(s).then, Tail(s))

LEMMA NextGoesOn == ASSUME NEW r \in Program, NEW u \in After("next", r) PROVE u = r
<1>1. Continuations("next") = {<<>>}
    BY DEF Continuations
<1>2. PICK list \in Continuations("next") : u = list \o r
    BY DEF After
<1>3. list = <<>>
    BY <1>1, <1>2
<1> QED
    BY <1>2, <1>3, CatFacts

LEMMA InstrGoes ==
    ASSUME NEW op, NEW l, NEW e, NEW b, NEW r \in Program,
           Instr(op, l, e, b) \in Instruction,
           NEW op1, NEW l1, NEW e1, NEW u, Goes(Then(Instr(op, l, e, b), r), op1, l1, e1, u)
    PROVE  op1 = op /\ l1 = l /\ e1 = e /\ u \in After(b, r)
<1> DEFINE i == Instr(op, l, e, b)
<1>1. Head(Then(i, r)) = i /\ Tail(Then(i, r)) = r
    BY ThenFacts
<1>2. i.op = op /\ i.lock = l /\ i.arg = e /\ i.then = b
    BY DEF Instr
<1> HIDE DEF i
<1> QED
    BY <1>1, <1>2 DEF Goes, i

LEMMA LookGoes ==
    ASSUME NEW l \in Locks, NEW b \in Ways, NEW r \in Program,
           NEW op, NEW k, NEW e, NEW u, Goes(Then(Look(l, b), r), op, k, e, u)
    PROVE  op = "peek" /\ k = l /\ e = "nothing" /\ u \in After(b, r)
<1>1. Look(l, b) = Instr("peek", l, "nothing", b) /\ Look(l, b) \in Instruction
    BY InstructionFacts DEF Look
<1> QED
    BY <1>1, InstrGoes

LEMMA ReadGoes ==
    ASSUME NEW l \in Locks, NEW b \in Ways, NEW r \in Program,
           NEW op, NEW k, NEW e, NEW u, Goes(Then(Read(l, b), r), op, k, e, u)
    PROVE  op = "read" /\ k = l /\ e = "nothing" /\ u \in After(b, r)
<1>1. Read(l, b) = Instr("read", l, "nothing", b) /\ Read(l, b) \in Instruction
    BY InstructionFacts DEF Read
<1> QED
    BY <1>1, InstrGoes

LEMMA WriteGoes ==
    ASSUME NEW l \in Locks, NEW b \in Ways, NEW r \in Program,
           NEW op, NEW k, NEW e, NEW u, Goes(Then(Write(l, b), r), op, k, e, u)
    PROVE  op = "write" /\ k = l /\ e = "nothing" /\ u \in After(b, r)
<1>1. Write(l, b) = Instr("write", l, "nothing", b) /\ Write(l, b) \in Instruction
    BY InstructionFacts DEF Write
<1> QED
    BY <1>1, InstrGoes

LEMMA PeekGoes ==
    ASSUME NEW l \in Locks, NEW r \in Program,
           NEW op, NEW k, NEW e, NEW u, Goes(Then(Peek(l), r), op, k, e, u)
    PROVE  op = "peek" /\ k = l /\ e = "nothing" /\ u = r
<1>1. Peek(l) = Look(l, "next") /\ "next" \in Ways
    BY DEF Peek, Ways
<1> QED
    BY <1>1, LookGoes, NextGoesOn

LEMMA ChangeGoes ==
    ASSUME NEW l \in Locks, NEW f \in Effects, NEW r \in Program,
           NEW op, NEW k, NEW e, NEW u, Goes(Then(Change(l, f), r), op, k, e, u)
    PROVE  op = "touch" /\ k = l /\ e = f /\ u = r
<1>1. Change(l, f) = Instr("touch", l, f, "next") /\ Change(l, f) \in Instruction
    BY InstructionFacts DEF Change
<1> QED
    BY <1>1, InstrGoes, NextGoesOn

LEMMA TouchGoes ==
    ASSUME NEW l \in Locks, NEW r \in Program,
           NEW op, NEW k, NEW e, NEW u, Goes(Then(Touch(l), r), op, k, e, u)
    PROVE  op = "touch" /\ k = l /\ e = "nothing" /\ u = r
<1>1. Touch(l) = Change(l, "nothing") /\ "nothing" \in Effects
    BY DEF Touch, Effects
<1> QED
    BY <1>1, ChangeGoes

LEMMA DropGoes ==
    ASSUME NEW l \in Locks, NEW r \in Program,
           NEW op, NEW k, NEW e, NEW u, Goes(Then(Drop(l), r), op, k, e, u)
    PROVE  op = "drop" /\ k = l /\ u = r
<1> DEFINE none == ""
<1>1. Drop(l) = Instr("drop", l, none, "next") /\ Drop(l) \in Instruction
    BY InstructionFacts DEF Drop
<1> HIDE DEF none
<1>2. op = "drop" /\ k = l /\ u \in After("next", r)
    BY <1>1, InstrGoes
<1> QED
    BY <1>2, NextGoesOn

LEMMA SendGoes ==
    ASSUME NEW m \in Messages, NEW r \in Program,
           NEW op, NEW k, NEW e, NEW u, Goes(Then(Send(m), r), op, k, e, u)
    PROVE  op = "send" /\ e = m /\ u = r
<1> DEFINE none == ""
<1>1. Send(m) = Instr("send", none, m, "next") /\ Send(m) \in Instruction
    BY InstructionFacts DEF Send
<1> HIDE DEF none
<1>2. op = "send" /\ e = m /\ u \in After("next", r)
    BY <1>1, InstrGoes
<1> QED
    BY <1>2, NextGoesOn

LEMMA AwaitGoes ==
    ASSUME NEW r \in Program, NEW op, NEW k, NEW e, NEW u, Goes(Then(Await, r), op, k, e, u)
    PROVE  op = "await" /\ u = r
<1> DEFINE none == ""
<1>1. Await = Instr("await", none, none, "next") /\ Await \in Instruction
    BY InstructionFacts DEF Await
<1> HIDE DEF none
<1>2. op = "await" /\ u \in After("next", r)
    BY <1>1, InstrGoes
<1> QED
    BY <1>2, NextGoesOn

LEMMA AnswerGoes ==
    ASSUME NEW t \in Tasks, NEW r \in Program,
           NEW op, NEW k, NEW e, NEW u, Goes(Then(Answer(t), r), op, k, e, u)
    PROVE  op = "answer" /\ e = t /\ u = r
<1> DEFINE none == ""
<1>1. Answer(t) = Instr("answer", none, t, "next") /\ Answer(t) \in Instruction
    BY InstructionFacts DEF Answer
<1> HIDE DEF none
<1>2. op = "answer" /\ e = t /\ u \in After("next", r)
    BY <1>1, InstrGoes
<1> QED
    BY <1>2, NextGoesOn

LEMMA OthersGo ==
    ASSUME NEW r \in Program, NEW op, NEW k, NEW e, NEW u
    PROVE  /\ Goes(Then(Ending, r), op, k, e, u) => op = "end"
           /\ Goes(Then(Spinning, r), op, k, e, u) => op = "spin"
           /\ Goes(Then(Spawning, r), op, k, e, u) =>
                 op = "peek" /\ k = "gossip" /\ e = "spawn" /\ u = r
<1> DEFINE none    == ""
           mesh    == "gossip"
           started == "spawn"
<1>1. /\ Ending = Instr("end", none, none, "next") /\ Ending \in Instruction
      /\ Spinning = Instr("spin", none, none, "next") /\ Spinning \in Instruction
      /\ Spawning = Instr("peek", mesh, started, "next") /\ Spawning \in Instruction
    BY InstructionFacts DEF Ending, Spinning, Spawning
<1> HIDE DEF none, mesh, started
<1>2. Goes(Then(Ending, r), op, k, e, u) => op = "end"
    BY <1>1, InstrGoes
<1>3. Goes(Then(Spinning, r), op, k, e, u) => op = "spin"
    BY <1>1, InstrGoes
<1>4. Goes(Then(Spawning, r), op, k, e, u) =>
          op = "peek" /\ k = mesh /\ e = started /\ u = r
    BY <1>1, InstrGoes, NextGoesOn
<1> QED
    BY <1>2, <1>3, <1>4 DEF mesh, started

-----------------------------------------------------------------------------
(* The lists a task goes on with, one instruction at a time                   *)

LEMMA Cat2 ==
    ASSUME NEW a \in Instruction, NEW b \in Instruction, NEW r \in Program
    PROVE  <<a, b>> \o r = Then(a, Then(b, r))
<1> DEFINE x == <<a, b>> \o r
           y == <<b>> \o r
<1>1. x \in Program /\ y \in Program /\ Follows(x, a, y)
    BY DEF Program, Follows
<1>2. y = Then(b, r)
    BY DEF Then
<1> HIDE DEF x, y
<1>3. x = Then(a, y)
    BY <1>1, FollowsThen
<1> QED
    BY <1>2, <1>3 DEF x

LEMMA Cat3 ==
    ASSUME NEW a \in Instruction, NEW b \in Instruction, NEW c \in Instruction, NEW r \in Program
    PROVE  <<a, b, c>> \o r = Then(a, Then(b, Then(c, r)))
<1> DEFINE x == <<a, b, c>> \o r
           y == <<b, c>> \o r
<1>1. x \in Program /\ y \in Program /\ Follows(x, a, y)
    BY DEF Program, Follows
<1>2. y = Then(b, Then(c, r))
    BY Cat2
<1> HIDE DEF x, y
<1>3. x = Then(a, y)
    BY <1>1, FollowsThen
<1> QED
    BY <1>2, <1>3 DEF x

LEMMA Cat4 ==
    ASSUME NEW a \in Instruction, NEW b \in Instruction, NEW c \in Instruction,
           NEW d \in Instruction, NEW r \in Program
    PROVE  <<a, b, c, d>> \o r = Then(a, Then(b, Then(c, Then(d, r))))
<1> DEFINE x == <<a, b, c, d>> \o r
           y == <<b, c, d>> \o r
<1>1. x \in Program /\ y \in Program /\ Follows(x, a, y)
    BY DEF Program, Follows
<1>2. y = Then(b, Then(c, Then(d, r)))
    BY Cat3
<1> HIDE DEF x, y
<1>3. x = Then(a, y)
    BY <1>1, FollowsThen
<1> QED
    BY <1>2, <1>3 DEF x

LEMMA Cat5 ==
    ASSUME NEW a \in Instruction, NEW b \in Instruction, NEW c \in Instruction,
           NEW d \in Instruction, NEW e \in Instruction, NEW r \in Program
    PROVE  <<a, b, c, d, e>> \o r = Then(a, Then(b, Then(c, Then(d, Then(e, r)))))
<1> DEFINE x == <<a, b, c, d, e>> \o r
           y == <<b, c, d, e>> \o r
<1>1. x \in Program /\ y \in Program /\ Follows(x, a, y)
    BY DEF Program, Follows
<1>2. y = Then(b, Then(c, Then(d, Then(e, r))))
    BY Cat4
<1> HIDE DEF x, y
<1>3. x = Then(a, y)
    BY <1>1, FollowsThen
<1> QED
    BY <1>2, <1>3 DEF x

LEMMA AfterSubscribed ==
    ASSUME NEW r \in Program, NEW u \in After("subscribed", r)
    PROVE  \/ u = Then(Read("gossip", "next"), Then(Look("ipfs", "alone"), r))
           \/ u = Then(Ending, r)
<1>1. /\ Read("gossip", "next") \in Instruction /\ Look("ipfs", "alone") \in Instruction
      /\ Ending \in Instruction
    BY InstructionFacts DEF Locks, Ways, Effects, Messages
<1>2. SyncBody \o r = Then(Read("gossip", "next"), Then(Look("ipfs", "alone"), r))
    BY <1>1, Cat2 DEF SyncBody
<1>3. Panic \o r = Then(Ending, r)
    BY <1>1 DEF Panic, Ending, Then
<1>4. PICK list \in Continuations("subscribed") : u = list \o r
    BY DEF After
<1>5. list \in {SyncBody, Panic}
    BY DEF Continuations
<1> QED
    BY <1>2, <1>3, <1>4, <1>5

LEMMA AfterAlone ==
    ASSUME NEW r \in Program, NEW u \in After("alone", r)
    PROVE  \/ u = Then(Touch("ipfs"), Then(Look("ipfs", "modified"), Then(Drop("gossip"), r)))
           \/ u = Then(Write("ipfs", "turn"), r)
<1>1. /\ Touch("ipfs") \in Instruction /\ Look("ipfs", "modified") \in Instruction
      /\ Drop("gossip") \in Instruction /\ Write("ipfs", "turn") \in Instruction
    BY InstructionFacts DEF Locks, Ways, Effects, Messages
<1>2. SyncAlone = <<Touch("ipfs"), Look("ipfs", "modified"), Drop("gossip")>>
    <2> DEFINE x == SyncAlone
               y == <<Touch("ipfs"), Look("ipfs", "modified"), Drop("gossip")>>
    <2>1. /\ x \in Seq(Instruction) /\ y \in Seq(Instruction) /\ Len(x) = Len(y)
          /\ \A i \in 1 .. Len(x) : x[i] = y[i]
        BY <1>1 DEF SyncAlone, UpdateDataImage
    <2> HIDE DEF x, y
    <2>2. x = y
        BY <2>1, SameLists
    <2> QED
        BY <2>2 DEF x, y
<1>3. SyncAlone \o r = Then(Touch("ipfs"), Then(Look("ipfs", "modified"),
             Then(Drop("gossip"), r)))
    BY <1>1, <1>2, Cat3
<1>4. SyncOthers \o r = Then(Write("ipfs", "turn"), r)
    BY <1>1 DEF SyncOthers, Then
<1>5. PICK list \in Continuations("alone") : u = list \o r
    BY DEF After
<1>6. list \in {SyncAlone, SyncOthers}
    BY DEF Continuations
<1> QED
    BY <1>3, <1>4, <1>5, <1>6

LEMMA AfterTurn ==
    ASSUME NEW r \in Program, NEW u \in After("turn", r)
    PROVE  \/ u = Then(Drop("ipfs"), Then(Look("ipfs", "modified"), Then(Write("ipfs", "peers"),
                     Then(Drop("ipfs"), Then(Drop("gossip"), r)))))
           \/ u = Then(Drop("ipfs"), Then(Peek("ipfs"), Then(Drop("gossip"), r)))
<1>1. /\ Drop("ipfs") \in Instruction /\ Look("ipfs", "modified") \in Instruction
      /\ Write("ipfs", "peers") \in Instruction /\ Drop("gossip") \in Instruction
      /\ Peek("ipfs") \in Instruction
    BY InstructionFacts DEF Locks, Ways, Effects, Messages
<1>2. SyncHolder = <<Drop("ipfs"), Look("ipfs", "modified"), Write("ipfs", "peers"), Drop("ipfs"), Drop("gossip")>>
    <2> DEFINE x == SyncHolder
               y == <<Drop("ipfs"), Look("ipfs", "modified"), Write("ipfs", "peers"), Drop("ipfs"), Drop("gossip")>>
    <2>1. /\ x \in Seq(Instruction) /\ y \in Seq(Instruction) /\ Len(x) = Len(y)
          /\ \A i \in 1 .. Len(x) : x[i] = y[i]
        BY <1>1 DEF SyncHolder, UpdateDataImage
    <2> HIDE DEF x, y
    <2>2. x = y
        BY <2>1, SameLists
    <2> QED
        BY <2>2 DEF x, y
<1>3. SyncHolder \o r = Then(Drop("ipfs"), Then(Look("ipfs", "modified"),
             Then(Write("ipfs", "peers"), Then(Drop("ipfs"), Then(Drop("gossip"), r)))))
    BY <1>1, <1>2, Cat5
<1>4. SyncMonitor \o r = Then(Drop("ipfs"), Then(Peek("ipfs"), Then(Drop("gossip"), r)))
    BY <1>1, Cat3 DEF SyncMonitor
<1>5. PICK list \in Continuations("turn") : u = list \o r
    BY DEF After
<1>6. list \in {SyncHolder, SyncMonitor}
    BY DEF Continuations
<1> QED
    BY <1>3, <1>4, <1>5, <1>6

LEMMA AfterPeers ==
    ASSUME NEW r \in Program, NEW u \in After("peers", r)
    PROVE  \/ u = r
           \/ u = Then(Send("sync"), r)
<1>1. Send("sync") \in Instruction
    BY InstructionFacts DEF Locks, Ways, Effects, Messages
<1>2. <<Send("sync")>> \o r = Then(Send("sync"), r)
    BY <1>1 DEF Then
<1>3. PICK list \in Continuations("peers") : u = list \o r
    BY DEF After
<1>4. list \in {<<>>, <<Send("sync")>>}
    BY DEF Continuations
<1> QED
    BY <1>2, <1>3, <1>4, CatFacts

LEMMA AfterModified ==
    ASSUME NEW r \in Program, NEW u \in After("modified", r)
    PROVE  \/ u = r
           \/ u = Then(Look("db", "entries"), Then(Touch("ipfs"), r))
<1>1. Look("db", "entries") \in Instruction /\ Touch("ipfs") \in Instruction
    BY InstructionFacts DEF Locks, Ways, Effects, Messages
<1>2. <<Look("db", "entries"), Touch("ipfs")>> \o r = Then(Look("db", "entries"),
             Then(Touch("ipfs"), r))
    BY <1>1, Cat2
<1>3. PICK list \in Continuations("modified") : u = list \o r
    BY DEF After
<1>4. list \in {<<>>, <<Look("db", "entries"), Touch("ipfs")>>}
    BY DEF Continuations
<1> QED
    BY <1>2, <1>3, <1>4, CatFacts

LEMMA AfterEntries ==
    ASSUME NEW r \in Program, NEW u \in After("entries", r)
    PROVE  \/ u = r
           \/ u = Then(Touch("db"), Then(Peek("ipfs"), Then(Read("db", "next"),
                     Then(Change("ipfs", "join"), Then(Drop("db"), r)))))
           \/ u = Then(Read("db", "next"), Then(Peek("ipfs"), Then(Drop("db"), r)))
<1>1. /\ Touch("db") \in Instruction /\ Peek("ipfs") \in Instruction
      /\ Read("db", "next") \in Instruction /\ Change("ipfs", "join") \in Instruction
      /\ Drop("db") \in Instruction
    BY InstructionFacts DEF Locks, Ways, Effects, Messages
<1>2. NewImage \o r = Then(Touch("db"), Then(Peek("ipfs"), Then(Read("db", "next"),
             Then(Change("ipfs", "join"), Then(Drop("db"), r)))))
    BY <1>1, Cat5 DEF NewImage
<1>3. SameImage \o r = Then(Read("db", "next"), Then(Peek("ipfs"), Then(Drop("db"), r)))
    BY <1>1, Cat3 DEF SameImage
<1>4. PICK list \in Continuations("entries") : u = list \o r
    BY DEF After
<1>5. list \in {<<>>, NewImage, SameImage}
    BY DEF Continuations
<1> QED
    BY <1>2, <1>3, <1>4, <1>5, CatFacts

LEMMA AfterSeize ==
    ASSUME NEW r \in Program, NEW u \in After("seize", r)
    PROVE  \/ u = r
           \/ u = Then(Touch("ipfs"), r)
<1>1. Touch("ipfs") \in Instruction
    BY InstructionFacts DEF Locks, Ways, Effects, Messages
<1>2. TakeOver \o r = Then(Touch("ipfs"), r)
    BY <1>1 DEF TakeOver, Then
<1>3. PICK list \in Continuations("seize") : u = list \o r
    BY DEF After
<1>4. list \in {<<>>, TakeOver}
    BY DEF Continuations
<1> QED
    BY <1>2, <1>3, <1>4, CatFacts

LEMMA AfterGraft ==
    ASSUME NEW r \in Program, NEW u \in After("graft", r)
    PROVE  \/ u = r
           \/ u = Then(Write("gossip", "next"), Then(Drop("gossip"), r))
<1>1. Write("gossip", "next") \in Instruction /\ Drop("gossip") \in Instruction
    BY InstructionFacts DEF Locks, Ways, Effects, Messages
<1>2. Graft \o r = Then(Write("gossip", "next"), Then(Drop("gossip"), r))
    BY <1>1, Cat2 DEF Graft
<1>3. PICK list \in Continuations("graft") : u = list \o r
    BY DEF After
<1>4. list \in {<<>>, Graft}
    BY DEF Continuations
<1> QED
    BY <1>2, <1>3, <1>4, CatFacts

LEMMA AfterNoneLeft ==
    ASSUME NEW r \in Program, NEW u \in After("none left", r)
    PROVE  \/ u = r
           \/ u = Then(Write("gossip", "next"), Then(Drop("gossip"), r))
           \/ u = Then(Ending, r)
<1>1. /\ Write("gossip", "next") \in Instruction /\ Drop("gossip") \in Instruction
      /\ Ending \in Instruction
    BY InstructionFacts DEF Locks, Ways, Effects, Messages
<1>2. Graft \o r = Then(Write("gossip", "next"), Then(Drop("gossip"), r))
    BY <1>1, Cat2 DEF Graft
<1>3. Panic \o r = Then(Ending, r)
    BY <1>1 DEF Panic, Ending, Then
<1>4. PICK list \in Continuations("none left") : u = list \o r
    BY DEF After
<1>5. list \in {<<>>, Graft, Panic}
    BY DEF Continuations
<1> QED
    BY <1>2, <1>3, <1>4, <1>5, CatFacts

LEMMA AfterBelowZero ==
    ASSUME NEW r \in Program, NEW u \in After("below zero", r)
    PROVE  \/ u = r
           \/ u = Then(Write("gossip", "next"), Then(Drop("gossip"), r))
           \/ u = Then(Ending, r)
<1>1. /\ Write("gossip", "next") \in Instruction /\ Drop("gossip") \in Instruction
      /\ Ending \in Instruction
    BY InstructionFacts DEF Locks, Ways, Effects, Messages
<1>2. Graft \o r = Then(Write("gossip", "next"), Then(Drop("gossip"), r))
    BY <1>1, Cat2 DEF Graft
<1>3. Panic \o r = Then(Ending, r)
    BY <1>1 DEF Panic, Ending, Then
<1>4. PICK list \in Continuations("below zero") : u = list \o r
    BY DEF After
<1>5. list \in {<<>>, Graft, Panic}
    BY DEF Continuations
<1> QED
    BY <1>2, <1>3, <1>4, <1>5, CatFacts

LEMMA AfterPrune ==
    ASSUME NEW r \in Program, NEW u \in After("prune", r)
    PROVE  \/ u = Then(Spinning, r)
           \/ u = Then(Ending, r)
<1>1. Spinning \in Instruction /\ Ending \in Instruction
    BY InstructionFacts DEF Locks, Ways, Effects, Messages
<1>2. Spin \o r = Then(Spinning, r)
    BY <1>1 DEF Spin, Spinning, Then
<1>3. Panic \o r = Then(Ending, r)
    BY <1>1 DEF Panic, Ending, Then
<1>4. PICK list \in Continuations("prune") : u = list \o r
    BY DEF After
<1>5. list \in {Spin, Panic}
    BY DEF Continuations
<1> QED
    BY <1>2, <1>3, <1>4, <1>5

LEMMA AfterNewcomer ==
    ASSUME NEW r \in Program, NEW u \in After("newcomer", r)
    PROVE  \/ u = Then(Touch("gossip"), r)
           \/ u = Then(Peek("ipfs"), Then(Change("gossip", "newcomer"), r))
<1>1. /\ Touch("gossip") \in Instruction /\ Peek("ipfs") \in Instruction
      /\ Change("gossip", "newcomer") \in Instruction
    BY InstructionFacts DEF Locks, Ways, Effects, Messages
<1>2. <<Touch("gossip")>> \o r = Then(Touch("gossip"), r)
    BY <1>1 DEF Then
<1>3. <<Peek("ipfs"), Change("gossip", "newcomer")>> \o r = Then(Peek("ipfs"),
             Then(Change("gossip", "newcomer"), r))
    BY <1>1, Cat2
<1>4. PICK list \in Continuations("newcomer") : u = list \o r
    BY DEF After
<1>5. list \in {<<Touch("gossip")>>, <<Peek("ipfs"), Change("gossip", "newcomer")>>}
    BY DEF Continuations
<1> QED
    BY <1>2, <1>3, <1>4, <1>5

Reckonings == {"graft", "none left", "below zero", "next", "prune"}

LEMMA ReckoningsKnown == ASSUME node.mesh \in Nat PROVE Reckoning \in Reckonings
<1>1. D \in Nat /\ DLow \in Nat /\ DLow <= D /\ DHigh \in Nat /\ DHigh >= D
    BY DegreesAssumption
<1>2. \/ node.mesh < DLow
      \/ node.mesh = DLow /\ node.mesh < D
      \/ node.mesh > DLow /\ node.mesh < D
      \/ node.mesh \in D .. DHigh
      \/ node.mesh > DHigh
    BY <1>1
<1> QED
    BY <1>2, Zenon DEF Reckoning, Reckonings

LEMMA AfterMesh ==
    ASSUME node.mesh \in Nat \cup {None}, NEW r \in Program, NEW u \in After("mesh", r)
    PROVE  \/ u = r
           \/ \E w \in Reckonings : u = Then(Read("gossip", w), Then(Drop("gossip"), r))
<1>1. PICK list \in Continuations("mesh") : u = list \o r
    BY DEF After
<1>2. list = IF node.mesh = None THEN <<>> ELSE Beat(Reckoning)
    BY DEF Continuations
<1>3. CASE node.mesh = None
    BY <1>1, <1>2, <1>3, CatFacts
<1>4. CASE node.mesh # None
    <2>1. node.mesh \in Nat
        BY <1>4
    <2>2. Reckoning \in Reckonings
        BY <2>1, ReckoningsKnown
    <2>3. Read("gossip", Reckoning) \in Instruction /\ Drop("gossip") \in Instruction
        BY <2>2, InstructionFacts DEF Reckonings, Ways, Locks
    <2>4. Beat(Reckoning) \o r = Then(Read("gossip", Reckoning), Then(Drop("gossip"), r))
        BY <2>3, Cat2 DEF Beat
    <2> QED
        BY <1>1, <1>2, <1>4, <2>2, <2>4
<1> QED
    BY <1>3, <1>4

-----------------------------------------------------------------------------
(* The synchronization task: the lists it may have left while it holds        *)
(* nothing, the mesh, the mesh and the table, or the mesh and (for writing)   *)
(* the lock of IPFS                                                           *)

Done == <<>>

EndPass == Then(Drop("gossip"), Done)

Tell == Then(Write("ipfs", "peers"), Then(Drop("ipfs"), EndPass))

\* What is left of a pass after an upload.
Remainders == {EndPass, Tell}

\* What is left of an upload once the image is saved.
Saved(r) == Then(Drop("db"), Then(Touch("ipfs"), r))

SyncFree(s) ==
    \/ s = Done
    \/ s = Then(Look("ipfs", "subscribed"), Done)
    \/ s = Then(Read("gossip", "next"), Then(Look("ipfs", "alone"), Done))
    \/ s = Then(Ending, Done)

Uploading(s, r) ==
    \/ s = r
    \/ s = Then(Look("ipfs", "modified"), r)
    \/ s = Then(Look("db", "entries"), Then(Touch("ipfs"), r))
    \/ s = Then(Touch("ipfs"), r)
    \/ s = Then(Touch("db"), Then(Peek("ipfs"), Then(Read("db", "next"),
             Then(Change("ipfs", "join"), Saved(r)))))
    \/ s = Then(Peek("ipfs"), Then(Read("db", "next"), Then(Change("ipfs", "join"), Saved(r))))
    \/ s = Then(Read("db", "next"), Then(Change("ipfs", "join"), Saved(r)))
    \/ s = Then(Read("db", "next"), Then(Peek("ipfs"), Saved(r)))

SyncMesh(s) ==
    \/ s = Then(Look("ipfs", "alone"), Done)
    \/ s = Then(Write("ipfs", "turn"), Done)
    \/ s = Then(Touch("ipfs"), Then(Look("ipfs", "modified"), EndPass))
    \/ s = Then(Peek("ipfs"), EndPass)
    \/ \E r \in Remainders : Uploading(s, r)

SyncTable(s) ==
    \E r \in Remainders :
       \/ s = Then(Change("ipfs", "join"), Saved(r))
       \/ s = Then(Peek("ipfs"), Saved(r))
       \/ s = Saved(r)

SyncBoth(s) ==
    \/ s = Then(Drop("ipfs"), Then(Look("ipfs", "modified"), Tell))
    \/ s = Then(Drop("ipfs"), Then(Peek("ipfs"), EndPass))
    \/ s = Then(Drop("ipfs"), EndPass)
    \/ s = Then(Send("sync"), Then(Drop("ipfs"), EndPass))

LEMMA SyncInstructions ==
    /\ {Look("ipfs", "subscribed"), Read("gossip", "next"), Look("ipfs", "alone"), Ending,
        Look("ipfs", "modified"), Look("db", "entries"), Touch("ipfs"), Touch("db"), Peek("ipfs"),
        Read("db", "next"), Change("ipfs", "join"), Write("ipfs", "turn"), Write("ipfs", "peers"),
        Drop("gossip"), Drop("db"), Drop("ipfs"), Send("sync")} \subseteq Instruction
    /\ {"subscribed", "next", "alone", "modified", "entries", "turn", "peers"} \subseteq Ways
    /\ {"db", "ipfs", "gossip"} \subseteq Locks
    /\ "join" \in Effects /\ "sync" \in Messages
<1>1. /\ {"subscribed", "next", "alone", "modified", "entries", "turn", "peers"} \subseteq Ways
      /\ {"db", "ipfs", "gossip"} \subseteq Locks
      /\ "join" \in Effects /\ "sync" \in Messages
    BY DEF Ways, Locks, Effects, Messages
<1> QED
    BY <1>1, InstructionFacts

LEMMA SyncPrograms ==
    /\ Done \in Program /\ EndPass \in Program /\ Tell \in Program
    /\ \A r \in Remainders : /\ r \in Program /\ Saved(r) \in Program
                             /\ Then(Touch("ipfs"), r) \in Program
<1>1. Done \in Program
    BY DEF Done, Program
<1>2. EndPass \in Program
    BY <1>1, ThenFacts, SyncInstructions DEF EndPass
<1>3. Then(Drop("ipfs"), EndPass) \in Program
    BY <1>2, ThenFacts, SyncInstructions
<1>4. Tell \in Program
    BY <1>3, ThenFacts, SyncInstructions DEF Tell
<1>5. ASSUME NEW r \in Remainders
      PROVE  r \in Program /\ Saved(r) \in Program /\ Then(Touch("ipfs"), r) \in Program
    <2>1. r \in Program
        BY <1>2, <1>4 DEF Remainders
    <2>2. Then(Touch("ipfs"), r) \in Program
        BY <2>1, ThenFacts, SyncInstructions
    <2> QED
        BY <2>1, <2>2, ThenFacts, SyncInstructions DEF Saved
<1> QED
    BY <1>1, <1>2, <1>4, <1>5

LEMMA DoneGoesNowhere == ASSUME NEW op, NEW k, NEW e, NEW u PROVE ~Goes(Done, op, k, e, u)
BY DEF Goes, Done

LEMMA SyncFreeFlow ==
    ASSUME NEW s, SyncFree(s), NEW op, NEW k, NEW e, NEW u, Goes(s, op, k, e, u)
    PROVE  \/ op = "peek" /\ k = "ipfs" /\ e = "nothing" /\ SyncFree(u)
           \/ op = "read" /\ k = "gossip" /\ e = "nothing" /\ SyncMesh(u)
           \/ op = "end"
<1>1. CASE s = Done
    BY <1>1, DoneGoesNowhere
<1>2. CASE s = Then(Look("ipfs", "subscribed"), Done)
    <2>1. op = "peek" /\ k = "ipfs" /\ e = "nothing" /\ u \in After("subscribed", Done)
        BY <1>2, LookGoes, SyncInstructions, SyncPrograms
    <2> QED
        BY <2>1, AfterSubscribed, SyncPrograms DEF SyncFree
<1>3. CASE s = Then(Read("gossip", "next"), Then(Look("ipfs", "alone"), Done))
    <2>1. Then(Look("ipfs", "alone"), Done) \in Program
        BY ThenFacts, SyncInstructions, SyncPrograms
    <2>2. op = "read" /\ k = "gossip" /\ e = "nothing"
          /\ u \in After("next", Then(Look("ipfs", "alone"), Done))
        BY <1>3, <2>1, ReadGoes, SyncInstructions
    <2>3. u = Then(Look("ipfs", "alone"), Done)
        BY <2>1, <2>2, NextGoesOn
    <2> QED
        BY <2>2, <2>3 DEF SyncMesh
<1>4. CASE s = Then(Ending, Done)
    BY <1>4, OthersGo, SyncPrograms
<1> QED
    BY <1>1, <1>2, <1>3, <1>4 DEF SyncFree

LEMMA UploadFlow ==
    ASSUME NEW r \in Remainders, NEW s, Uploading(s, r),
           NEW op, NEW k, NEW e, NEW u, Goes(s, op, k, e, u)
    PROVE  \/ op \in {"peek", "touch"} /\ k \in {"ipfs", "db"} /\ e = "nothing" /\ SyncMesh(u)
           \/ op = "read" /\ k = "db" /\ e = "nothing" /\ SyncTable(u)
           \/ op = "write" /\ k = "ipfs" /\ e = "nothing" /\ SyncBoth(u)
           \/ op = "drop" /\ k = "gossip" /\ SyncFree(u)
<1> DEFINE last == Then(Touch("ipfs"), r)
           kept == Then(Change("ipfs", "join"), Saved(r))
<1>1. /\ r \in Program /\ last \in Program /\ Saved(r) \in Program /\ kept \in Program
      /\ Then(Peek("ipfs"), Saved(r)) \in Program
      /\ Then(Read("db", "next"), kept) \in Program
      /\ Then(Peek("ipfs"), Then(Read("db", "next"), kept)) \in Program
    <2>1. r \in Program /\ last \in Program /\ Saved(r) \in Program
        BY SyncPrograms
    <2>2. kept \in Program /\ Then(Peek("ipfs"), Saved(r)) \in Program
        BY <2>1, ThenFacts, SyncInstructions
    <2>3. Then(Read("db", "next"), kept) \in Program
        BY <2>2, ThenFacts, SyncInstructions
    <2> QED
        BY <2>1, <2>2, <2>3, ThenFacts, SyncInstructions
<1> HIDE DEF last
<1>2. \A v : Uploading(v, r) => SyncMesh(v)
    BY DEF SyncMesh
<1>3. CASE s = EndPass
    <2>1. op = "drop" /\ k = "gossip" /\ u = Done
        BY <1>3, DropGoes, SyncInstructions, SyncPrograms DEF EndPass
    <2> QED
        BY <2>1 DEF SyncFree
<1>4. CASE s = Tell
    <2>1. Then(Drop("ipfs"), EndPass) \in Program
        BY ThenFacts, SyncInstructions, SyncPrograms
    <2>2. op = "write" /\ k = "ipfs" /\ e = "nothing" /\ u \in After("peers", Then(Drop("ipfs"), EndPass))
        BY <1>4, <2>1, WriteGoes, SyncInstructions DEF Tell
    <2> QED
        BY <2>1, <2>2, AfterPeers DEF SyncBoth
<1>5. CASE s = Then(Look("ipfs", "modified"), r)
    <2>1. op = "peek" /\ k = "ipfs" /\ e = "nothing" /\ u \in After("modified", r)
        BY <1>5, LookGoes, SyncInstructions, <1>1, <1>2
    <2> QED
        BY <2>1, AfterModified, <1>1, <1>2 DEF Uploading
<1>6. CASE s = Then(Look("db", "entries"), last)
    <2>1. op = "peek" /\ k = "db" /\ e = "nothing" /\ u \in After("entries", last)
        BY <1>6, LookGoes, SyncInstructions, <1>1, <1>2
    <2>2. last = Then(Touch("ipfs"), r) /\ Saved(r) = Then(Drop("db"), last)
        BY DEF last, Saved
    <2>3. \/ u = last
          \/ u = Then(Touch("db"), Then(Peek("ipfs"), Then(Read("db", "next"),
                    Then(Change("ipfs", "join"), Saved(r)))))
          \/ u = Then(Read("db", "next"), Then(Peek("ipfs"), Saved(r)))
        BY <2>1, <2>2, <1>1, AfterEntries
    <2>4. Uploading(u, r)
        BY <2>2, <2>3 DEF Uploading
    <2> QED
        BY <2>1, <2>4, <1>2
<1>7. CASE s = last
    <2>1. op = "touch" /\ k = "ipfs" /\ e = "nothing" /\ u = r
        BY <1>7, TouchGoes, SyncInstructions, <1>1, <1>2 DEF last
    <2> QED
        BY <2>1, <1>1, <1>2 DEF Uploading
<1>8. CASE s = Then(Touch("db"), Then(Peek("ipfs"), Then(Read("db", "next"), kept)))
    <2>1. op = "touch" /\ k = "db" /\ e = "nothing" /\ u = Then(Peek("ipfs"), Then(Read("db", "next"), kept))
        BY <1>8, TouchGoes, SyncInstructions, <1>1, <1>2
    <2> QED
        BY <2>1, <1>1, <1>2 DEF Uploading
<1>9. CASE s = Then(Peek("ipfs"), Then(Read("db", "next"), kept))
    <2>1. op = "peek" /\ k = "ipfs" /\ e = "nothing" /\ u = Then(Read("db", "next"), kept)
        BY <1>9, PeekGoes, SyncInstructions, <1>1, <1>2
    <2> QED
        BY <2>1, <1>1, <1>2 DEF Uploading
<1>10. CASE s = Then(Read("db", "next"), kept)
    <2>1. op = "read" /\ k = "db" /\ e = "nothing" /\ u \in After("next", kept)
        BY <1>10, ReadGoes, SyncInstructions, <1>1, <1>2
    <2> QED
        BY <2>1, NextGoesOn, <1>1, <1>2 DEF SyncTable
<1>11. CASE s = Then(Read("db", "next"), Then(Peek("ipfs"), Saved(r)))
    <2>1. op = "read" /\ k = "db" /\ e = "nothing" /\ u \in After("next", Then(Peek("ipfs"), Saved(r)))
        BY <1>11, ReadGoes, SyncInstructions, <1>1, <1>2
    <2> QED
        BY <2>1, NextGoesOn, <1>1, <1>2 DEF SyncTable
<1> QED
    BY <1>3, <1>4, <1>5, <1>6, <1>7, <1>8, <1>9, <1>10, <1>11 DEF Uploading, Remainders, last

LEMMA SyncMeshFlow ==
    ASSUME NEW s, SyncMesh(s), NEW op, NEW k, NEW e, NEW u, Goes(s, op, k, e, u)
    PROVE  \/ op \in {"peek", "touch"} /\ k \in {"ipfs", "db"} /\ e = "nothing" /\ SyncMesh(u)
           \/ op = "read" /\ k = "db" /\ e = "nothing" /\ SyncTable(u)
           \/ op = "write" /\ k = "ipfs" /\ e = "nothing" /\ SyncBoth(u)
           \/ op = "drop" /\ k = "gossip" /\ SyncFree(u)
<1> DEFINE modified == Then(Look("ipfs", "modified"), EndPass)
<1>0. modified \in Program /\ EndPass \in Remainders /\ Tell \in Remainders
    BY ThenFacts, SyncInstructions, SyncPrograms DEF Remainders
<1>1. CASE s = Then(Look("ipfs", "alone"), Done)
    <2>1. op = "peek" /\ k = "ipfs" /\ e = "nothing" /\ u \in After("alone", Done)
        BY <1>1, LookGoes, SyncInstructions, SyncPrograms
    <2> QED
        BY <2>1, AfterAlone, SyncPrograms DEF SyncMesh, EndPass
<1>2. CASE s = Then(Write("ipfs", "turn"), Done)
    <2>1. op = "write" /\ k = "ipfs" /\ e = "nothing" /\ u \in After("turn", Done)
        BY <1>2, WriteGoes, SyncInstructions, SyncPrograms
    <2> QED
        BY <2>1, AfterTurn, SyncPrograms DEF SyncBoth, Tell, EndPass
<1>3. CASE s = Then(Touch("ipfs"), modified)
    <2>1. op = "touch" /\ k = "ipfs" /\ e = "nothing" /\ u = modified
        BY <1>3, TouchGoes, SyncInstructions, <1>0
    <2> QED
        BY <2>1, <1>0 DEF SyncMesh, Uploading
<1>4. CASE s = Then(Peek("ipfs"), EndPass)
    <2>1. op = "peek" /\ k = "ipfs" /\ e = "nothing" /\ u = EndPass
        BY <1>4, PeekGoes, SyncInstructions, SyncPrograms
    <2> QED
        BY <2>1, <1>0, SyncPrograms DEF SyncMesh, Uploading
<1>5. CASE \E r \in Remainders : Uploading(s, r)
    BY <1>5, UploadFlow
<1> QED
    BY <1>1, <1>2, <1>3, <1>4, <1>5 DEF SyncMesh

LEMMA SyncTableFlow ==
    ASSUME NEW s, SyncTable(s), NEW op, NEW k, NEW e, NEW u, Goes(s, op, k, e, u)
    PROVE  \/ op = "peek" /\ k = "ipfs" /\ e = "nothing" /\ SyncTable(u)
           \/ op = "touch" /\ k = "ipfs" /\ e = "join" /\ SyncTable(u)
           \/ op = "drop" /\ k = "db" /\ SyncMesh(u)
<1>0. PICK r \in Remainders : \/ s = Then(Change("ipfs", "join"), Saved(r))
                             \/ s = Then(Peek("ipfs"), Saved(r))
                             \/ s = Saved(r)
    BY DEF SyncTable
<1>1. CASE s = Then(Change("ipfs", "join"), Saved(r))
    <2>1. op = "touch" /\ k = "ipfs" /\ e = "join" /\ u = Saved(r)
        BY <1>1, ChangeGoes, SyncInstructions, SyncPrograms
    <2> QED
        BY <2>1, SyncPrograms DEF SyncTable
<1>2. CASE s = Then(Peek("ipfs"), Saved(r))
    <2>1. op = "peek" /\ k = "ipfs" /\ e = "nothing" /\ u = Saved(r)
        BY <1>2, PeekGoes, SyncInstructions, SyncPrograms
    <2> QED
        BY <2>1, SyncPrograms DEF SyncTable
<1>3. CASE s = Saved(r)
    <2>1. op = "drop" /\ k = "db" /\ u = Then(Touch("ipfs"), r)
        BY <1>3, DropGoes, SyncInstructions, SyncPrograms DEF Saved
    <2> QED
        BY <2>1, SyncPrograms DEF SyncMesh, Uploading
<1> QED
    BY <1>0, <1>1, <1>2, <1>3

LEMMA SyncBothFlow ==
    ASSUME NEW s, SyncBoth(s), NEW op, NEW k, NEW e, NEW u, Goes(s, op, k, e, u)
    PROVE  \/ op = "drop" /\ k = "ipfs" /\ SyncMesh(u)
           \/ op = "send" /\ e = "sync" /\ SyncBoth(u)
<1>0. /\ Then(Look("ipfs", "modified"), Tell) \in Program
      /\ Then(Peek("ipfs"), EndPass) \in Program
      /\ Then(Drop("ipfs"), EndPass) \in Program
      /\ EndPass \in Remainders /\ Tell \in Remainders
    BY ThenFacts, SyncInstructions, SyncPrograms DEF Remainders
<1>1. CASE s = Then(Drop("ipfs"), Then(Look("ipfs", "modified"), Tell))
    <2>1. op = "drop" /\ k = "ipfs" /\ u = Then(Look("ipfs", "modified"), Tell)
        BY <1>1, DropGoes, SyncInstructions, <1>0
    <2> QED
        BY <2>1, <1>0 DEF SyncMesh, Uploading
<1>2. CASE s = Then(Drop("ipfs"), Then(Peek("ipfs"), EndPass))
    <2>1. op = "drop" /\ k = "ipfs" /\ u = Then(Peek("ipfs"), EndPass)
        BY <1>2, DropGoes, SyncInstructions, <1>0
    <2> QED
        BY <2>1, <1>0 DEF SyncMesh
<1>3. CASE s = Then(Drop("ipfs"), EndPass)
    <2>1. op = "drop" /\ k = "ipfs" /\ u = EndPass
        BY <1>3, DropGoes, SyncInstructions, SyncPrograms
    <2> QED
        BY <2>1, <1>0, SyncPrograms DEF SyncMesh, Uploading
<1>4. CASE s = Then(Send("sync"), Then(Drop("ipfs"), EndPass))
    <2>1. op = "send" /\ e = "sync" /\ u = Then(Drop("ipfs"), EndPass)
        BY <1>4, SendGoes, SyncInstructions, <1>0
    <2> QED
        BY <2>1, <1>0 DEF SyncBoth
<1> QED
    BY <1>1, <1>2, <1>3, <1>4 DEF SyncBoth

-----------------------------------------------------------------------------
(* The heartbeat: what it may have left while it holds nothing, or the mesh   *)

BeatFree(s) ==
    \/ s = Done
    \/ s = Then(Look("gossip", "mesh"), Done)
    \/ \E w \in Reckonings : s = Then(Read("gossip", w), EndPass)

BeatMesh(s) ==
    \/ s = EndPass
    \/ s = Then(Write("gossip", "next"), Then(Drop("gossip"), EndPass))
    \/ s = Then(Ending, EndPass)
    \/ s = Then(Spinning, EndPass)

LEMMA BeatFreeFlow ==
    ASSUME node.mesh \in Nat \cup {None},
           NEW s, BeatFree(s), NEW op, NEW k, NEW e, NEW u, Goes(s, op, k, e, u)
    PROVE  \/ op = "peek" /\ k = "gossip" /\ e = "nothing" /\ BeatFree(u)
           \/ op = "read" /\ k = "gossip" /\ e = "nothing" /\ BeatMesh(u)
<1>1. CASE s = Done
    BY <1>1, DoneGoesNowhere
<1>2. CASE s = Then(Look("gossip", "mesh"), Done)
    <2>1. "gossip" \in Locks /\ "mesh" \in Ways
        BY DEF Locks, Ways
    <2>2. op = "peek" /\ k = "gossip" /\ e = "nothing" /\ u \in After("mesh", Done)
        BY <1>2, <2>1, LookGoes, SyncPrograms
    <2> QED
        BY <2>2, AfterMesh, SyncPrograms DEF BeatFree, EndPass
<1>3. ASSUME NEW w \in Reckonings, s = Then(Read("gossip", w), EndPass)
      PROVE  op = "read" /\ k = "gossip" /\ e = "nothing" /\ BeatMesh(u)
    <2>1. "gossip" \in Locks /\ w \in Ways
        BY <1>3 DEF Locks, Ways, Reckonings
    <2>2. op = "read" /\ k = "gossip" /\ e = "nothing" /\ u \in After(w, EndPass)
        BY <1>3, <2>1, ReadGoes, SyncPrograms
    <2>3. CASE w = "next"
        BY <2>2, <2>3, NextGoesOn, SyncPrograms DEF BeatMesh
    <2>4. CASE w = "graft"
        BY <2>2, <2>4, AfterGraft, SyncPrograms DEF BeatMesh
    <2>5. CASE w = "none left"
        BY <2>2, <2>5, AfterNoneLeft, SyncPrograms DEF BeatMesh
    <2>6. CASE w = "below zero"
        BY <2>2, <2>6, AfterBelowZero, SyncPrograms DEF BeatMesh
    <2>7. CASE w = "prune"
        BY <2>2, <2>7, AfterPrune, SyncPrograms DEF BeatMesh
    <2> QED
        BY <2>2, <2>3, <2>4, <2>5, <2>6, <2>7, <1>3 DEF Reckonings
<1> QED
    BY <1>1, <1>2, <1>3 DEF BeatFree

LEMMA BeatMeshFlow ==
    ASSUME NEW s, BeatMesh(s), NEW op, NEW k, NEW e, NEW u, Goes(s, op, k, e, u)
    PROVE  \/ op = "drop" /\ k = "gossip" /\ BeatFree(u)
           \/ op = "write" /\ k = "gossip"
           \/ op \in {"end", "spin"}
<1>1. CASE s = EndPass
    <2>1. op = "drop" /\ k = "gossip" /\ u = Done
        BY <1>1, DropGoes, SyncInstructions, SyncPrograms DEF EndPass
    <2> QED
        BY <2>1 DEF BeatFree
<1>2. CASE s = Then(Write("gossip", "next"), Then(Drop("gossip"), EndPass))
    <2>1. Then(Drop("gossip"), EndPass) \in Program /\ "gossip" \in Locks /\ "next" \in Ways
        BY ThenFacts, SyncInstructions, SyncPrograms DEF Locks, Ways
    <2> QED
        BY <1>2, <2>1, WriteGoes
<1>3. CASE s = Then(Ending, EndPass)
    BY <1>3, OthersGo, SyncPrograms
<1>4. CASE s = Then(Spinning, EndPass)
    BY <1>4, OthersGo, SyncPrograms
<1> QED
    BY <1>1, <1>2, <1>3, <1>4 DEF BeatMesh

-----------------------------------------------------------------------------
(* Clients: what a command may have left.  They never keep a lock.            *)

\* A command that waits for the answer of the loop.
Awaiting(s) == s = Then(Await, Done) \/ s = Then(Await, Then(Touch("db"), Done))

ClientList(s) ==
    \/ s = Done
    \/ s = Then(Touch("db"), Then(Send("flag"), Then(Send("gossip"), Done)))
    \/ s = Then(Send("flag"), Then(Send("gossip"), Done))
    \/ s = Then(Send("gossip"), Done)
    \/ s = Then(Peek("db"), Done)
    \/ s = Then(Touch("db"), Then(Send("subscribe"), Then(Await, Then(Touch("db"), Done))))
    \/ s = Then(Send("subscribe"), Then(Await, Then(Touch("db"), Done)))
    \/ s = Then(Touch("db"), Done)
    \/ s = Then(Touch("db"), Then(Send("unsubscribe"), Then(Await, Done)))
    \/ s = Then(Send("unsubscribe"), Then(Await, Done))
    \/ s = Then(Send("info"), Done)
    \/ s = Then(Send("pinning"), Then(Await, Done))
    \/ s = Then(Touch("ipfs"), Done)
    \/ s = Then(Look("ipfs", "seize"), Done)
    \/ Awaiting(s)

LEMMA ClientInstructions ==
    /\ {Touch("db"), Peek("db"), Touch("ipfs"), Look("ipfs", "seize"), Await, Send("flag"),
        Send("gossip"), Send("subscribe"), Send("unsubscribe"), Send("info"), Send("pinning")}
          \subseteq Instruction
    /\ {"db", "ipfs", "gossip"} \subseteq Locks /\ "seize" \in Ways
    /\ {"flag", "gossip", "subscribe", "unsubscribe", "info", "pinning"} \subseteq Messages
<1>1. /\ {"db", "ipfs", "gossip"} \subseteq Locks /\ "seize" \in Ways
      /\ {"flag", "gossip", "subscribe", "unsubscribe", "info", "pinning"} \subseteq Messages
    BY DEF Ways, Locks, Messages
<1> QED
    BY <1>1, InstructionFacts

LEMMA ClientPrograms ==
    /\ Done \in Program
    /\ \A i \in {Send("gossip"), Await, Touch("db")} : Then(i, Done) \in Program
    /\ Then(Send("flag"), Then(Send("gossip"), Done)) \in Program
    /\ Then(Await, Then(Touch("db"), Done)) \in Program
    /\ Then(Send("subscribe"), Then(Await, Then(Touch("db"), Done))) \in Program
    /\ Then(Send("unsubscribe"), Then(Await, Done)) \in Program
<1>1. Done \in Program
    BY DEF Done, Program
<1>2. \A i \in {Send("gossip"), Await, Touch("db")} : Then(i, Done) \in Program
    BY <1>1, ThenFacts, ClientInstructions
<1>3. /\ Then(Send("flag"), Then(Send("gossip"), Done)) \in Program
      /\ Then(Await, Then(Touch("db"), Done)) \in Program
    BY <1>2, ThenFacts, ClientInstructions
<1> QED
    BY <1>1, <1>2, <1>3, ThenFacts, ClientInstructions

LEMMA ClientFlow ==
    ASSUME NEW s, ClientList(s), NEW op, NEW k, NEW e, NEW u, Goes(s, op, k, e, u)
    PROVE  \/ op \in {"peek", "touch"} /\ k \in {"db", "ipfs"} /\ e = "nothing" /\ ClientList(u)
           \/ op = "send" /\ e \in {"flag", "gossip", "info"} /\ ClientList(u)
           \/ op = "send" /\ e \in {"subscribe", "unsubscribe", "pinning"} /\ Awaiting(u)
           \/ op = "await" /\ ClientList(u)
<1>1. CASE s = Done
    BY <1>1, DoneGoesNowhere
<1>2. CASE s = Then(Touch("db"), Then(Send("flag"), Then(Send("gossip"), Done)))
    <2>1. op = "touch" /\ k = "db" /\ e = "nothing" /\ u = Then(Send("flag"), Then(Send("gossip"), Done))
        BY <1>2, TouchGoes, ClientInstructions, ClientPrograms
    <2> QED
        BY <2>1, ClientPrograms DEF ClientList
<1>3. CASE s = Then(Send("flag"), Then(Send("gossip"), Done))
    <2>1. op = "send" /\ e = "flag" /\ u = Then(Send("gossip"), Done)
        BY <1>3, SendGoes, ClientInstructions, ClientPrograms
    <2> QED
        BY <2>1, ClientPrograms DEF ClientList
<1>4. CASE s = Then(Send("gossip"), Done)
    <2>1. op = "send" /\ e = "gossip" /\ u = Done
        BY <1>4, SendGoes, ClientInstructions, ClientPrograms
    <2> QED
        BY <2>1, ClientPrograms DEF ClientList
<1>5. CASE s = Then(Peek("db"), Done)
    <2>1. op = "peek" /\ k = "db" /\ e = "nothing" /\ u = Done
        BY <1>5, PeekGoes, ClientInstructions, ClientPrograms
    <2> QED
        BY <2>1, ClientPrograms DEF ClientList
<1>6. CASE s = Then(Touch("db"), Then(Send("subscribe"), Then(Await, Then(Touch("db"), Done))))
    <2>1. op = "touch" /\ k = "db" /\ e = "nothing" /\ u = Then(Send("subscribe"), Then(Await, Then(Touch("db"), Done)))
        BY <1>6, TouchGoes, ClientInstructions, ClientPrograms
    <2> QED
        BY <2>1, ClientPrograms DEF ClientList
<1>7. CASE s = Then(Send("subscribe"), Then(Await, Then(Touch("db"), Done)))
    <2>1. op = "send" /\ e = "subscribe" /\ u = Then(Await, Then(Touch("db"), Done))
        BY <1>7, SendGoes, ClientInstructions, ClientPrograms
    <2> QED
        BY <2>1, ClientPrograms DEF Awaiting
<1>8. CASE s = Then(Touch("db"), Done)
    <2>1. op = "touch" /\ k = "db" /\ e = "nothing" /\ u = Done
        BY <1>8, TouchGoes, ClientInstructions, ClientPrograms
    <2> QED
        BY <2>1, ClientPrograms DEF ClientList
<1>9. CASE s = Then(Touch("db"), Then(Send("unsubscribe"), Then(Await, Done)))
    <2>1. op = "touch" /\ k = "db" /\ e = "nothing" /\ u = Then(Send("unsubscribe"), Then(Await, Done))
        BY <1>9, TouchGoes, ClientInstructions, ClientPrograms
    <2> QED
        BY <2>1, ClientPrograms DEF ClientList
<1>10. CASE s = Then(Send("unsubscribe"), Then(Await, Done))
    <2>1. op = "send" /\ e = "unsubscribe" /\ u = Then(Await, Done)
        BY <1>10, SendGoes, ClientInstructions, ClientPrograms
    <2> QED
        BY <2>1, ClientPrograms DEF Awaiting
<1>11. CASE s = Then(Send("info"), Done)
    <2>1. op = "send" /\ e = "info" /\ u = Done
        BY <1>11, SendGoes, ClientInstructions, ClientPrograms
    <2> QED
        BY <2>1, ClientPrograms DEF ClientList
<1>12. CASE s = Then(Send("pinning"), Then(Await, Done))
    <2>1. op = "send" /\ e = "pinning" /\ u = Then(Await, Done)
        BY <1>12, SendGoes, ClientInstructions, ClientPrograms
    <2> QED
        BY <2>1, ClientPrograms DEF Awaiting
<1>13. CASE s = Then(Touch("ipfs"), Done)
    <2>1. op = "touch" /\ k = "ipfs" /\ e = "nothing" /\ u = Done
        BY <1>13, TouchGoes, ClientInstructions, ClientPrograms
    <2> QED
        BY <2>1, ClientPrograms DEF ClientList
<1>14. CASE s = Then(Look("ipfs", "seize"), Done)
    <2>1. op = "peek" /\ k = "ipfs" /\ e = "nothing" /\ u \in After("seize", Done)
        BY <1>14, LookGoes, ClientInstructions, ClientPrograms
    <2> QED
        BY <2>1, AfterSeize, ClientPrograms DEF ClientList
<1>15. CASE Awaiting(s)
    <2>1. op = "await" /\ (u = Done \/ u = Then(Touch("db"), Done))
        BY <1>15, AwaitGoes, ClientPrograms DEF Awaiting
    <2> QED
        BY <2>1 DEF ClientList
<1> QED
    BY <1>1, <1>2, <1>3, <1>4, <1>5, <1>6, <1>7, <1>8, <1>9, <1>10, <1>11, <1>12, <1>13, <1>14, <1>15 DEF ClientList

LEMMA CommandStarts == \A c \in Commands : ClientList(Command(c))
<1>0. Done \in Program /\ \A s \in Program : s \o Done = s
    BY CatFacts DEF Done, Program
<1>1. Mutate = Then(Touch("db"), Then(Send("flag"), Then(Send("gossip"), Done)))
    <2>1. Mutate \in Program
        BY ClientInstructions DEF Program, Mutate
    <2>2. Mutate \o Done = Then(Touch("db"), Then(Send("flag"), Then(Send("gossip"), Done)))
        BY <1>0, ClientInstructions, Cat3 DEF Mutate
    <2> QED
        BY <1>0, <2>1, <2>2
<1>2. Query = Then(Peek("db"), Done)
    <2>1. Query \in Program
        BY ClientInstructions DEF Program, Query
    <2>2. Query \o Done = Then(Peek("db"), Done)
        BY <1>0, ClientInstructions DEF Query, Then
    <2> QED
        BY <1>0, <2>1, <2>2
<1>3. InitApplication = Then(Touch("db"), Then(Send("subscribe"), Then(Await, Then(Touch("db"), Done))))
    <2>1. InitApplication \in Program
        BY ClientInstructions DEF Program, InitApplication
    <2>2. InitApplication \o Done = Then(Touch("db"), Then(Send("subscribe"), Then(Await, Then(Touch("db"), Done))))
        BY <1>0, ClientInstructions, Cat4 DEF InitApplication
    <2> QED
        BY <1>0, <2>1, <2>2
<1>4. ForgetApplication = Then(Touch("db"), Then(Send("unsubscribe"), Then(Await, Done)))
    <2>1. ForgetApplication \in Program
        BY ClientInstructions DEF Program, ForgetApplication
    <2>2. ForgetApplication \o Done = Then(Touch("db"), Then(Send("unsubscribe"), Then(Await, Done)))
        BY <1>0, ClientInstructions, Cat3 DEF ForgetApplication
    <2> QED
        BY <1>0, <2>1, <2>2
<1>5. GetDbInfo = Then(Send("info"), Done)
    <2>1. GetDbInfo \in Program
        BY ClientInstructions DEF Program, GetDbInfo
    <2>2. GetDbInfo \o Done = Then(Send("info"), Done)
        BY <1>0, ClientInstructions DEF GetDbInfo, Then
    <2> QED
        BY <1>0, <2>1, <2>2
<1>6. ChangeDbCfg = Then(Send("pinning"), Then(Await, Done))
    <2>1. ChangeDbCfg \in Program
        BY ClientInstructions DEF Program, ChangeDbCfg
    <2>2. ChangeDbCfg \o Done = Then(Send("pinning"), Then(Await, Done))
        BY <1>0, ClientInstructions, Cat2 DEF ChangeDbCfg
    <2> QED
        BY <1>0, <2>1, <2>2
<1>7. TakeOver = Then(Touch("ipfs"), Done)
    <2>1. TakeOver \in Program
        BY ClientInstructions DEF Program, TakeOver
    <2>2. TakeOver \o Done = Then(Touch("ipfs"), Done)
        BY <1>0, ClientInstructions DEF TakeOver, Then
    <2> QED
        BY <1>0, <2>1, <2>2
<1>8. SeizeTurn = Then(Look("ipfs", "seize"), Done)
    <2>1. SeizeTurn \in Program
        BY ClientInstructions DEF Program, SeizeTurn
    <2>2. SeizeTurn \o Done = Then(Look("ipfs", "seize"), Done)
        BY <1>0, ClientInstructions DEF SeizeTurn, Then
    <2> QED
        BY <1>0, <2>1, <2>2
<1>9. \A c \in Commands : Command(c) \in {Mutate, Query, InitApplication, ForgetApplication, GetDbInfo, ChangeDbCfg, TakeOver, SeizeTurn}
    BY WorkAssumption DEF Command
<1> QED
    BY <1>1, <1>2, <1>3, <1>4, <1>5, <1>6, <1>7, <1>8, <1>9 DEF ClientList

LEMMA PassStarts == SyncFree(SyncPass) /\ BeatFree(Heartbeat)
<1>1. SyncPass = Then(Look("ipfs", "subscribed"), Done)
    <2>1. Look("ipfs", "subscribed") \in Instruction
        BY SyncInstructions
    <2>2. SyncPass \in Program /\ SyncPass \o Done = Then(Look("ipfs", "subscribed"), Done)
        BY <2>1 DEF SyncPass, Program, Then
    <2> QED
        BY <2>2, CatFacts DEF Done
<1>2. Heartbeat = Then(Look("gossip", "mesh"), Done)
    <2>1. Look("gossip", "mesh") \in Instruction
        BY InstructionFacts DEF Locks, Ways
    <2>2. Heartbeat \in Program /\ Heartbeat \o Done = Then(Look("gossip", "mesh"), Done)
        BY <2>1 DEF Heartbeat, Program, Then
    <2> QED
        BY <2>2, CatFacts DEF Done
<1> QED
    BY <1>1, <1>2 DEF SyncFree, BeatFree

-----------------------------------------------------------------------------
(* The network loop: most lists only look and change, one lock at a time, and *)
(* may end in an answer                                                       *)

QuietEffects == {"nothing", "join", "leave", "spawn", "fill", "empty", "leaver"}

QuietWays == {"next", "pinning", "data", "leaver", "yield"}

QuietInstruction ==
    [op : {"peek", "touch"}, lock : Locks, arg : QuietEffects, then : QuietWays]

Quiet == Seq(QuietInstruction)

\* The rest of a list whose last instruction answers client c.
Owes(s, c) == \E w \in Quiet : s = w \o <<Answer(c)>>

\* The mesh is about to get one more peer.
Growing(s) ==
    \/ s = Then(Look("db", "newcomer"), Done)
    \/ s = Then(Peek("ipfs"), Then(Change("gossip", "newcomer"), Done))
    \/ s = Then(Change("gossip", "newcomer"), Done)
    \/ s = Then(Change("gossip", "graft"), Done)

InfoFree(s) ==
    \/ s = Then(Peek("ipfs"), Then(Read("gossip", "next"), Then(Peek("ipfs"), EndPass)))
    \/ s = Then(Read("gossip", "next"), Then(Peek("ipfs"), EndPass))

\* The mesh is held for reading.
InfoMesh(s) == s = Then(Peek("ipfs"), EndPass) \/ s = EndPass

EndConfig == Then(Drop("ipfs"), Done)

ConfigFree(s) == s = Then(Write("ipfs", "next"), Then(Peek("gossip"), EndConfig))

\* The lock of IPFS is held for writing.
ConfigIpfs(s) == s = Then(Peek("gossip"), EndConfig) \/ s = EndConfig

LEMMA QuietFacts ==
    /\ QuietInstruction \subseteq Instruction
    /\ \A l \in Locks :
          /\ Peek(l) \in QuietInstruction /\ Touch(l) \in QuietInstruction
          /\ \A b \in QuietWays : Look(l, b) \in QuietInstruction
          /\ \A e \in QuietEffects : Change(l, e) \in QuietInstruction
    /\ Instr("peek", "gossip", "spawn", "next") \in QuietInstruction
<1>1. /\ {"peek", "touch"} \subseteq Ops /\ QuietEffects \subseteq Effects
      /\ QuietWays \subseteq Ways /\ "next" \in QuietWays /\ "nothing" \in QuietEffects
      /\ "spawn" \in QuietEffects /\ "gossip" \in Locks
    BY DEF QuietEffects, QuietWays, Ops, Effects, Ways, Locks
<1>2. QuietInstruction \subseteq Instruction
    BY <1>1 DEF QuietInstruction, Instruction, Talks, Handles
<1>3. \A op \in {"peek", "touch"}, l \in Locks, e \in QuietEffects, b \in QuietWays :
          Instr(op, l, e, b) \in QuietInstruction
    BY DEF Instr, QuietInstruction
<1>4. ASSUME NEW l \in Locks
      PROVE  /\ Peek(l) \in QuietInstruction /\ Touch(l) \in QuietInstruction
             /\ \A b \in QuietWays : Look(l, b) \in QuietInstruction
             /\ \A e \in QuietEffects : Change(l, e) \in QuietInstruction
    BY <1>1, <1>3 DEF Peek, Look, Touch, Change
<1> QED
    BY <1>1, <1>2, <1>3, <1>4

LEMMA QuietContinuations ==
    ASSUME NEW b \in QuietWays, NEW list \in Continuations(b)
    PROVE  list \in Quiet
<1> DEFINE Q == QuietInstruction
<1>1. /\ Touch("ipfs") \in Q /\ Peek("gossip") \in Q /\ Touch("gossip") \in Q
      /\ Touch("db") \in Q /\ Peek("ipfs") \in Q /\ Change("gossip", "leaver") \in Q
    BY QuietFacts DEF Locks, QuietEffects
<1> HIDE DEF Q
<1>2. /\ <<>> \in Seq(Q) /\ <<Touch("ipfs"), Peek("gossip")>> \in Seq(Q)
      /\ <<Touch("gossip")>> \in Seq(Q) /\ <<Touch("ipfs")>> \in Seq(Q)
      /\ <<Peek("ipfs"), Change("gossip", "leaver")>> \in Seq(Q)
    BY <1>1
<1>3. <<Touch("ipfs")>> \o MergeData \o PublishMsg \in Seq(Q)
    BY <1>1 DEF MergeData, PublishMsg
<1>4. list \in {<<>>, <<Touch("ipfs"), Peek("gossip")>>, <<Touch("gossip")>>, <<Touch("ipfs")>>,
                <<Peek("ipfs"), Change("gossip", "leaver")>>,
                <<Touch("ipfs")>> \o MergeData \o PublishMsg}
    BY DEF Continuations, QuietWays
<1> QED
    BY <1>2, <1>3, <1>4 DEF Quiet, Q

LEMMA QuietFlow ==
    ASSUME NEW s \in Quiet, NEW op, NEW k, NEW e, NEW u, Goes(s, op, k, e, u)
    PROVE  op \in {"peek", "touch"} /\ k \in Locks /\ e \in QuietEffects /\ u \in Quiet
<1>1. Head(s) \in QuietInstruction /\ Tail(s) \in Quiet
    BY DEF Goes, Quiet
<1>2. /\ Head(s).op \in {"peek", "touch"} /\ Head(s).lock \in Locks
      /\ Head(s).arg \in QuietEffects /\ Head(s).then \in QuietWays
    BY <1>1 DEF QuietInstruction
<1>3. op \in {"peek", "touch"} /\ k \in Locks /\ e \in QuietEffects
    BY <1>2 DEF Goes
<1>4. PICK list \in Continuations(Head(s).then) : u = list \o Tail(s)
    BY DEF Goes, After
<1>5. list \in Quiet
    BY <1>2, <1>4, QuietContinuations
<1>6. u \in Quiet
    BY <1>1, <1>4, <1>5 DEF Quiet
<1> QED
    BY <1>3, <1>6

LEMMA OwesFlow ==
    ASSUME NEW c \in Clients, NEW s, Owes(s, c),
           NEW op, NEW k, NEW e, NEW u, Goes(s, op, k, e, u)
    PROVE  \/ op \in {"peek", "touch"} /\ k \in Locks /\ e \in QuietEffects /\ Owes(u, c)
           \/ op = "answer" /\ e = c /\ u = Done
<1> DEFINE last == <<Answer(c)>>
<1>1. PICK w \in Quiet : s = w \o last
    BY DEF Owes
<1>2. Answer(c) \in Instruction /\ c \in Tasks
    BY InstructionFacts DEF Tasks
<1>3. w \in Program /\ last \in Program /\ Done \in Program
    BY <1>2, QuietFacts DEF Quiet, Program, Done
<1>4. CASE w = <<>>
    <2>1. s = Then(Answer(c), Done)
        BY <1>1, <1>3, <1>4, CatFacts DEF Then, Done
    <2>2. op = "answer" /\ e = c /\ u = Done
        BY <2>1, <1>2, <1>3, AnswerGoes
    <2> QED
        BY <2>2
<1>5. CASE w # <<>>
    <2>1. /\ Head(w) \in QuietInstruction /\ Tail(w) \in Quiet
          /\ Head(s) = Head(w) /\ Tail(s) = Tail(w) \o last
        <3> HIDE DEF last
        <3>1. Head(w) \in QuietInstruction /\ Tail(w) \in Quiet
            BY <1>5 DEF Quiet
        <3>2. Tail(w) \in Program
            BY <3>1, QuietFacts DEF Quiet, Program
        <3>3. Head(w) \in Instruction /\ w \in Program /\ Follows(w, Head(w), Tail(w))
            <4>1. w \in Seq(QuietInstruction)
                BY DEF Quiet
            <4>2. /\ Len(w) = Len(Tail(w)) + 1 /\ w[1] = Head(w)
                  /\ \A i \in 1 .. Len(Tail(w)) : w[i + 1] = Tail(w)[i]
                BY <4>1, <1>5
            <4> QED
                BY <1>3, <3>1, <4>2, QuietFacts DEF Follows
        <3>4. w = Then(Head(w), Tail(w))
            BY <3>2, <3>3, FollowsThen
        <3>5. s = Then(Head(w), Tail(w) \o last) /\ Tail(w) \o last \in Program
            <4> DEFINE a == Head(w)
                       r == Tail(w)
            <4>1. a \in Instruction /\ r \in Program /\ s = Then(a, r) \o last
                BY <1>1, <3>2, <3>3, <3>4
            <4> HIDE DEF a, r
            <4>2. s = Then(a, r \o last) /\ r \o last \in Program
                BY <1>3, <4>1, CatFacts
            <4> QED
                BY <4>2 DEF a, r
        <3> QED
            BY <3>1, <3>3, <3>5, ThenFacts
    <2>2. /\ Head(w).op \in {"peek", "touch"} /\ Head(w).lock \in Locks
          /\ Head(w).arg \in QuietEffects /\ Head(w).then \in QuietWays
        BY <2>1 DEF QuietInstruction
    <2>3. op \in {"peek", "touch"} /\ k \in Locks /\ e \in QuietEffects
        BY <2>1, <2>2 DEF Goes
    <2>4. PICK list \in Continuations(Head(w).then) : u = list \o (Tail(w) \o last)
        BY <2>1 DEF Goes, After
    <2>5. list \in Quiet
        BY <2>2, <2>4, QuietContinuations
    <2>6. list \o Tail(w) \in Quiet /\ u = (list \o Tail(w)) \o last
        BY <1>3, <2>1, <2>4, <2>5, QuietFacts, CatAssociative DEF Quiet, Program
    <2> QED
        BY <2>3, <2>6 DEF Owes
<1> QED
    BY <1>4, <1>5

LEMMA LoopInstructions ==
    /\ {Look("db", "newcomer"), Peek("ipfs"), Change("gossip", "newcomer"),
        Change("gossip", "graft"), Read("gossip", "next"), Drop("gossip"), Write("ipfs", "next"),
        Peek("gossip"), Drop("ipfs")} \subseteq Instruction
    /\ {"db", "ipfs", "gossip"} \subseteq Locks /\ {"next", "newcomer"} \subseteq Ways
    /\ {"newcomer", "graft"} \subseteq Effects
<1>1. /\ {"db", "ipfs", "gossip"} \subseteq Locks /\ {"next", "newcomer"} \subseteq Ways
      /\ {"newcomer", "graft"} \subseteq Effects
    BY DEF Ways, Locks, Effects
<1> QED
    BY <1>1, InstructionFacts

LEMMA LoopPrograms ==
    /\ Done \in Program /\ Done \in Quiet /\ EndPass \in Program /\ EndConfig \in Program
    /\ Then(Change("gossip", "newcomer"), Done) \in Program
    /\ Then(Peek("ipfs"), EndPass) \in Program
    /\ Then(Read("gossip", "next"), Then(Peek("ipfs"), EndPass)) \in Program
    /\ Then(Peek("gossip"), EndConfig) \in Program
    /\ Then(Touch("gossip"), Done) \in Quiet
<1>1. Done \in Program /\ Done \in Quiet /\ EndPass \in Program
    BY SyncPrograms DEF Done, Quiet
<1>2. /\ EndConfig \in Program /\ Then(Change("gossip", "newcomer"), Done) \in Program
      /\ Then(Peek("ipfs"), EndPass) \in Program
    BY <1>1, ThenFacts, LoopInstructions DEF EndConfig
<1>3. Then(Touch("gossip"), Done) \in Quiet
    <2>1. Touch("gossip") \in QuietInstruction
        BY QuietFacts DEF Locks
    <2> QED
        BY <2>1 DEF Then, Done, Quiet
<1> QED
    BY <1>1, <1>2, <1>3, ThenFacts, LoopInstructions

LEMMA GrowingFlow ==
    ASSUME NEW s, Growing(s), NEW op, NEW k, NEW e, NEW u, Goes(s, op, k, e, u)
    PROVE  \/ op = "peek" /\ k \in {"db", "ipfs"} /\ e = "nothing" /\ (Growing(u) \/ u \in Quiet)
           \/ op = "touch" /\ k = "gossip" /\ e \in {"newcomer", "graft"} /\ u \in Quiet
<1>1. CASE s = Then(Look("db", "newcomer"), Done)
    <2>1. op = "peek" /\ k = "db" /\ e = "nothing" /\ u \in After("newcomer", Done)
        BY <1>1, LookGoes, LoopInstructions, LoopPrograms
    <2> QED
        BY <2>1, AfterNewcomer, LoopPrograms DEF Growing
<1>2. CASE s = Then(Peek("ipfs"), Then(Change("gossip", "newcomer"), Done))
    <2>1. op = "peek" /\ k = "ipfs" /\ e = "nothing" /\ u = Then(Change("gossip", "newcomer"), Done)
        BY <1>2, PeekGoes, LoopInstructions, LoopPrograms
    <2> QED
        BY <2>1, LoopPrograms DEF Growing
<1>3. CASE s = Then(Change("gossip", "newcomer"), Done)
    <2>1. op = "touch" /\ k = "gossip" /\ e = "newcomer" /\ u = Done
        BY <1>3, ChangeGoes, LoopInstructions, LoopPrograms
    <2> QED
        BY <2>1, LoopPrograms
<1>4. CASE s = Then(Change("gossip", "graft"), Done)
    <2>1. op = "touch" /\ k = "gossip" /\ e = "graft" /\ u = Done
        BY <1>4, ChangeGoes, LoopInstructions, LoopPrograms
    <2> QED
        BY <2>1, LoopPrograms
<1> QED
    BY <1>1, <1>2, <1>3, <1>4 DEF Growing

LEMMA InfoFlow ==
    ASSUME NEW s, NEW op, NEW k, NEW e, NEW u, Goes(s, op, k, e, u)
    PROVE  /\ InfoFree(s) =>
                 \/ op = "peek" /\ k = "ipfs" /\ e = "nothing" /\ InfoFree(u)
                 \/ op = "read" /\ k = "gossip" /\ e = "nothing" /\ InfoMesh(u)
           /\ InfoMesh(s) =>
                 \/ op = "peek" /\ k = "ipfs" /\ e = "nothing" /\ InfoMesh(u)
                 \/ op = "drop" /\ k = "gossip" /\ u = Done
<1>1. ASSUME s = Then(Peek("ipfs"), Then(Read("gossip", "next"), Then(Peek("ipfs"), EndPass)))
      PROVE  op = "peek" /\ k = "ipfs" /\ e = "nothing" /\ InfoFree(u)
    BY <1>1, PeekGoes, LoopInstructions, LoopPrograms DEF InfoFree
<1>2. ASSUME s = Then(Read("gossip", "next"), Then(Peek("ipfs"), EndPass))
      PROVE  op = "read" /\ k = "gossip" /\ e = "nothing" /\ InfoMesh(u)
    BY <1>2, ReadGoes, NextGoesOn, LoopInstructions, LoopPrograms DEF InfoMesh
<1>3. ASSUME s = Then(Peek("ipfs"), EndPass)
      PROVE  op = "peek" /\ k = "ipfs" /\ e = "nothing" /\ InfoMesh(u)
    BY <1>3, PeekGoes, LoopInstructions, LoopPrograms DEF InfoMesh
<1>4. ASSUME s = EndPass
      PROVE  op = "drop" /\ k = "gossip" /\ u = Done
    BY <1>4, DropGoes, LoopInstructions, LoopPrograms DEF EndPass
<1> QED
    BY <1>1, <1>2, <1>3, <1>4 DEF InfoFree, InfoMesh

LEMMA ConfigFlow ==
    ASSUME NEW s, NEW op, NEW k, NEW e, NEW u, Goes(s, op, k, e, u)
    PROVE  /\ ConfigFree(s) => op = "write" /\ k = "ipfs" /\ e = "nothing" /\ ConfigIpfs(u)
           /\ ConfigIpfs(s) =>
                 \/ op = "peek" /\ k = "gossip" /\ e = "nothing" /\ ConfigIpfs(u)
                 \/ op = "drop" /\ k = "ipfs" /\ u = Done
<1>1. ASSUME s = Then(Write("ipfs", "next"), Then(Peek("gossip"), EndConfig))
      PROVE  op = "write" /\ k = "ipfs" /\ e = "nothing" /\ ConfigIpfs(u)
    BY <1>1, WriteGoes, NextGoesOn, LoopInstructions, LoopPrograms DEF ConfigIpfs
<1>2. ASSUME s = Then(Peek("gossip"), EndConfig)
      PROVE  op = "peek" /\ k = "gossip" /\ e = "nothing" /\ ConfigIpfs(u)
    BY <1>2, PeekGoes, LoopInstructions, LoopPrograms DEF ConfigIpfs
<1>3. ASSUME s = EndConfig
      PROVE  op = "drop" /\ k = "ipfs" /\ u = Done
    BY <1>3, DropGoes, LoopInstructions, LoopPrograms DEF EndConfig
<1> QED
    BY <1>1, <1>2, <1>3 DEF ConfigFree, ConfigIpfs


(* What the loop begins with when it takes a message or an event.             *)

LEMMA MessageStarts ==
    ASSUME NEW m \in Messages, NEW t \in Tasks, NEW list \in OnMessage(m, t)
    PROVE  /\ m \in {"subscribe", "unsubscribe", "pinning"} => Owes(list, t)
           /\ m \in {"flag", "gossip", "sync"} => list \in Quiet
           /\ m = "info" => InfoFree(list)
<1> DEFINE Q == QuietInstruction
<1>1. /\ Touch("ipfs") \in Q /\ Touch("gossip") \in Q /\ Touch("db") \in Q
      /\ Peek("ipfs") \in Q /\ Peek("gossip") \in Q /\ Spawning \in Q
      /\ Change("ipfs", "join") \in Q /\ Change("ipfs", "leave") \in Q
      /\ Change("gossip", "fill") \in Q /\ Change("gossip", "empty") \in Q
      /\ Look("ipfs", "pinning") \in Q
    BY QuietFacts DEF Locks, QuietEffects, QuietWays, Spawning
<1> HIDE DEF Q
<1>2. ASSUME m = "subscribe"
      PROVE  Owes(list, t)
    <2>1. PICK rest \in {Subscribe, <<Touch("db")>>} :
             list = <<Change("ipfs", "join")>> \o rest \o <<Answer(t)>>
        BY <1>2 DEF OnMessage, OnSubscribe
    <2>2. <<Touch("db")>> \in Seq(Q) /\ Subscribe \in Seq(Q)
        <3>1. /\ <<Touch("db")>> \in Seq(Q) /\ <<Change("gossip", "fill")>> \in Seq(Q)
              /\ <<Touch("gossip"), Peek("ipfs"), Spawning>> \in Seq(Q)
            BY <1>1
        <3> QED
            BY <3>1 DEF Subscribe, LookForPeers, Spawning
    <2>3. <<Change("ipfs", "join")>> \o rest \in Quiet
        <3>1. <<Change("ipfs", "join")>> \in Seq(Q) /\ rest \in Seq(Q)
            <4>1. rest \in Seq(Q)
                BY <2>2
            <4> QED
                BY <1>1, <4>1
        <3> QED
            BY <3>1 DEF Quiet, Q
    <2> QED
        BY <2>1, <2>3 DEF Owes
<1>3. ASSUME m = "unsubscribe"
      PROVE  Owes(list, t)
    <2> DEFINE a == Change("ipfs", "leave")
               b == Change("gossip", "empty")
               c == Answer(t)
    <2>1. list = <<a, b, c>>
        BY <1>3 DEF OnMessage, OnUnsubscribe
    <2>2. a \in Q /\ b \in Q
        BY <1>1
    <2> HIDE DEF a, b, c
    <2>3. <<a, b>> \in Seq(Q) /\ <<a, b, c>> = <<a, b>> \o <<c>>
        BY <2>2
    <2> QED
        BY <2>1, <2>3 DEF Owes, Quiet, Q, c
<1>4. ASSUME m = "pinning"
      PROVE  Owes(list, t)
    <2> DEFINE a == Look("ipfs", "pinning")
               c == Answer(t)
    <2>1. list = <<a, c>>
        BY <1>4 DEF OnMessage, OnChangePinningServer
    <2>2. a \in Q /\ a \in Instruction /\ c \in Instruction
        BY <1>1, QuietFacts, InstructionFacts DEF Q
    <2> HIDE DEF a, c
    <2>3. <<a>> \in Seq(Q)
        BY <2>2
    <2>4. <<a, c>> = <<a>> \o <<c>>
        <3> DEFINE x == <<a, c>>
                   y == <<a>> \o <<c>>
        <3>1. /\ x \in Seq(Instruction) /\ y \in Seq(Instruction) /\ Len(x) = 2 /\ Len(y) = 2
              /\ x[1] = y[1] /\ x[2] = y[2]
            BY <2>2
        <3> HIDE DEF x, y
        <3>2. x = y
            BY <3>1, SameLists
        <3> QED
            BY <3>2 DEF x, y
    <2> QED
        BY <2>1, <2>3, <2>4 DEF Owes, Quiet, Q, c
<1>5. ASSUME m \in {"flag", "gossip", "sync"}
      PROVE  list \in Quiet
    <2>1. list = <<Touch("ipfs")>> \/ list = <<Peek("gossip")>>
        BY <1>5 DEF OnMessage, PublishMsg
    <2>2. <<Touch("ipfs")>> \in Seq(Q) /\ <<Peek("gossip")>> \in Seq(Q)
        BY <1>1
    <2> QED
        BY <2>1, <2>2 DEF Quiet, Q
<1>6. ASSUME m = "info"
      PROVE  InfoFree(list)
    <2>1. list = <<Peek("ipfs"), Read("gossip", "next"), Peek("ipfs"), Drop("gossip")>>
        BY <1>6 DEF OnMessage, OnDBInfo
    <2>2. list \in Program
        BY <2>1, LoopInstructions DEF Program
    <2>3. list \o Done
            = Then(Peek("ipfs"), Then(Read("gossip", "next"), Then(Peek("ipfs"), EndPass)))
        BY <2>1, Cat4, LoopInstructions, LoopPrograms DEF EndPass
    <2> QED
        BY <2>2, <2>3, CatFacts DEF InfoFree, Done
<1> QED
    BY <1>2, <1>3, <1>4, <1>5, <1>6

LEMMA EventStarts ==
    ASSUME NEW e \in Events
    PROVE  /\ e \in {"Newcomer", "Graft"} => Growing(OnEvent(e))
           /\ e = "Config" => ConfigFree(OnEvent(e))
           /\ e \notin {"Newcomer", "Graft", "Config"} => OnEvent(e) \in Quiet
<1>0. \A a \in Instruction : <<a>> = Then(a, Done)
    <2> TAKE a \in Instruction
    <2>1. <<a>> \in Program
        BY DEF Program
    <2> QED
        BY <2>1, CatFacts DEF Then, Done
<1>1. ASSUME e \in {"Newcomer", "Graft"}
      PROVE  Growing(OnEvent(e))
    <2>1. OnEvent(e) = <<Look("db", "newcomer")>> \/ OnEvent(e) = <<Change("gossip", "graft")>>
        BY <1>1 DEF OnEvent, OnTopicEvent, OnRequest, TopicEvents
    <2> QED
        BY <2>1, <1>0, LoopInstructions DEF Growing
<1>2. ASSUME e = "Config"
      PROVE  ConfigFree(OnEvent(e))
    <2>1. OnEvent(e) = <<Write("ipfs", "next"), Peek("gossip"), Drop("ipfs")>>
        BY <1>2 DEF OnEvent, OnTopicEvent, TopicEvents
    <2>2. OnEvent(e) \in Program
        BY <2>1, LoopInstructions DEF Program
    <2>3. OnEvent(e) \o Done = Then(Write("ipfs", "next"), Then(Peek("gossip"), EndConfig))
        BY <2>1, Cat3, LoopInstructions, LoopPrograms DEF EndConfig
    <2> QED
        BY <2>2, <2>3, CatFacts DEF ConfigFree, Done
<1>3. ASSUME e \notin {"Newcomer", "Graft", "Config"}
      PROVE  OnEvent(e) \in Quiet
    <2> DEFINE Q == QuietInstruction
    <2>1. /\ Look("db", "data") \in Q /\ Look("db", "leaver") \in Q
          /\ Look("ipfs", "yield") \in Q /\ Touch("ipfs") \in Q /\ Touch("db") \in Q
          /\ Peek("gossip") \in Q
        BY QuietFacts DEF Locks, QuietEffects, QuietWays
    <2>2. e \in {"Data", "Leaver", "Prune", "IGiveData", "IGiveConfig", "Sync"}
        BY <1>3, WorkAssumption
    <2>3. OnEvent(e) \in {<<Look("db", "data")>>, <<Look("db", "leaver")>>, <<Peek("gossip")>>,
                          <<Touch("ipfs")>> \o MergeData, <<Touch("ipfs")>>,
                          <<Look("ipfs", "yield"), Touch("ipfs")>>}
        BY <2>2 DEF OnEvent, OnTopicEvent, OnRequest, TopicEvents
    <2> HIDE DEF Q
    <2>4. <<Touch("ipfs")>> \o MergeData \in Seq(Q)
        BY <2>1 DEF MergeData
    <2>5. /\ <<Look("db", "data")>> \in Seq(Q) /\ <<Look("db", "leaver")>> \in Seq(Q)
          /\ <<Peek("gossip")>> \in Seq(Q) /\ <<Touch("ipfs")>> \in Seq(Q)
          /\ <<Look("ipfs", "yield"), Touch("ipfs")>> \in Seq(Q)
        BY <2>1
    <2> QED
        BY <2>3, <2>4, <2>5 DEF Quiet, Q
<1> QED
    BY <1>1, <1>2, <1>3


-----------------------------------------------------------------------------
(* All these lists are programs                                               *)

Nodes == [joined : BOOLEAN, tasks : SUBSET {"beat", "sync"}, mesh : 0 .. MaxMesh \cup {None}]

LEMMA QuietPrograms == Quiet \subseteq Program
BY QuietFacts DEF Quiet, Program

LEMMA ContinuationPrograms ==
    ASSUME node \in Nodes, NEW b \in Ways, NEW list \in Continuations(b)
    PROVE  list \in Program
<1>0. Panic \in Program /\ Spin \in Program
    <2>1. Panic = <<Ending>> /\ Spin = <<Spinning>>
        BY DEF Panic, Spin, Ending, Spinning
    <2>2. Ending \in Instruction /\ Spinning \in Instruction
        BY InstructionFacts
    <2> QED
        BY <2>1, <2>2 DEF Program
<1>1. CASE b \in QuietWays
    BY <1>1, QuietContinuations, QuietPrograms
<1>2. <<>> \in Program
    BY DEF Program
<1>3. CASE b \in {"subscribed", "alone", "turn"}
    <2>1. SyncBody \in Program
        BY SyncInstructions DEF SyncBody, Program
    <2>2. Panic \in Program
        BY <1>0
    <2>3. UpdateDataImage \in Program /\ <<Touch("ipfs")>> \in Program /\ <<Drop("gossip")>> \in Program
        BY SyncInstructions DEF UpdateDataImage, Program
    <2>4. SyncAlone \in Program
        BY <2>3 DEF SyncAlone, Program
    <2>5. SyncOthers \in Program
        BY SyncInstructions DEF SyncOthers, Program
    <2>6. /\ <<Drop("ipfs")>> \in Program
          /\ <<Write("ipfs", "peers"), Drop("ipfs"), Drop("gossip")>> \in Program
        BY SyncInstructions DEF Program
    <2>7. SyncHolder \in Program
        BY <2>3, <2>6 DEF SyncHolder, Program
    <2>8. SyncMonitor \in Program
        BY SyncInstructions DEF SyncMonitor, Program
    <2>9. list \in {SyncBody, Panic, SyncAlone, SyncOthers, SyncHolder, SyncMonitor}
        BY <1>3 DEF Continuations
    <2> QED
        BY <2>1, <2>2, <2>4, <2>5, <2>7, <2>8, <2>9
<1>4. CASE b \in {"peers", "modified", "entries", "seize"}
    <2>1. <<Send("sync")>> \in Program /\ <<Look("db", "entries"), Touch("ipfs")>> \in Program
        BY SyncInstructions DEF Program
    <2>2. NewImage \in Program
        BY SyncInstructions DEF NewImage, Program
    <2>3. SameImage \in Program
        BY SyncInstructions DEF SameImage, Program
    <2>4. TakeOver \in Program
        BY SyncInstructions DEF TakeOver, Program
    <2>5. list \in {<<>>, <<Send("sync")>>, <<Look("db", "entries"), Touch("ipfs")>>, NewImage,
                    SameImage, TakeOver}
        BY <1>4 DEF Continuations
    <2> QED
        BY <1>2, <2>1, <2>2, <2>3, <2>4, <2>5
<1>5. CASE b \in {"graft", "none left", "below zero", "prune"}
    <2>1. Write("gossip", "next") \in Instruction /\ Drop("gossip") \in Instruction
        BY InstructionFacts DEF Locks, Ways
    <2>2. Graft \in Program
        BY <2>1 DEF Graft, Program
    <2>3. Panic \in Program /\ Spin \in Program
        BY <1>0
    <2>4. list \in {<<>>, Graft, Panic, Spin}
        BY <1>5 DEF Continuations
    <2> QED
        BY <1>2, <2>2, <2>3, <2>4
<1>6. CASE b = "mesh"
    <2>1. list = IF node.mesh = None THEN <<>> ELSE Beat(Reckoning)
        BY <1>6 DEF Continuations
    <2>2. CASE node.mesh = None
        BY <1>2, <2>1, <2>2
    <2>3. CASE node.mesh # None
        <3>1. node.mesh \in Nat
            BY <2>3 DEF Nodes
        <3>2. Reckoning \in Reckonings
            BY <3>1, ReckoningsKnown
        <3>3. Read("gossip", Reckoning) \in Instruction /\ Drop("gossip") \in Instruction
            BY <3>2, InstructionFacts DEF Reckonings, Ways, Locks
        <3> QED
            BY <2>1, <2>3, <3>3 DEF Beat, Program
    <2> QED
        BY <2>2, <2>3
<1>7. CASE b = "newcomer"
    <2>1. /\ Touch("gossip") \in Instruction /\ Peek("ipfs") \in Instruction
          /\ Change("gossip", "newcomer") \in Instruction
        BY InstructionFacts DEF Locks, Effects
    <2>2. /\ <<Touch("gossip")>> \in Program
          /\ <<Peek("ipfs"), Change("gossip", "newcomer")>> \in Program
        BY <2>1 DEF Program
    <2>3. list \in {<<Touch("gossip")>>, <<Peek("ipfs"), Change("gossip", "newcomer")>>}
        BY <1>7 DEF Continuations
    <2> QED
        BY <2>2, <2>3
<1> QED
    BY <1>1, <1>3, <1>4, <1>5, <1>6, <1>7 DEF Ways, QuietWays

LEMMA ClientListPrograms == ASSUME NEW s, ClientList(s) PROVE s \in Program
<1>1. \A i \in {Peek("db"), Send("info"), Touch("ipfs"), Look("ipfs", "seize")} :
          Then(i, Done) \in Program
    BY ThenFacts, ClientInstructions, ClientPrograms
<1>2. /\ Then(Touch("db"), Then(Send("flag"), Then(Send("gossip"), Done))) \in Program
      /\ Then(Touch("db"), Then(Send("unsubscribe"), Then(Await, Done))) \in Program
      /\ Then(Send("pinning"), Then(Await, Done)) \in Program
    BY ThenFacts, ClientInstructions, ClientPrograms
<1>3. Then(Touch("db"), Then(Send("subscribe"), Then(Await, Then(Touch("db"), Done)))) \in Program
    BY ThenFacts, ClientInstructions, ClientPrograms
<1>4. Awaiting(s) => s \in Program
    BY ClientPrograms DEF Awaiting
<1> QED
    BY <1>1, <1>2, <1>3, <1>4, ClientPrograms DEF ClientList

LEMMA LoopListPrograms ==
    ASSUME NEW s
    PROVE  /\ s \in Quiet => s \in Program
           /\ \A c \in Tasks : Owes(s, c) => s \in Program
           /\ Growing(s) => s \in Program
           /\ InfoFree(s) => s \in Program
           /\ ConfigFree(s) => s \in Program
<1>1. ASSUME NEW c \in Tasks, Owes(s, c)
      PROVE  s \in Program
    <2>1. PICK w \in Quiet : s = w \o <<Answer(c)>>
        BY <1>1 DEF Owes
    <2>2. w \in Program /\ <<Answer(c)>> \in Program
        BY QuietPrograms, InstructionFacts DEF Program
    <2> QED
        BY <2>1, <2>2 DEF Program
<1>2. Growing(s) => s \in Program
    BY ThenFacts, LoopInstructions, LoopPrograms DEF Growing
<1>3. InfoFree(s) => s \in Program
    BY ThenFacts, LoopInstructions, LoopPrograms DEF InfoFree
<1>4. ConfigFree(s) => s \in Program
    BY ThenFacts, LoopInstructions, LoopPrograms DEF ConfigFree
<1> QED
    BY <1>1, <1>2, <1>3, <1>4, QuietPrograms


-----------------------------------------------------------------------------
(* The inductive invariant: which locks each task has in its hands, at each   *)
(* of the lists it may have left                                              *)

Types ==
    /\ todo \in [Tasks -> Program]
    /\ readers \in [Locks -> SUBSET Tasks]
    /\ writer \in [Locks -> Tasks \cup {None}]
    /\ node \in Nodes

\* Task t has to wait for readers of l and keeps new ones out.
Claims(t, l) == l # "ipfs" /\ At(t, {"touch", "write"}) /\ Current(t).lock = l

\* Task t holds the locks of R for reading and those of W for writing.
Holds(t, R, W) ==
    \A l \in Locks :
       /\ t \in readers[l] <=> l \in R
       /\ l \in W => writer[l] = t
       /\ writer[l] = t => l \in W \/ Claims(t, l)

SyncInv ==
    \/ SyncFree(todo["sync"])  /\ Holds("sync", {}, {})
    \/ SyncMesh(todo["sync"])  /\ Holds("sync", {"gossip"}, {})
    \/ SyncTable(todo["sync"]) /\ Holds("sync", {"gossip", "db"}, {})
    \/ SyncBoth(todo["sync"])  /\ Holds("sync", {"gossip"}, {"ipfs"})

BeatInv ==
    \/ BeatFree(todo["beat"]) /\ Holds("beat", {}, {})
    \/ BeatMesh(todo["beat"]) /\ Holds("beat", {"gossip"}, {})

ClientInv(c) == ClientList(todo[c]) /\ Holds(c, {}, {})

\* One more mesh peer is within the bound.
Room == node.mesh = None \/ node.mesh < MaxMesh

LoopFree ==
    \/ todo["loop"] \in Quiet
    \/ \E c \in Clients : Owes(todo["loop"], c) /\ Awaiting(todo[c])
    \/ Growing(todo["loop"]) /\ Room
    \/ InfoFree(todo["loop"])
    \/ ConfigFree(todo["loop"])

LoopInv ==
    \/ LoopFree                 /\ Holds("loop", {}, {})
    \/ InfoMesh(todo["loop"])   /\ Holds("loop", {"gossip"}, {})
    \/ ConfigIpfs(todo["loop"]) /\ Holds("loop", {}, {"ipfs"})

Inv == Types /\ SyncInv /\ BeatInv /\ LoopInv /\ \A c \in Clients : ClientInv(c)

-----------------------------------------------------------------------------
(* What a step does to the task that takes it                                 *)

LEMMA AllGoOn ==
    ASSUME Types, NEW t \in Tasks, todo[t] # <<>>
    PROVE  /\ Current(t) \in Instruction /\ Tail(todo[t]) \in Program
           /\ \E u : Goes(todo[t], Current(t).op, Current(t).lock, Current(t).arg, u)
<1>1. Current(t) \in Instruction /\ Tail(todo[t]) \in Program
    BY DEF Types, Current, Program
<1>2. Current(t).then \in Ways
    BY <1>1 DEF Instruction
<1>3. \A b \in Ways : Continuations(b) # {}
    BY DEF Ways, Continuations
<1>4. PICK list : list \in Continuations(Current(t).then)
    BY <1>2, <1>3
<1>5. Goes(todo[t], Current(t).op, Current(t).lock, Current(t).arg, list \o Tail(todo[t]))
    BY <1>4 DEF Goes, After, Current
<1> QED
    BY <1>1, <1>5

\* The task goes on as todo'[t] says, and changes the node as its instruction says.
Proceeds(t, op) ==
    /\ Goes(todo[t], op, Current(t).lock, Current(t).arg, todo'[t])
    /\ node' \in Changed(Current(t).arg)

Peeks(t, R, W) == Proceeds(t, "peek") /\ Holds(t, R, W)'

Reads(t, R, W) ==
    \E k \in Locks : k = Current(t).lock /\ Proceeds(t, "read") /\ Holds(t, R \cup {k}, W)'

Touches(t, R, W) ==
    Proceeds(t, "touch") /\ (Current(t).lock \notin W => Holds(t, R, W)')

Writes(t, R, W) ==
    \E k \in Locks :
       k = Current(t).lock /\ k \notin R /\ Proceeds(t, "write") /\ Holds(t, R, W \cup {k})'

Drops(t, R, W) ==
    \E k \in Locks :
       /\ k = Current(t).lock /\ Goes(todo[t], "drop", k, Current(t).arg, todo'[t])
       /\ node' = node /\ Holds(t, R \ {k}, W \ {k})'

Waits(t, R, W) == todo' = todo /\ node' = node /\ Holds(t, R, W)'

Ends(t, R, W) ==
    /\ \E k, e, u : Goes(todo[t], "end", k, e, u)
    /\ todo'[t] = <<>> /\ node' = [node EXCEPT !.tasks = @ \ {t}] /\ Holds(t, {}, W)'

Moved(t, R, W) ==
    \/ Peeks(t, R, W) \/ Reads(t, R, W) \/ Touches(t, R, W) \/ Writes(t, R, W)
    \/ Drops(t, R, W) \/ Waits(t, R, W) \/ Ends(t, R, W)

LEMMA MovesGo ==
    ASSUME NEW t, NEW R, NEW W
    PROVE  /\ Peeks(t, R, W)   => \E k, e, u : Goes(todo[t], "peek", k, e, u)
           /\ Reads(t, R, W)   => \E k, e, u : Goes(todo[t], "read", k, e, u)
           /\ Touches(t, R, W) => \E k, e, u : Goes(todo[t], "touch", k, e, u)
           /\ Writes(t, R, W)  => \E k, e, u : Goes(todo[t], "write", k, e, u)
           /\ Drops(t, R, W)   => \E k, e, u : Goes(todo[t], "drop", k, e, u)
           /\ Ends(t, R, W)    => \E k, e, u : Goes(todo[t], "end", k, e, u)
<1>1. ASSUME NEW op, Proceeds(t, op)
      PROVE  \E k, e, u : Goes(todo[t], op, k, e, u)
    BY <1>1 DEF Proceeds
<1> QED
    BY <1>1, Zenon DEF Peeks, Reads, Touches, Writes, Drops, Ends

LEMMA GoingOn ==
    ASSUME Types, NEW t \in Tasks, todo[t] # <<>>, GoOn(t)
    PROVE  /\ Goes(todo[t], Current(t).op, Current(t).lock, Current(t).arg, todo'[t])
           /\ todo' \in [Tasks -> Program]
           /\ \A t1 \in Tasks \ {t} : todo'[t1] = todo[t1]
<1>1. PICK list \in Continuations(Current(t).then) :
         todo' = [todo EXCEPT ![t] = list \o Tail(@)]
    BY DEF GoOn
<1>2. Current(t) \in Instruction /\ Tail(todo[t]) \in Program
    BY AllGoOn
<1>3. Current(t).then \in Ways
    BY <1>2 DEF Instruction
<1>4. list \in Program
    BY <1>1, <1>3, ContinuationPrograms DEF Types
<1>5. todo'[t] = list \o Tail(todo[t]) /\ \A t1 \in Tasks \ {t} : todo'[t1] = todo[t1]
    BY <1>1 DEF Types
<1>6. list \o Tail(todo[t]) \in Program
    BY <1>2, <1>4, CatFacts
<1>7. todo' \in [Tasks -> Program]
    BY <1>1, <1>6 DEF Types
<1>8. Goes(todo[t], Current(t).op, Current(t).lock, Current(t).arg, todo'[t])
    BY <1>1, <1>5 DEF Goes, After, Current
<1> QED
    BY <1>5, <1>7, <1>8


\* A step leaves task t, and what it has in its hands, alone.
Untouched(t) ==
    /\ todo'[t] = todo[t]
    /\ \A l \in Locks : (t \in readers'[l] <=> t \in readers[l])
                        /\ (writer'[l] = t <=> writer[l] = t)

LEMMA UntouchedHolds ==
    ASSUME NEW t \in Tasks, NEW R, NEW W, Untouched(t), Holds(t, R, W)
    PROVE  Holds(t, R, W)'
BY DEF Untouched, Holds, Claims, At, Current

\* The shape of the state after a step, but for the node.
Shape == /\ todo \in [Tasks -> Program]
         /\ readers \in [Locks -> SUBSET Tasks]
         /\ writer \in [Locks -> Tasks \cup {None}]

\* What the step of a task t is to show.
StepOf(t, R, W) == Moved(t, R, W) /\ Shape' /\ \A t1 \in Tasks \ {t} : Untouched(t1)

LEMMA OnLocks ==
    ASSUME Types, NEW t \in Tasks, At(t, Handles)
    PROVE  Current(t).lock \in Locks /\ todo[t] # <<>>
<1>1. todo[t] # <<>>
    BY DEF At
<1>2. Current(t) \in Instruction
    BY <1>1, AllGoOn
<1> QED
    BY <1>1, <1>2 DEF At, Instruction

LEMMA TakeReadMoves ==
    ASSUME Types, NEW t \in Tasks, NEW R, NEW W, Holds(t, R, W), TakeRead(t)
    PROVE  StepOf(t, R, W)
<1>0. PICK l \in Locks : l = Current(t).lock
    BY OnLocks DEF TakeRead, At, Handles
<1>1. /\ At(t, {"peek", "read"}) /\ writer[l] = None /\ node' \in Changed(Current(t).arg)
      /\ GoOn(t) /\ writer' = writer
      /\ readers' = [readers EXCEPT ![l] = @ \cup (IF Current(t).op = "read" THEN {t} ELSE {})]
    BY <1>0 DEF TakeRead
<1>2. l \in Locks /\ todo[t] # <<>>
    BY <1>0, <1>1, OnLocks DEF At, Handles
<1>3. /\ Goes(todo[t], Current(t).op, l, Current(t).arg, todo'[t])
      /\ todo' \in [Tasks -> Program] /\ \A t1 \in Tasks \ {t} : todo'[t1] = todo[t1]
    BY <1>0, <1>1, <1>2, GoingOn
<1>4. \A m \in Locks : writer[m] = t => m \in W
    BY <1>0, <1>1 DEF Holds, Claims, At
<1>5. CASE Current(t).op = "peek"
    <2>1. readers' = readers
        BY <1>1, <1>2, <1>5 DEF Types
    <2>2. Holds(t, R, W)'
        BY <1>1, <1>4, <2>1 DEF Holds
    <2>3. Moved(t, R, W)
        BY <1>0, <1>1, <1>3, <1>5, <2>2 DEF Moved, Peeks, Proceeds
    <2>4. Shape' /\ \A t1 \in Tasks \ {t} : Untouched(t1)
        BY <1>1, <1>3, <2>1 DEF Types, Shape, Untouched
    <2> QED
        BY <2>3, <2>4 DEF StepOf
<1>6. CASE Current(t).op = "read"
    <2>1. readers' = [readers EXCEPT ![l] = @ \cup {t}]
        BY <1>1, <1>6
    <2>2. Holds(t, R \cup {l}, W)'
        BY <1>1, <1>2, <1>4, <2>1 DEF Holds, Types
    <2>3. Moved(t, R, W)
        BY <1>0, <1>1, <1>3, <1>6, <2>2 DEF Moved, Reads, Proceeds
    <2>4. Shape' /\ \A t1 \in Tasks \ {t} : Untouched(t1)
        BY <1>1, <1>2, <1>3, <2>1 DEF Types, Shape, Untouched
    <2> QED
        BY <2>3, <2>4 DEF StepOf
<1> QED
    BY <1>1, <1>5, <1>6 DEF At

LEMMA ClaimWriteMoves ==
    ASSUME Types, readers["ipfs"] = {}, NEW t \in Tasks, NEW R, NEW W, Holds(t, R, W),
           ClaimWrite(t)
    PROVE  StepOf(t, R, W)
<1>0. PICK l \in Locks : l = Current(t).lock
    BY OnLocks DEF ClaimWrite, At, Handles
<1>1. /\ At(t, {"touch", "write"}) /\ writer[l] = None /\ readers[l] # {}
      /\ writer' = [writer EXCEPT ![l] = t]
      /\ todo' = todo /\ readers' = readers /\ node' = node
    BY <1>0 DEF ClaimWrite
<1>2. l \in Locks /\ l # "ipfs"
    BY <1>0, <1>1, OnLocks DEF At, Handles
<1>3. Claims(t, l)'
    BY <1>0, <1>1, <1>2 DEF Claims, At, Current
<1>4. Holds(t, R, W)'
    <2> SUFFICES ASSUME NEW m \in Locks
                 PROVE  /\ t \in readers'[m] <=> m \in R
                        /\ m \in W => writer'[m] = t
                        /\ writer'[m] = t => m \in W \/ Claims(t, m)'
        BY DEF Holds
    <2>1. CASE m = l
        BY <1>1, <1>2, <1>3, <2>1 DEF Holds, Types
    <2>2. CASE m # l
        <3>1. writer'[m] = writer[m]
            BY <1>1, <2>2 DEF Types
        <3>2. Claims(t, m) => Claims(t, m)'
            BY <1>1 DEF Claims, At, Current
        <3> QED
            BY <1>1, <3>1, <3>2 DEF Holds
    <2> QED
        BY <2>1, <2>2
<1>5. Moved(t, R, W)
    BY <1>0, <1>1, <1>4 DEF Moved, Waits
<1>6. \A t1 \in Tasks \ {t} : Untouched(t1)
    BY <1>1, <1>2, TasksAssumption DEF Untouched, Types
<1>7. Shape'
    BY <1>1, <1>2 DEF Types, Shape
<1> QED
    BY <1>5, <1>6, <1>7 DEF StepOf

LEMMA TakeWriteMoves ==
    ASSUME Types, NEW t \in Tasks, NEW R, NEW W, Holds(t, R, W), TakeWrite(t)
    PROVE  StepOf(t, R, W)
<1>0. PICK l \in Locks : l = Current(t).lock
    BY OnLocks DEF TakeWrite, At, Handles
<1>1. /\ At(t, {"touch", "write"}) /\ writer[l] \in {None, t} /\ readers[l] = {}
      /\ writer' = [writer EXCEPT ![l] = IF Current(t).op = "write" THEN t ELSE None]
      /\ node' \in Changed(Current(t).arg) /\ GoOn(t) /\ readers' = readers
    BY <1>0 DEF TakeWrite
<1>2. l \in Locks /\ todo[t] # <<>>
    BY <1>0, <1>1, OnLocks DEF At, Handles
<1>3. /\ Goes(todo[t], Current(t).op, l, Current(t).arg, todo'[t])
      /\ todo' \in [Tasks -> Program] /\ \A t1 \in Tasks \ {t} : todo'[t1] = todo[t1]
    BY <1>0, <1>1, <1>2, GoingOn
<1>4. \A m \in Locks : m # l => (writer'[m] = writer[m] /\ (writer[m] = t => m \in W))
    BY <1>0, <1>1 DEF Holds, Claims, Types
<1>5. l \notin R /\ t # None
    BY <1>1, <1>2, TasksAssumption DEF Holds
<1>6. \A t1 \in Tasks \ {t} : Untouched(t1)
    BY <1>1, <1>2, <1>3, TasksAssumption DEF Untouched, Types
<1>7. Shape'
    BY <1>1, <1>2, <1>3 DEF Types, Shape
<1>8. CASE Current(t).op = "touch"
    <2>1. writer'[l] = None
        BY <1>1, <1>2, <1>8 DEF Types
    <2>2. l \notin W => Holds(t, R, W)'
        BY <1>1, <1>4, <1>5, <2>1 DEF Holds
    <2>3. Moved(t, R, W)
        BY <1>0, <1>1, <1>3, <1>5, <1>8, <2>2 DEF Moved, Touches, Proceeds
    <2> QED
        BY <1>6, <1>7, <2>3 DEF StepOf
<1>9. CASE Current(t).op = "write"
    <2>1. writer'[l] = t
        BY <1>1, <1>2, <1>9 DEF Types
    <2>2. Holds(t, R, W \cup {l})'
        BY <1>1, <1>4, <1>5, <2>1 DEF Holds
    <2>3. Moved(t, R, W)
        BY <1>0, <1>1, <1>3, <1>5, <1>9, <2>2 DEF Moved, Writes, Proceeds
    <2> QED
        BY <1>6, <1>7, <2>3 DEF StepOf
<1> QED
    BY <1>1, <1>8, <1>9 DEF At

LEMMA LetGoMoves ==
    ASSUME Types, NEW t \in Tasks, NEW R, NEW W, Holds(t, R, W), LetGo(t)
    PROVE  StepOf(t, R, W)
<1>0. PICK l \in Locks : l = Current(t).lock
    BY OnLocks DEF LetGo, At, Handles
<1>1. /\ At(t, {"drop"}) /\ readers' = [readers EXCEPT ![l] = @ \ {t}]
      /\ writer' = [writer EXCEPT ![l] = IF @ = t THEN None ELSE @]
      /\ GoOn(t) /\ node' = node
    BY <1>0 DEF LetGo
<1>2. l \in Locks /\ todo[t] # <<>>
    BY <1>0, <1>1, OnLocks DEF At, Handles
<1>3. /\ Goes(todo[t], "drop", l, Current(t).arg, todo'[t])
      /\ todo' \in [Tasks -> Program] /\ \A t1 \in Tasks \ {t} : todo'[t1] = todo[t1]
    BY <1>0, <1>1, <1>2, GoingOn DEF At
<1>4. \A m \in Locks : writer[m] = t => m \in W
    BY <1>0, <1>1 DEF Holds, Claims, At
<1>5. t # None
    BY TasksAssumption
<1>6. /\ t \notin readers'[l] /\ writer'[l] # t
      /\ \A m \in Locks \ {l} : readers'[m] = readers[m] /\ writer'[m] = writer[m]
    BY <1>1, <1>2, <1>5 DEF Types
<1>7. Holds(t, R \ {l}, W \ {l})'
    BY <1>4, <1>6 DEF Holds
<1>8. Moved(t, R, W)
    BY <1>0, <1>1, <1>3, <1>7 DEF Moved, Drops
<1>9. \A t1 \in Tasks \ {t} : Untouched(t1)
    BY <1>1, <1>2, <1>3, TasksAssumption DEF Untouched, Types
<1>10. Shape'
    BY <1>1, <1>2, <1>3 DEF Types, Shape
<1> QED
    BY <1>8, <1>9, <1>10 DEF StepOf

LEMMA EndMoves ==
    ASSUME Types, NEW t \in Tasks, NEW R, NEW W, Holds(t, R, W), End(t)
    PROVE  StepOf(t, R, W)
<1>1. /\ At(t, {"end"}) /\ node' = [node EXCEPT !.tasks = @ \ {t}]
      /\ todo' = [todo EXCEPT ![t] = <<>>]
      /\ readers' = [l \in Locks |-> readers[l] \ {t}] /\ writer' = writer
    BY DEF End
<1>2. \E u : Goes(todo[t], "end", Current(t).lock, Current(t).arg, u)
    BY <1>1, AllGoOn DEF At
<1>3. \A m \in Locks : writer[m] = t => m \in W
    BY <1>1 DEF Holds, Claims, At
<1>4. Holds(t, {}, W)'
    BY <1>1, <1>3 DEF Holds
<1>5. todo'[t] = <<>>
    BY <1>1 DEF Types
<1>6. Moved(t, R, W)
    BY <1>1, <1>2, <1>4, <1>5 DEF Moved, Ends
<1>7. \A t1 \in Tasks \ {t} : Untouched(t1)
    BY <1>1 DEF Untouched, Types
<1>8. Shape'
    <2>1. <<>> \in Program
        BY DEF Program
    <2> QED
        BY <1>1, <2>1 DEF Types, Shape
<1> QED
    BY <1>6, <1>7, <1>8 DEF StepOf

\* All the steps of a task but the answer to a client.
Acts(t) == TakeRead(t) \/ ClaimWrite(t) \/ TakeWrite(t) \/ LetGo(t) \/ End(t)

LEMMA ActsMove ==
    ASSUME Types, readers["ipfs"] = {}, NEW t \in Tasks, NEW R, NEW W, Holds(t, R, W), Acts(t)
    PROVE  StepOf(t, R, W)
BY TakeReadMoves, ClaimWriteMoves, TakeWriteMoves, LetGoMoves, EndMoves DEF Acts


-----------------------------------------------------------------------------
(* The steps of each task keep the invariant                                  *)

LEMMA ChangedFacts ==
    ASSUME node \in Nodes, NEW e, NEW n \in Changed(e)
    PROVE  /\ e = "nothing" => n = node
           /\ e = "join" => n \in Nodes /\ n.mesh = node.mesh
           /\ e \in QuietEffects => n \in Nodes
           /\ e \in {"newcomer", "graft"} /\ Room => n \in Nodes
<1>1. /\ D \in Nat /\ D <= MaxMesh /\ MaxMesh \in Nat /\ MaxMesh > 0 /\ None \notin Nat
    BY DegreesAssumption, TasksAssumption
<1>2. e = "nothing" => n = node
    BY DEF Changed
<1>3. e = "join" => n \in Nodes /\ n.mesh = node.mesh
    BY DEF Changed, Nodes
<1>4. e \in {"leave", "empty", "leaver"} => n \in Nodes
    BY DEF Changed, Nodes
<1>5. ASSUME e = "spawn"
      PROVE  n \in Nodes
    <2>1. n = [node EXCEPT !.tasks = node.tasks \cup {"sync"}]
        BY <1>5 DEF Changed
    <2>2. node.tasks \cup {"sync"} \in SUBSET {"beat", "sync"}
        BY DEF Nodes
    <2> QED
        BY <2>1, <2>2 DEF Nodes
<1>6. e = "fill" => n \in Nodes
    BY <1>1 DEF Changed, Nodes
<1>7. e = "newcomer" /\ Room => n \in Nodes
    BY <1>1 DEF Changed, Nodes, Room
<1>8. ASSUME e = "graft", Room
      PROVE  n \in Nodes
    <2>1. n = node \/ n = Grafted
        BY <1>8 DEF Changed
    <2> QED
        BY <1>1, <1>8, <2>1 DEF Grafted, Nodes, Room
<1> QED
    BY <1>2, <1>3, <1>4, <1>5, <1>6, <1>7, <1>8 DEF QuietEffects

LEMMA NobodyReadsIpfs == Inv => readers["ipfs"] = {}
<1> SUFFICES ASSUME Inv
             PROVE  readers["ipfs"] = {}
    OBVIOUS
<1>0. "ipfs" \in Locks
    BY DEF Locks
<1>1. "sync" \notin readers["ipfs"]
    BY <1>0 DEF Inv, SyncInv, Holds
<1>2. "beat" \notin readers["ipfs"]
    BY <1>0 DEF Inv, BeatInv, Holds
<1>3. "loop" \notin readers["ipfs"]
    BY <1>0 DEF Inv, LoopInv, Holds
<1>4. \A c \in Clients : c \notin readers["ipfs"]
    BY <1>0 DEF Inv, ClientInv, Holds
<1> QED
    BY <1>0, <1>1, <1>2, <1>3, <1>4 DEF Inv, Types, Tasks

LEMMA SyncActs ==
    ASSUME Inv, Acts("sync")
    PROVE  /\ SyncInv' /\ Shape' /\ node' \in Nodes /\ node'.mesh = node.mesh
           /\ \A t \in Tasks \ {"sync"} : Untouched(t)
<1>0. "sync" \in Tasks /\ Types /\ readers["ipfs"] = {} /\ node \in Nodes
    BY NobodyReadsIpfs DEF Inv, Types, Tasks
<1> DEFINE s == todo["sync"]
           u == todo'["sync"]
           e == Current("sync").arg
           Kept == SyncInv' /\ node' \in Nodes /\ node'.mesh = node.mesh
           Goal == Kept /\ Shape' /\ \A t \in Tasks \ {"sync"} : Untouched(t)
<1>1. ASSUME SyncFree(s), Holds("sync", {}, {})
      PROVE  Goal
    <2>1. StepOf("sync", {}, {})
        BY <1>0, <1>1, ActsMove
    <2>2. ASSUME Peeks("sync", {}, {})
         PROVE  Kept
        <3>1. e = "nothing" /\ SyncFree(u)
            BY <1>1, <2>2, SyncFreeFlow DEF Peeks, Proceeds
        <3>2. node' = node
            BY <1>0, <2>2, <3>1, ChangedFacts DEF Peeks, Proceeds
        <3> QED
            BY <1>0, <2>2, <3>1, <3>2 DEF Peeks, SyncInv
    <2>3. ASSUME Reads("sync", {}, {})
         PROVE  Kept
        <3>1. PICK k \in Locks :
                 k = Current("sync").lock /\ Proceeds("sync", "read")
                 /\ Holds("sync", {} \cup {k}, {})'
            BY <2>3 DEF Reads
        <3>2. k = "gossip" /\ e = "nothing" /\ SyncMesh(u)
            BY <1>1, <3>1, SyncFreeFlow DEF Proceeds
        <3>3. node' = node
            BY <1>0, <3>1, <3>2, ChangedFacts DEF Proceeds
        <3>4. {} \cup {k} = {"gossip"}
            BY <3>2
        <3> QED
            BY <1>0, <3>1, <3>2, <3>3, <3>4 DEF SyncInv
    <2>4. ASSUME Waits("sync", {}, {})
         PROVE  Kept
        BY <1>0, <1>1, <2>4 DEF Waits, SyncInv
    <2>5. ASSUME Ends("sync", {}, {})
         PROVE  Kept
        <3>1. SyncFree(u)
            BY <2>5 DEF Ends, SyncFree, Done
        <3>2. node' \in Nodes /\ node'.mesh = node.mesh
            BY <1>0, <2>5 DEF Ends, Nodes
        <3> QED
            BY <2>5, <3>1, <3>2 DEF Ends, SyncInv
    <2>6. ~Touches("sync", {}, {})
        BY <1>1, SyncFreeFlow, MovesGo
    <2>7. ~Writes("sync", {}, {})
        BY <1>1, SyncFreeFlow, MovesGo
    <2>8. ~Drops("sync", {}, {})
        BY <1>1, SyncFreeFlow, MovesGo
    <2> QED
        BY <2>1, <2>2, <2>3, <2>4, <2>5, <2>6, <2>7, <2>8 DEF StepOf, Moved
<1>2. ASSUME SyncMesh(s), Holds("sync", {"gossip"}, {})
      PROVE  Goal
    <2>1. StepOf("sync", {"gossip"}, {})
        BY <1>0, <1>2, ActsMove
    <2>2. ASSUME Peeks("sync", {"gossip"}, {})
         PROVE  Kept
        <3>1. e = "nothing" /\ SyncMesh(u)
            BY <1>2, <2>2, SyncMeshFlow DEF Peeks, Proceeds
        <3>2. node' = node
            BY <1>0, <2>2, <3>1, ChangedFacts DEF Peeks, Proceeds
        <3> QED
            BY <1>0, <2>2, <3>1, <3>2 DEF Peeks, SyncInv
    <2>3. ASSUME Reads("sync", {"gossip"}, {})
         PROVE  Kept
        <3>1. PICK k \in Locks :
                 k = Current("sync").lock /\ Proceeds("sync", "read")
                 /\ Holds("sync", {"gossip"} \cup {k}, {})'
            BY <2>3 DEF Reads
        <3>2. k = "db" /\ e = "nothing" /\ SyncTable(u)
            BY <1>2, <3>1, SyncMeshFlow DEF Proceeds
        <3>3. node' = node
            BY <1>0, <3>1, <3>2, ChangedFacts DEF Proceeds
        <3>4. {"gossip"} \cup {k} = {"gossip", "db"}
            BY <3>2
        <3> QED
            BY <1>0, <3>1, <3>2, <3>3, <3>4 DEF SyncInv
    <2>4. ASSUME Touches("sync", {"gossip"}, {})
         PROVE  Kept
        <3>1. e = "nothing" /\ SyncMesh(u)
            BY <1>2, <2>4, SyncMeshFlow DEF Touches, Proceeds
        <3>2. node' = node
            BY <1>0, <2>4, <3>1, ChangedFacts DEF Touches, Proceeds
        <3> QED
            BY <1>0, <2>4, <3>1, <3>2 DEF Touches, SyncInv
    <2>5. ASSUME Writes("sync", {"gossip"}, {})
         PROVE  Kept
        <3>1. PICK k \in Locks :
                 k = Current("sync").lock /\ Proceeds("sync", "write")
                 /\ Holds("sync", {"gossip"}, {} \cup {k})'
            BY <2>5 DEF Writes
        <3>2. k = "ipfs" /\ e = "nothing" /\ SyncBoth(u)
            BY <1>2, <3>1, SyncMeshFlow DEF Proceeds
        <3>3. node' = node
            BY <1>0, <3>1, <3>2, ChangedFacts DEF Proceeds
        <3>4. {} \cup {k} = {"ipfs"}
            BY <3>2
        <3> QED
            BY <1>0, <3>1, <3>2, <3>3, <3>4 DEF SyncInv
    <2>6. ASSUME Drops("sync", {"gossip"}, {})
         PROVE  Kept
        <3>1. PICK k \in Locks :
                 Goes(s, "drop", k, e, u) /\ node' = node
                 /\ Holds("sync", {"gossip"} \ {k}, {} \ {k})'
            BY <2>6 DEF Drops
        <3>2. k = "gossip" /\ SyncFree(u)
            BY <1>2, <3>1, SyncMeshFlow DEF Proceeds
        <3>3. node' = node
            BY <3>1
        <3>4. {"gossip"} \ {k} = {} /\ {} \ {k} = {}
            BY <3>2
        <3> QED
            BY <1>0, <3>1, <3>2, <3>3, <3>4 DEF SyncInv
    <2>7. ASSUME Waits("sync", {"gossip"}, {})
         PROVE  Kept
        BY <1>0, <1>2, <2>7 DEF Waits, SyncInv
    <2>8. ~Ends("sync", {"gossip"}, {})
        BY <1>2, SyncMeshFlow, MovesGo
    <2> QED
        BY <2>1, <2>2, <2>3, <2>4, <2>5, <2>6, <2>7, <2>8 DEF StepOf, Moved
<1>3. ASSUME SyncTable(s), Holds("sync", {"gossip", "db"}, {})
      PROVE  Goal
    <2>1. StepOf("sync", {"gossip", "db"}, {})
        BY <1>0, <1>3, ActsMove
    <2>2. ASSUME Peeks("sync", {"gossip", "db"}, {})
         PROVE  Kept
        <3>1. e = "nothing" /\ SyncTable(u)
            BY <1>3, <2>2, SyncTableFlow DEF Peeks, Proceeds
        <3>2. node' = node
            BY <1>0, <2>2, <3>1, ChangedFacts DEF Peeks, Proceeds
        <3> QED
            BY <1>0, <2>2, <3>1, <3>2 DEF Peeks, SyncInv
    <2>3. ASSUME Touches("sync", {"gossip", "db"}, {})
         PROVE  Kept
        <3>1. e = "join" /\ SyncTable(u)
            BY <1>3, <2>3, SyncTableFlow DEF Touches, Proceeds
        <3>2. node' \in Nodes /\ node'.mesh = node.mesh
            BY <1>0, <2>3, <3>1, ChangedFacts DEF Touches, Proceeds
        <3> QED
            BY <1>0, <2>3, <3>1, <3>2 DEF Touches, SyncInv
    <2>4. ASSUME Drops("sync", {"gossip", "db"}, {})
         PROVE  Kept
        <3>1. PICK k \in Locks :
                 Goes(s, "drop", k, e, u) /\ node' = node
                 /\ Holds("sync", {"gossip", "db"} \ {k}, {} \ {k})'
            BY <2>4 DEF Drops
        <3>2. k = "db" /\ SyncMesh(u)
            BY <1>3, <3>1, SyncTableFlow DEF Proceeds
        <3>3. node' = node
            BY <3>1
        <3>4. {"gossip", "db"} \ {k} = {"gossip"} /\ {} \ {k} = {}
            BY <3>2
        <3> QED
            BY <1>0, <3>1, <3>2, <3>3, <3>4 DEF SyncInv
    <2>5. ASSUME Waits("sync", {"gossip", "db"}, {})
         PROVE  Kept
        BY <1>0, <1>3, <2>5 DEF Waits, SyncInv
    <2>6. ~Reads("sync", {"gossip", "db"}, {})
        BY <1>3, SyncTableFlow, MovesGo
    <2>7. ~Writes("sync", {"gossip", "db"}, {})
        BY <1>3, SyncTableFlow, MovesGo
    <2>8. ~Ends("sync", {"gossip", "db"}, {})
        BY <1>3, SyncTableFlow, MovesGo
    <2> QED
        BY <2>1, <2>2, <2>3, <2>4, <2>5, <2>6, <2>7, <2>8 DEF StepOf, Moved
<1>4. ASSUME SyncBoth(s), Holds("sync", {"gossip"}, {"ipfs"})
      PROVE  Goal
    <2>1. StepOf("sync", {"gossip"}, {"ipfs"})
        BY <1>0, <1>4, ActsMove
    <2>2. ASSUME Drops("sync", {"gossip"}, {"ipfs"})
         PROVE  Kept
        <3>1. PICK k \in Locks :
                 Goes(s, "drop", k, e, u) /\ node' = node
                 /\ Holds("sync", {"gossip"} \ {k}, {"ipfs"} \ {k})'
            BY <2>2 DEF Drops
        <3>2. k = "ipfs" /\ SyncMesh(u)
            BY <1>4, <3>1, SyncBothFlow DEF Proceeds
        <3>3. node' = node
            BY <3>1
        <3>4. {"gossip"} \ {k} = {"gossip"} /\ {"ipfs"} \ {k} = {}
            BY <3>2
        <3> QED
            BY <1>0, <3>1, <3>2, <3>3, <3>4 DEF SyncInv
    <2>3. ASSUME Waits("sync", {"gossip"}, {"ipfs"})
         PROVE  Kept
        BY <1>0, <1>4, <2>3 DEF Waits, SyncInv
    <2>4. ~Peeks("sync", {"gossip"}, {"ipfs"})
        BY <1>4, SyncBothFlow, MovesGo
    <2>5. ~Reads("sync", {"gossip"}, {"ipfs"})
        BY <1>4, SyncBothFlow, MovesGo
    <2>6. ~Touches("sync", {"gossip"}, {"ipfs"})
        BY <1>4, SyncBothFlow, MovesGo
    <2>7. ~Writes("sync", {"gossip"}, {"ipfs"})
        BY <1>4, SyncBothFlow, MovesGo
    <2>8. ~Ends("sync", {"gossip"}, {"ipfs"})
        BY <1>4, SyncBothFlow, MovesGo
    <2> QED
        BY <2>1, <2>2, <2>3, <2>4, <2>5, <2>6, <2>7, <2>8 DEF StepOf, Moved
<1> QED
    BY <1>1, <1>2, <1>3, <1>4 DEF Inv, SyncInv

LEMMA BeatActs ==
    ASSUME Inv, Acts("beat")
    PROVE  /\ BeatInv' /\ Shape' /\ node' \in Nodes /\ node'.mesh = node.mesh
           /\ \A t \in Tasks \ {"beat"} : Untouched(t)
<1>0. /\ "beat" \in Tasks /\ Types /\ readers["ipfs"] = {} /\ node \in Nodes
      /\ node.mesh \in Nat \cup {None}
    BY NobodyReadsIpfs DEF Inv, Types, Tasks, Nodes
<1> DEFINE s == todo["beat"]
           u == todo'["beat"]
           e == Current("beat").arg
           Kept == BeatInv' /\ node' \in Nodes /\ node'.mesh = node.mesh
           Goal == Kept /\ Shape' /\ \A t \in Tasks \ {"beat"} : Untouched(t)
<1>1. ASSUME BeatFree(s), Holds("beat", {}, {})
      PROVE  Goal
    <2>1. StepOf("beat", {}, {})
        BY <1>0, <1>1, ActsMove
    <2>2. ASSUME Peeks("beat", {}, {})
         PROVE  Kept
        <3>1. e = "nothing" /\ BeatFree(u)
            BY <1>0, <1>1, <2>2, BeatFreeFlow DEF Peeks, Proceeds
        <3>2. node' = node
            BY <1>0, <2>2, <3>1, ChangedFacts DEF Peeks, Proceeds
        <3> QED
            BY <1>0, <2>2, <3>1, <3>2 DEF Peeks, BeatInv
    <2>3. ASSUME Reads("beat", {}, {})
         PROVE  Kept
        <3>1. PICK k \in Locks :
                 k = Current("beat").lock /\ Proceeds("beat", "read")
                 /\ Holds("beat", {} \cup {k}, {})'
            BY <2>3 DEF Reads
        <3>2. k = "gossip" /\ e = "nothing" /\ BeatMesh(u)
            BY <1>0, <1>1, <3>1, BeatFreeFlow DEF Proceeds
        <3>3. node' = node
            BY <1>0, <3>1, <3>2, ChangedFacts DEF Proceeds
        <3>4. {} \cup {k} = {"gossip"}
            BY <3>2
        <3> QED
            BY <1>0, <3>1, <3>2, <3>3, <3>4 DEF BeatInv
    <2>4. ASSUME Waits("beat", {}, {})
         PROVE  Kept
        BY <1>0, <1>1, <2>4 DEF Waits, BeatInv
    <2>5. ~Touches("beat", {}, {})
        BY <1>0, <1>1, BeatFreeFlow, MovesGo
    <2>6. ~Writes("beat", {}, {})
        BY <1>0, <1>1, BeatFreeFlow, MovesGo
    <2>7. ~Drops("beat", {}, {})
        BY <1>0, <1>1, BeatFreeFlow, MovesGo
    <2>8. ~Ends("beat", {}, {})
        BY <1>0, <1>1, BeatFreeFlow, MovesGo
    <2> QED
        BY <2>1, <2>2, <2>3, <2>4, <2>5, <2>6, <2>7, <2>8 DEF StepOf, Moved
<1>2. ASSUME BeatMesh(s), Holds("beat", {"gossip"}, {})
      PROVE  Goal
    <2>1. StepOf("beat", {"gossip"}, {})
        BY <1>0, <1>2, ActsMove
    <2>2. ASSUME Drops("beat", {"gossip"}, {})
         PROVE  Kept
        <3>1. PICK k \in Locks :
                 Goes(s, "drop", k, e, u) /\ node' = node
                 /\ Holds("beat", {"gossip"} \ {k}, {} \ {k})'
            BY <2>2 DEF Drops
        <3>2. k = "gossip" /\ BeatFree(u)
            BY <1>2, <3>1, BeatMeshFlow DEF Proceeds
        <3>3. node' = node
            BY <3>1
        <3>4. {"gossip"} \ {k} = {} /\ {} \ {k} = {}
            BY <3>2
        <3> QED
            BY <1>0, <3>1, <3>2, <3>3, <3>4 DEF BeatInv
    <2>3. ASSUME Waits("beat", {"gossip"}, {})
         PROVE  Kept
        BY <1>0, <1>2, <2>3 DEF Waits, BeatInv
    <2>4. ASSUME Ends("beat", {"gossip"}, {})
         PROVE  Kept
        <3>1. BeatFree(u)
            BY <2>4 DEF Ends, BeatFree, Done
        <3>2. node' \in Nodes /\ node'.mesh = node.mesh
            BY <1>0, <2>4 DEF Ends, Nodes
        <3> QED
            BY <2>4, <3>1, <3>2 DEF Ends, BeatInv
    <2>5. ~Peeks("beat", {"gossip"}, {})
        BY <1>2, BeatMeshFlow, MovesGo
    <2>6. ~Reads("beat", {"gossip"}, {})
        BY <1>2, BeatMeshFlow, MovesGo
    <2>7. ~Touches("beat", {"gossip"}, {})
        BY <1>2, BeatMeshFlow, MovesGo
    <2>8. ~Writes("beat", {"gossip"}, {})
        <3> SUFFICES ASSUME NEW k \in Locks, k = Current("beat").lock, k \notin {"gossip"},
                            Proceeds("beat", "write")
                     PROVE  FALSE
            BY DEF Writes
        <3> QED
            BY <1>2, BeatMeshFlow DEF Proceeds
    <2> QED
        BY <2>1, <2>2, <2>3, <2>4, <2>5, <2>6, <2>7, <2>8 DEF StepOf, Moved
<1> QED
    BY <1>1, <1>2 DEF Inv, BeatInv

LEMMA ClientActs ==
    ASSUME Inv, NEW c \in Clients, Acts(c)
    PROVE  /\ ClientInv(c)' /\ Shape' /\ node' \in Nodes /\ node'.mesh = node.mesh
           /\ \A t \in Tasks \ {c} : Untouched(t)
<1>0. c \in Tasks /\ Types /\ readers["ipfs"] = {} /\ node \in Nodes
    BY NobodyReadsIpfs DEF Inv, Types, Tasks
<1> DEFINE s == todo[c]
           u == todo'[c]
           e == Current(c).arg
           Kept == ClientInv(c)' /\ node' \in Nodes /\ node'.mesh = node.mesh
           Goal == Kept /\ Shape' /\ \A t \in Tasks \ {c} : Untouched(t)
<1>1. ASSUME ClientList(s), Holds(c, {}, {})
      PROVE  Goal
    <2>1. StepOf(c, {}, {})
        BY <1>0, <1>1, ActsMove
    <2>2. ASSUME Peeks(c, {}, {})
         PROVE  Kept
        <3>1. e = "nothing" /\ ClientList(u)
            BY <1>1, <2>2, ClientFlow DEF Peeks, Proceeds
        <3>2. node' = node
            BY <1>0, <2>2, <3>1, ChangedFacts DEF Peeks, Proceeds
        <3> QED
            BY <1>0, <2>2, <3>1, <3>2 DEF Peeks, ClientInv
    <2>3. ASSUME Touches(c, {}, {})
         PROVE  Kept
        <3>1. e = "nothing" /\ ClientList(u)
            BY <1>1, <2>3, ClientFlow DEF Touches, Proceeds
        <3>2. node' = node
            BY <1>0, <2>3, <3>1, ChangedFacts DEF Touches, Proceeds
        <3> QED
            BY <1>0, <2>3, <3>1, <3>2 DEF Touches, ClientInv
    <2>4. ASSUME Waits(c, {}, {})
         PROVE  Kept
        BY <1>0, <1>1, <2>4 DEF Waits, ClientInv
    <2>5. ~Reads(c, {}, {})
        BY <1>1, ClientFlow, MovesGo
    <2>6. ~Writes(c, {}, {})
        BY <1>1, ClientFlow, MovesGo
    <2>7. ~Drops(c, {}, {})
        BY <1>1, ClientFlow, MovesGo
    <2>8. ~Ends(c, {}, {})
        BY <1>1, ClientFlow, MovesGo
    <2> QED
        BY <2>1, <2>2, <2>3, <2>4, <2>5, <2>6, <2>7, <2>8 DEF StepOf, Moved
<1> QED
    BY <1>1 DEF Inv, ClientInv

LEMMA LoopActs ==
    ASSUME Inv, Acts("loop")
    PROVE  /\ LoopInv' /\ Shape' /\ node' \in Nodes
           /\ \A t \in Tasks \ {"loop"} : Untouched(t)
<1>0. /\ "loop" \in Tasks /\ Types /\ readers["ipfs"] = {} /\ node \in Nodes
      /\ \A c \in Clients : c \in Tasks /\ c # "loop"
    BY NobodyReadsIpfs, TasksAssumption DEF Inv, Types, Tasks
<1> DEFINE s == todo["loop"]
           u == todo'["loop"]
           e == Current("loop").arg
           Others == \A t \in Tasks \ {"loop"} : Untouched(t)
           Goal == LoopInv' /\ Shape' /\ node' \in Nodes /\ Others
(* While it holds nothing.  A step leads to one that holds nothing, too, but  *)
(* where it takes the first lock.                                             *)
<1>1. ASSUME LoopFree, Holds("loop", {}, {})
      PROVE  Goal
    <2>1. StepOf("loop", {}, {})
        BY <1>0, <1>1, ActsMove
    <2>2. Shape' /\ Others
        BY <2>1 DEF StepOf
    <2>3. ASSUME LoopFree', node' \in Nodes, Holds("loop", {}, {})'
          PROVE  Goal
        BY <2>2, <2>3 DEF LoopInv
    <2>4. ASSUME Waits("loop", {}, {})
          PROVE  Goal
        <3>1. LoopFree'
            BY <1>1, <2>4 DEF Waits, LoopFree, Room
        <3> QED
            BY <1>0, <2>3, <2>4, <3>1 DEF Waits
    <2>5. ASSUME s \in Quiet
          PROVE  Goal
        <3>1. ASSUME Peeks("loop", {}, {}) \/ Touches("loop", {}, {})
              PROVE  Goal
            <4>1. node' \in Changed(e) /\ Holds("loop", {}, {})'
                BY <3>1 DEF Peeks, Touches, Proceeds
            <4>2. e \in QuietEffects /\ u \in Quiet
                BY <2>5, <3>1, QuietFlow DEF Peeks, Touches, Proceeds
            <4>3. node' \in Nodes
                BY <1>0, <4>1, <4>2, ChangedFacts
            <4>4. LoopFree'
                BY <4>2 DEF LoopFree
            <4> QED
                BY <2>3, <4>1, <4>3, <4>4
        <3>2. ~Reads("loop", {}, {})
            BY <2>5, QuietFlow, MovesGo
        <3>3. ~Writes("loop", {}, {})
            BY <2>5, QuietFlow, MovesGo
        <3>4. ~Drops("loop", {}, {}) /\ ~Ends("loop", {}, {})
            BY <2>5, QuietFlow, MovesGo
        <3> QED
            BY <2>1, <2>4, <3>1, <3>2, <3>3, <3>4 DEF StepOf, Moved
    <2>6. ASSUME NEW c \in Clients, Owes(s, c), Awaiting(todo[c])
          PROVE  Goal
        <3>1. ASSUME Peeks("loop", {}, {}) \/ Touches("loop", {}, {})
              PROVE  Goal
            <4>1. node' \in Changed(e) /\ Holds("loop", {}, {})'
                BY <3>1 DEF Peeks, Touches, Proceeds
            <4>2. e \in QuietEffects /\ Owes(u, c)
                BY <2>6, <3>1, OwesFlow DEF Peeks, Touches, Proceeds
            <4>3. node' \in Nodes
                BY <1>0, <4>1, <4>2, ChangedFacts
            <4>4. Awaiting(todo'[c])
                BY <1>0, <2>2, <2>6 DEF Untouched
            <4>5. LoopFree'
                BY <4>2, <4>4 DEF LoopFree
            <4> QED
                BY <2>3, <4>1, <4>3, <4>5
        <3>2. ~Reads("loop", {}, {})
            BY <2>6, OwesFlow, MovesGo
        <3>3. ~Writes("loop", {}, {})
            BY <2>6, OwesFlow, MovesGo
        <3>4. ~Drops("loop", {}, {})
            BY <2>6, OwesFlow, MovesGo
        <3>5. ~Ends("loop", {}, {})
            BY <2>6, OwesFlow, MovesGo
        <3> QED
            BY <2>1, <2>4, <3>1, <3>2, <3>3, <3>4, <3>5 DEF StepOf, Moved
    <2>7. ASSUME Growing(s), Room
          PROVE  Goal
        <3>1. ASSUME Peeks("loop", {}, {})
              PROVE  Goal
            <4>1. node' \in Changed(e) /\ Holds("loop", {}, {})'
                BY <3>1 DEF Peeks, Proceeds
            <4>2. e = "nothing" /\ (Growing(u) \/ u \in Quiet)
                BY <2>7, <3>1, GrowingFlow DEF Peeks, Proceeds
            <4>3. node' = node
                BY <1>0, <4>1, <4>2, ChangedFacts
            <4>4. LoopFree'
                BY <2>7, <4>2, <4>3 DEF LoopFree, Room
            <4> QED
                BY <1>0, <2>3, <4>1, <4>3, <4>4
        <3>2. ASSUME Touches("loop", {}, {})
              PROVE  Goal
            <4>1. node' \in Changed(e) /\ Holds("loop", {}, {})'
                BY <3>2 DEF Touches, Proceeds
            <4>2. e \in {"newcomer", "graft"} /\ u \in Quiet
                BY <2>7, <3>2, GrowingFlow DEF Touches, Proceeds
            <4>3. node' \in Nodes
                BY <1>0, <2>7, <4>1, <4>2, ChangedFacts
            <4>4. LoopFree'
                BY <4>2 DEF LoopFree
            <4> QED
                BY <2>3, <4>1, <4>3, <4>4
        <3>3. ~Reads("loop", {}, {})
            BY <2>7, GrowingFlow, MovesGo
        <3>4. ~Writes("loop", {}, {})
            BY <2>7, GrowingFlow, MovesGo
        <3>5. ~Drops("loop", {}, {})
            BY <2>7, GrowingFlow, MovesGo
        <3>6. ~Ends("loop", {}, {})
            BY <2>7, GrowingFlow, MovesGo
        <3> QED
            BY <2>1, <2>4, <3>1, <3>2, <3>3, <3>4, <3>5, <3>6 DEF StepOf, Moved
    <2>8. ASSUME InfoFree(s)
          PROVE  Goal
        <3>1. ASSUME Peeks("loop", {}, {})
              PROVE  Goal
            <4>1. node' \in Changed(e) /\ Holds("loop", {}, {})'
                BY <3>1 DEF Peeks, Proceeds
            <4>2. e = "nothing" /\ InfoFree(u)
                BY <2>8, <3>1, InfoFlow DEF Peeks, Proceeds
            <4>3. node' = node
                BY <1>0, <4>1, <4>2, ChangedFacts
            <4>4. LoopFree'
                BY <4>2 DEF LoopFree
            <4> QED
                BY <1>0, <2>3, <4>1, <4>3, <4>4
        <3>2. ASSUME Reads("loop", {}, {})
              PROVE  Goal
            <4>1. PICK k \in Locks : /\ k = Current("loop").lock /\ Proceeds("loop", "read")
                                     /\ Holds("loop", {} \cup {k}, {})'
                BY <3>2 DEF Reads
            <4>2. k = "gossip" /\ e = "nothing" /\ InfoMesh(u)
                BY <2>8, <4>1, InfoFlow DEF Proceeds
            <4>3. node' = node
                BY <1>0, <4>1, <4>2, ChangedFacts DEF Proceeds
            <4>4. {} \cup {k} = {"gossip"}
                BY <4>2
            <4> QED
                BY <1>0, <2>2, <4>1, <4>2, <4>3, <4>4 DEF LoopInv
        <3>3. ~Touches("loop", {}, {})
            BY <2>8, InfoFlow, MovesGo
        <3>4. ~Writes("loop", {}, {})
            BY <2>8, InfoFlow, MovesGo
        <3>5. ~Drops("loop", {}, {})
            BY <2>8, InfoFlow, MovesGo
        <3>6. ~Ends("loop", {}, {})
            BY <2>8, InfoFlow, MovesGo
        <3> QED
            BY <2>1, <2>4, <3>1, <3>2, <3>3, <3>4, <3>5, <3>6 DEF StepOf, Moved
    <2>9. ASSUME ConfigFree(s)
          PROVE  Goal
        <3>1. ASSUME Writes("loop", {}, {})
              PROVE  Goal
            <4>1. PICK k \in Locks : /\ k = Current("loop").lock /\ Proceeds("loop", "write")
                                     /\ Holds("loop", {}, {} \cup {k})'
                BY <3>1 DEF Writes
            <4>2. k = "ipfs" /\ e = "nothing" /\ ConfigIpfs(u)
                BY <2>9, <4>1, ConfigFlow DEF Proceeds
            <4>3. node' = node
                BY <1>0, <4>1, <4>2, ChangedFacts DEF Proceeds
            <4>4. {} \cup {k} = {"ipfs"}
                BY <4>2
            <4> QED
                BY <1>0, <2>2, <4>1, <4>2, <4>3, <4>4 DEF LoopInv
        <3>2. ~Peeks("loop", {}, {})
            BY <2>9, ConfigFlow, MovesGo
        <3>3. ~Reads("loop", {}, {})
            BY <2>9, ConfigFlow, MovesGo
        <3>4. ~Touches("loop", {}, {})
            BY <2>9, ConfigFlow, MovesGo
        <3>5. ~Drops("loop", {}, {})
            BY <2>9, ConfigFlow, MovesGo
        <3>6. ~Ends("loop", {}, {})
            BY <2>9, ConfigFlow, MovesGo
        <3> QED
            BY <2>1, <2>4, <3>1, <3>2, <3>3, <3>4, <3>5, <3>6 DEF StepOf, Moved
    <2> QED
        BY <1>1, <2>5, <2>6, <2>7, <2>8, <2>9 DEF LoopFree
(* While it holds the mesh, or the lock of IPFS.                              *)
<1>2. ASSUME InfoMesh(s), Holds("loop", {"gossip"}, {})
      PROVE  Goal
    <2>1. StepOf("loop", {"gossip"}, {})
        BY <1>0, <1>2, ActsMove
    <2>2. Shape' /\ Others
        BY <2>1 DEF StepOf
    <2>3. ASSUME Peeks("loop", {"gossip"}, {})
          PROVE  Goal
        <3>1. e = "nothing" /\ InfoMesh(u)
            BY <1>2, <2>3, InfoFlow DEF Peeks, Proceeds
        <3>2. node' = node
            BY <1>0, <2>3, <3>1, ChangedFacts DEF Peeks, Proceeds
        <3> QED
            BY <1>0, <2>2, <2>3, <3>1, <3>2 DEF Peeks, LoopInv
    <2>4. ASSUME Drops("loop", {"gossip"}, {})
          PROVE  Goal
        <3>1. PICK k \in Locks : /\ Goes(s, "drop", k, e, u) /\ node' = node
                                 /\ Holds("loop", {"gossip"} \ {k}, {} \ {k})'
            BY <2>4 DEF Drops
        <3>2. k = "gossip" /\ u = Done
            BY <1>2, <3>1, InfoFlow
        <3>3. {"gossip"} \ {k} = {} /\ {} \ {k} = {}
            BY <3>2
        <3>4. LoopFree'
            BY <3>2, LoopPrograms DEF LoopFree
        <3> QED
            BY <1>0, <2>2, <3>1, <3>3, <3>4 DEF LoopInv
    <2>5. ASSUME Waits("loop", {"gossip"}, {})
          PROVE  Goal
        BY <1>0, <1>2, <2>2, <2>5 DEF Waits, LoopInv
    <2>6. ~Reads("loop", {"gossip"}, {})
        BY <1>2, InfoFlow, MovesGo
    <2>7. ~Touches("loop", {"gossip"}, {})
        BY <1>2, InfoFlow, MovesGo
    <2>8. ~Writes("loop", {"gossip"}, {})
        BY <1>2, InfoFlow, MovesGo
    <2>9. ~Ends("loop", {"gossip"}, {})
        BY <1>2, InfoFlow, MovesGo
    <2> QED
        BY <2>1, <2>3, <2>4, <2>5, <2>6, <2>7, <2>8, <2>9 DEF StepOf, Moved
<1>3. ASSUME ConfigIpfs(s), Holds("loop", {}, {"ipfs"})
      PROVE  Goal
    <2>1. StepOf("loop", {}, {"ipfs"})
        BY <1>0, <1>3, ActsMove
    <2>2. Shape' /\ Others
        BY <2>1 DEF StepOf
    <2>3. ASSUME Peeks("loop", {}, {"ipfs"})
          PROVE  Goal
        <3>1. e = "nothing" /\ ConfigIpfs(u)
            BY <1>3, <2>3, ConfigFlow DEF Peeks, Proceeds
        <3>2. node' = node
            BY <1>0, <2>3, <3>1, ChangedFacts DEF Peeks, Proceeds
        <3> QED
            BY <1>0, <2>2, <2>3, <3>1, <3>2 DEF Peeks, LoopInv
    <2>4. ASSUME Drops("loop", {}, {"ipfs"})
          PROVE  Goal
        <3>1. PICK k \in Locks : /\ Goes(s, "drop", k, e, u) /\ node' = node
                                 /\ Holds("loop", {} \ {k}, {"ipfs"} \ {k})'
            BY <2>4 DEF Drops
        <3>2. k = "ipfs" /\ u = Done
            BY <1>3, <3>1, ConfigFlow
        <3>3. {} \ {k} = {} /\ {"ipfs"} \ {k} = {}
            BY <3>2
        <3>4. LoopFree'
            BY <3>2, LoopPrograms DEF LoopFree
        <3> QED
            BY <1>0, <2>2, <3>1, <3>3, <3>4 DEF LoopInv
    <2>5. ASSUME Waits("loop", {}, {"ipfs"})
          PROVE  Goal
        BY <1>0, <1>3, <2>2, <2>5 DEF Waits, LoopInv
    <2>6. ~Reads("loop", {}, {"ipfs"})
        BY <1>3, ConfigFlow, MovesGo
    <2>7. ~Touches("loop", {}, {"ipfs"})
        BY <1>3, ConfigFlow, MovesGo
    <2>8. ~Writes("loop", {}, {"ipfs"})
        BY <1>3, ConfigFlow, MovesGo
    <2>9. ~Ends("loop", {}, {"ipfs"})
        BY <1>3, ConfigFlow, MovesGo
    <2> QED
        BY <2>1, <2>3, <2>4, <2>5, <2>6, <2>7, <2>8, <2>9 DEF StepOf, Moved
<1> QED
    BY <1>1, <1>2, <1>3 DEF Inv, LoopInv

-----------------------------------------------------------------------------
(* The tasks a step leaves alone, those that begin, and those that talk       *)

LEMMA UntouchedKeeps ==
    /\ SyncInv /\ Untouched("sync") => SyncInv'
    /\ BeatInv /\ Untouched("beat") => BeatInv'
    /\ \A c \in Clients : ClientInv(c) /\ Untouched(c) => ClientInv(c)'
<1>0. "sync" \in Tasks /\ "beat" \in Tasks /\ Clients \subseteq Tasks
    BY DEF Tasks
<1>1. SyncInv /\ Untouched("sync") => SyncInv'
    <2> SUFFICES ASSUME SyncInv, Untouched("sync")
                 PROVE  SyncInv'
        OBVIOUS
    <2>1. todo'["sync"] = todo["sync"]
        BY DEF Untouched
    <2>2. \A R, W : Holds("sync", R, W) => Holds("sync", R, W)'
        BY <1>0, UntouchedHolds
    <2> QED
        BY <2>1, <2>2 DEF SyncInv
<1>2. BeatInv /\ Untouched("beat") => BeatInv'
    <2> SUFFICES ASSUME BeatInv, Untouched("beat")
                 PROVE  BeatInv'
        OBVIOUS
    <2>1. todo'["beat"] = todo["beat"]
        BY DEF Untouched
    <2>2. \A R, W : Holds("beat", R, W) => Holds("beat", R, W)'
        BY <1>0, UntouchedHolds
    <2> QED
        BY <2>1, <2>2 DEF BeatInv
<1>3. ASSUME NEW c \in Clients, ClientInv(c), Untouched(c)
      PROVE  ClientInv(c)'
    <2>1. todo'[c] = todo[c]
        BY <1>3 DEF Untouched
    <2>2. Holds(c, {}, {})'
        BY <1>0, <1>3, UntouchedHolds DEF ClientInv
    <2> QED
        BY <1>3, <2>1, <2>2 DEF ClientInv
<1> QED
    BY <1>1, <1>2, <1>3

LEMMA LoopUntouched ==
    ASSUME LoopInv, Untouched("loop"), node'.mesh = node.mesh,
           \A c \in Clients : Awaiting(todo[c]) => todo'[c] = todo[c]
    PROVE  LoopInv'
<1>1. "loop" \in Tasks /\ todo'["loop"] = todo["loop"]
    BY DEF Untouched, Tasks
<1>2. \A R, W : Holds("loop", R, W) => Holds("loop", R, W)'
    BY <1>1, UntouchedHolds
<1>3. LoopFree => LoopFree'
    BY <1>1 DEF LoopFree, Room
<1> QED
    BY <1>1, <1>2, <1>3 DEF LoopInv

\* A task that takes no lock, in a step that moves no lock.
LEMMA LocksStay ==
    ASSUME NEW t \in Tasks, NEW R, NEW W, Holds(t, R, W), ~At(t, {"touch", "write"}),
           readers' = readers, writer' = writer
    PROVE  Holds(t, R, W)'
BY DEF Holds, Claims

\* A list under which a task holds a lock is not empty.
LEMMA HoldersHaveWork ==
    ASSUME NEW s
    PROVE  /\ SyncMesh(s) \/ SyncTable(s) \/ SyncBoth(s) => s # <<>>
           /\ BeatMesh(s) \/ InfoMesh(s) \/ ConfigIpfs(s) \/ Awaiting(s) => s # <<>>
<1>1. \A a \in Instruction, r \in Program : Then(a, r) # <<>>
    BY ThenFacts
<1>2. ASSUME NEW r \in Remainders
      PROVE  r # <<>> /\ Saved(r) # <<>> /\ (Uploading(s, r) => s # <<>>)
    <2>1. r # <<>>
        <3>1. Then(Drop("ipfs"), EndPass) \in Program
            BY ThenFacts, SyncInstructions, SyncPrograms
        <3> QED
            BY <1>1, <3>1, SyncInstructions, SyncPrograms DEF Remainders, EndPass, Tell
    <2>2. Saved(r) # <<>> /\ Saved(r) \in Program
        BY <1>1, SyncInstructions, SyncPrograms DEF Saved
    <2>3. /\ Then(Change("ipfs", "join"), Saved(r)) \in Program
          /\ Then(Peek("ipfs"), Saved(r)) \in Program
        BY <2>2, ThenFacts, SyncInstructions
    <2>4. Then(Read("db", "next"), Then(Change("ipfs", "join"), Saved(r))) \in Program
        BY <2>3, ThenFacts, SyncInstructions
    <2>5. Then(Peek("ipfs"), Then(Read("db", "next"), Then(Change("ipfs", "join"), Saved(r)))) \in Program
        BY <2>4, ThenFacts, SyncInstructions
    <2>6. Uploading(s, r) => s # <<>>
        BY <1>1, <2>1, <2>3, <2>4, <2>5, SyncInstructions, SyncPrograms DEF Uploading
    <2> QED
        BY <2>1, <2>2, <2>6
<1>3. ASSUME SyncMesh(s)
      PROVE  s # <<>>
    <2>1. Then(Look("ipfs", "modified"), EndPass) \in Program
        BY ThenFacts, SyncInstructions, SyncPrograms
    <2> QED
        BY <1>1, <1>2, <1>3, <2>1, SyncInstructions, SyncPrograms DEF SyncMesh
<1>4. ASSUME SyncTable(s)
      PROVE  s # <<>>
    BY <1>1, <1>2, <1>4, SyncInstructions, SyncPrograms DEF SyncTable
<1>5. ASSUME SyncBoth(s)
      PROVE  s # <<>>
    <2>1. /\ Then(Look("ipfs", "modified"), Tell) \in Program
          /\ Then(Peek("ipfs"), EndPass) \in Program
          /\ Then(Drop("ipfs"), EndPass) \in Program
        BY ThenFacts, SyncInstructions, SyncPrograms
    <2> QED
        BY <1>1, <1>5, <2>1, SyncInstructions, SyncPrograms DEF SyncBoth
<1>6. ASSUME BeatMesh(s)
      PROVE  s # <<>>
    <2>1. Write("gossip", "next") \in Instruction /\ Then(Drop("gossip"), EndPass) \in Program
        BY ThenFacts, InstructionFacts, SyncInstructions, SyncPrograms DEF Locks, Ways
    <2>2. EndPass # <<>>
        BY <1>1, SyncInstructions, SyncPrograms DEF EndPass
    <2> QED
        BY <1>1, <1>6, <2>1, <2>2, InstructionFacts, SyncPrograms DEF BeatMesh
<1>7. ASSUME InfoMesh(s) \/ ConfigIpfs(s)
      PROVE  s # <<>>
    <2>1. EndPass # <<>> /\ EndConfig # <<>>
        BY <1>1, SyncInstructions, SyncPrograms DEF EndPass, EndConfig
    <2> QED
        BY <1>1, <1>7, <2>1, LoopInstructions, LoopPrograms DEF InfoMesh, ConfigIpfs
<1>8. Awaiting(s) => s # <<>>
    BY <1>1, ClientInstructions, ClientPrograms DEF Awaiting
<1> QED
    BY <1>3, <1>4, <1>5, <1>6, <1>7, <1>8

LEMMA TalksGo ==
    ASSUME Types, NEW t \in Tasks, At(t, Talks)
    PROVE  /\ Goes(todo[t], Current(t).op, Current(t).lock, Current(t).arg, Tail(todo[t]))
           /\ Tail(todo[t]) \in Program
<1>1. todo[t] # <<>> /\ Current(t).op \in Talks
    BY DEF At
<1>2. Current(t) \in Instruction /\ Tail(todo[t]) \in Program
    BY <1>1, AllGoOn
<1>3. Current(t).then = "next"
    BY <1>1, <1>2 DEF Instruction
<1>4. <<>> \in Continuations("next") /\ <<>> \o Tail(todo[t]) = Tail(todo[t])
    BY <1>2, CatFacts DEF Continuations
<1>5. Tail(todo[t]) \in After(Current(t).then, Tail(todo[t]))
    BY <1>3, <1>4 DEF After
<1> QED
    BY <1>1, <1>2, <1>5 DEF Goes, Current

LEMMA AwaitingFlow ==
    ASSUME NEW s, Awaiting(s), NEW op, NEW k, NEW e, NEW u, Goes(s, op, k, e, u)
    PROVE  op = "await" /\ ClientList(u)
<1>1. op = "await" /\ (u = Done \/ u = Then(Touch("db"), Done))
    BY AwaitGoes, ClientPrograms DEF Awaiting
<1> QED
    BY <1>1 DEF ClientList

\* A client that waits for an answer takes no step.
LEMMA AwaitingIsAt ==
    ASSUME Types, NEW c \in Clients, Awaiting(todo[c])
    PROVE  todo[c] # <<>> /\ Current(c).op = "await"
<1>1. c \in Tasks /\ todo[c] # <<>>
    BY HoldersHaveWork DEF Tasks
<1>2. PICK u : Goes(todo[c], Current(c).op, Current(c).lock, Current(c).arg, u)
    BY <1>1, AllGoOn
<1> QED
    BY <1>1, <1>2, AwaitingFlow

\* Only a client with a request, and the synchronization task with the news that it
\* is another node's turn, talk to the loop; and only the loop answers.
LEMMA WhoSends ==
    ASSUME Inv, NEW t \in Tasks, At(t, {"send"})
    PROVE  \/ t = "sync" /\ SyncBoth(todo[t]) /\ Holds(t, {"gossip"}, {"ipfs"})
           \/ t \in Clients
<1>0. /\ Types /\ SyncInv /\ BeatInv /\ LoopInv /\ node.mesh \in Nat \cup {None}
      /\ todo[t] # <<>> /\ Current(t).op = "send"
    BY DEF Inv, Types, Nodes, At
<1>1. PICK k, e, u : Goes(todo[t], "send", k, e, u)
    BY <1>0, AllGoOn
<1>2. CASE t = "sync"
    BY <1>0, <1>1, <1>2, SyncFreeFlow, SyncMeshFlow, SyncTableFlow DEF SyncInv
<1>3. CASE t = "beat"
    BY <1>0, <1>1, <1>3, BeatFreeFlow, BeatMeshFlow DEF BeatInv
<1>4. CASE t = "loop"
    BY <1>0, <1>1, <1>4, QuietFlow, OwesFlow, GrowingFlow, InfoFlow, ConfigFlow DEF LoopInv, LoopFree
<1> QED
    BY <1>2, <1>3, <1>4 DEF Tasks

LEMMA WhoAnswers ==
    ASSUME Inv, NEW t \in Tasks, At(t, {"answer"})
    PROVE  /\ t = "loop" /\ Holds("loop", {}, {})
           /\ \E c \in Clients : Owes(todo["loop"], c) /\ Awaiting(todo[c])
<1>0. /\ Types /\ SyncInv /\ BeatInv /\ LoopInv /\ node.mesh \in Nat \cup {None}
      /\ \A c \in Clients : ClientList(todo[c])
      /\ todo[t] # <<>> /\ Current(t).op = "answer"
    BY DEF Inv, ClientInv, Types, Nodes, At
<1>1. PICK k, e, u : Goes(todo[t], "answer", k, e, u)
    BY <1>0, AllGoOn
<1>2. t # "sync"
    BY <1>0, <1>1, SyncFreeFlow, SyncMeshFlow, SyncTableFlow, SyncBothFlow DEF SyncInv
<1>3. t # "beat"
    BY <1>0, <1>1, BeatFreeFlow, BeatMeshFlow DEF BeatInv
<1>4. t \notin Clients
    BY <1>0, <1>1, ClientFlow
<1>5. t = "loop"
    BY <1>2, <1>3, <1>4 DEF Tasks
<1> QED
    BY <1>0, <1>1, <1>5, QuietFlow, GrowingFlow, InfoFlow, ConfigFlow DEF LoopInv, LoopFree

-----------------------------------------------------------------------------
(* Every step keeps the invariant                                             *)

LEMMA TypesFromShape == Shape' /\ node' \in Nodes => Types'
BY DEF Shape, Types

LEMMA ActsKeep ==
    ASSUME Inv, NEW t \in Tasks, Acts(t)
    PROVE  Inv'
<1>0. /\ {"sync", "beat", "loop"} \subseteq Tasks /\ Clients \subseteq Tasks
      /\ \A c \in Clients : c \notin {"sync", "beat", "loop"}
      /\ SyncInv /\ BeatInv /\ LoopInv /\ \A c \in Clients : ClientInv(c)
    BY TasksAssumption DEF Inv, Tasks
<1>1. CASE t = "sync"
    <2>1. /\ SyncInv' /\ Shape' /\ node' \in Nodes /\ node'.mesh = node.mesh
          /\ \A t1 \in Tasks \ {"sync"} : Untouched(t1)
        BY <1>1, SyncActs
    <2>2. Untouched("beat") /\ Untouched("loop") /\ \A c \in Clients : Untouched(c)
        BY <1>0, <2>1
    <2>3. LoopInv'
        BY <1>0, <2>1, <2>2, LoopUntouched DEF Untouched
    <2> QED
        BY <1>0, <2>1, <2>2, <2>3, UntouchedKeeps, TypesFromShape DEF Inv
<1>2. CASE t = "beat"
    <2>1. /\ BeatInv' /\ Shape' /\ node' \in Nodes /\ node'.mesh = node.mesh
          /\ \A t1 \in Tasks \ {"beat"} : Untouched(t1)
        BY <1>2, BeatActs
    <2>2. Untouched("sync") /\ Untouched("loop") /\ \A c \in Clients : Untouched(c)
        BY <1>0, <2>1
    <2>3. LoopInv'
        BY <1>0, <2>1, <2>2, LoopUntouched DEF Untouched
    <2> QED
        BY <1>0, <2>1, <2>2, <2>3, UntouchedKeeps, TypesFromShape DEF Inv
<1>3. CASE t = "loop"
    <2>1. /\ LoopInv' /\ Shape' /\ node' \in Nodes
          /\ \A t1 \in Tasks \ {"loop"} : Untouched(t1)
        BY <1>3, LoopActs
    <2>2. Untouched("sync") /\ Untouched("beat") /\ \A c \in Clients : Untouched(c)
        BY <1>0, <2>1
    <2> QED
        BY <1>0, <2>1, <2>2, UntouchedKeeps, TypesFromShape DEF Inv
<1>4. ASSUME t \in Clients
      PROVE  Inv'
    <2>1. /\ ClientInv(t)' /\ Shape' /\ node' \in Nodes /\ node'.mesh = node.mesh
          /\ \A t1 \in Tasks \ {t} : Untouched(t1)
        BY <1>4, ClientActs
    <2>2. /\ Untouched("sync") /\ Untouched("beat") /\ Untouched("loop")
          /\ \A c \in Clients \ {t} : Untouched(c)
        BY <1>0, <1>4, <2>1
    <2>3. ~Awaiting(todo[t])
        <3> SUFFICES ASSUME Awaiting(todo[t])
                     PROVE  FALSE
            OBVIOUS
        <3>1. Current(t).op = "await"
            BY <1>4, AwaitingIsAt DEF Inv
        <3> QED
            BY <3>1 DEF Acts, TakeRead, ClaimWrite, TakeWrite, LetGo, End, At
    <2>4. LoopInv'
        BY <1>0, <2>1, <2>2, <2>3, LoopUntouched DEF Untouched
    <2>5. \A c \in Clients : ClientInv(c)'
        BY <1>0, <2>1, <2>2, UntouchedKeeps
    <2> QED
        BY <1>0, <2>1, <2>2, <2>4, <2>5, UntouchedKeeps, TypesFromShape DEF Inv
<1> QED
    BY <1>1, <1>2, <1>3, <1>4 DEF Tasks

LEMMA AnswerKeeps ==
    ASSUME Inv, NEW t \in Tasks, AnswerClient(t)
    PROVE  Inv'
<1>0. /\ {"sync", "beat", "loop"} \subseteq Tasks /\ Clients \subseteq Tasks
      /\ \A c \in Clients : c \notin {"sync", "beat", "loop"}
      /\ Types /\ SyncInv /\ BeatInv /\ \A c \in Clients : ClientInv(c)
    BY TasksAssumption DEF Inv, Tasks
<1>1. At(t, {"answer"}) /\ UNCHANGED <<readers, writer, node>>
      /\ todo' = [todo EXCEPT ![t] = Tail(@), ![Current(t).arg] = Tail(@)]
    BY DEF AnswerClient
<1>2. PICK c \in Clients : Owes(todo["loop"], c) /\ Awaiting(todo[c])
    BY <1>1, WhoAnswers
<1>3. t = "loop" /\ Holds("loop", {}, {}) /\ t # c
    BY <1>0, <1>1, WhoAnswers
<1>4. Current("loop").arg = c /\ Tail(todo["loop"]) = Done
    <2>1. Goes(todo["loop"], "answer", Current("loop").lock, Current("loop").arg,
               Tail(todo["loop"]))
        BY <1>0, <1>1, <1>3, TalksGo DEF At, Talks
    <2>2. \A k, e, u : Goes(todo["loop"], "answer", k, e, u) => e = c /\ u = Done
        BY <1>2, OwesFlow
    <2> QED
        BY <2>1, <2>2
<1>5. todo[c] # <<>> /\ Current(c).op = "await"
    BY <1>0, <1>2, AwaitingIsAt
<1>6. ClientList(Tail(todo[c])) /\ Tail(todo[c]) \in Program
    <2>1. /\ Goes(todo[c], "await", Current(c).lock, Current(c).arg, Tail(todo[c]))
          /\ Tail(todo[c]) \in Program
        BY <1>0, <1>5, TalksGo DEF At, Talks
    <2> QED
        BY <1>2, <2>1, AwaitingFlow
<1>7. /\ todo'["loop"] = Done /\ todo'[c] = Tail(todo[c])
      /\ \A t1 \in Tasks \ {"loop", c} : todo'[t1] = todo[t1]
      /\ todo' \in [Tasks -> Program]
    BY <1>0, <1>1, <1>3, <1>4, <1>6, LoopPrograms DEF Types
<1>8. \A t1 \in Tasks \ {"loop", c} : Untouched(t1)
    BY <1>1, <1>7 DEF Untouched
<1>9. SyncInv' /\ BeatInv' /\ \A c1 \in Clients \ {c} : ClientInv(c1)'
    BY <1>0, <1>8, UntouchedKeeps
<1>10. ClientInv(c)'
    <2>1. Holds(c, {}, {})'
        BY <1>0, <1>1, <1>5, LocksStay DEF ClientInv, At
    <2> QED
        BY <1>6, <1>7, <2>1 DEF ClientInv
<1>11. LoopInv'
    <2>1. Holds("loop", {}, {})'
        BY <1>0, <1>1, <1>3, LocksStay DEF At
    <2>2. LoopFree'
        BY <1>7, LoopPrograms DEF LoopFree
    <2> QED
        BY <2>1, <2>2 DEF LoopInv
<1>12. Types'
    BY <1>0, <1>1, <1>7 DEF Types
<1> QED
    BY <1>9, <1>10, <1>11, <1>12 DEF Inv

\* A task without work holds nothing.
LEMMA IdleHoldsNothing ==
    ASSUME Inv, NEW t \in Tasks, Idle(t)
    PROVE  Holds(t, {}, {})
<1>1. todo[t] = <<>> /\ SyncInv /\ BeatInv /\ LoopInv /\ \A c \in Clients : ClientInv(c)
    BY DEF Inv, Idle
<1>2. CASE t = "sync"
    BY <1>1, <1>2, HoldersHaveWork DEF SyncInv
<1>3. CASE t = "beat"
    BY <1>1, <1>3, HoldersHaveWork DEF BeatInv
<1>4. CASE t = "loop"
    BY <1>1, <1>4, HoldersHaveWork DEF LoopInv
<1>5. CASE t \in Clients
    BY <1>1, <1>5 DEF ClientInv
<1> QED
    BY <1>2, <1>3, <1>4, <1>5 DEF Tasks

LEMMA StartKeeps ==
    ASSUME Inv, NEW t \in Tasks, NEW list \in Program, Start(t, list),
           t = "sync" => SyncFree(list),
           t = "beat" => BeatFree(list),
           t \in Clients => ClientList(list),
           t = "loop" => list \in Quiet \/ (Growing(list) /\ Room) \/ ConfigFree(list)
    PROVE  Inv'
<1>0. /\ {"sync", "beat", "loop"} \subseteq Tasks /\ Clients \subseteq Tasks
      /\ \A c \in Clients : c \notin {"sync", "beat", "loop"}
      /\ Types /\ SyncInv /\ BeatInv /\ LoopInv /\ \A c \in Clients : ClientInv(c)
    BY TasksAssumption DEF Inv, Tasks
<1>1. /\ Idle(t) /\ todo' = [todo EXCEPT ![t] = list]
      /\ readers' = readers /\ writer' = writer /\ node' = node
    BY DEF Start
<1>2. todo'[t] = list /\ todo' \in [Tasks -> Program] /\ \A t1 \in Tasks \ {t} : todo'[t1] = todo[t1]
    BY <1>0, <1>1 DEF Types
<1>3. Types' /\ \A t1 \in Tasks \ {t} : Untouched(t1)
    BY <1>0, <1>1, <1>2 DEF Types, Untouched
<1>4. Holds(t, {}, {})'
    BY <1>1, IdleHoldsNothing, LocksStay DEF At, Idle
<1>5. t # "sync" => SyncInv'
    BY <1>0, <1>3, UntouchedKeeps
<1>6. t # "beat" => BeatInv'
    BY <1>0, <1>3, UntouchedKeeps
<1>7. \A c \in Clients : t # c => ClientInv(c)'
    BY <1>0, <1>3, UntouchedKeeps
<1>8. t # "loop" => LoopInv'
    <2> SUFFICES ASSUME t # "loop"
                 PROVE  LoopInv'
        OBVIOUS
    <2>1. \A c \in Clients : Awaiting(todo[c]) => todo'[c] = todo[c]
        <3> SUFFICES ASSUME NEW c \in Clients, Awaiting(todo[c])
                     PROVE  todo'[c] = todo[c]
            OBVIOUS
        <3>1. todo[c] # <<>>
            BY HoldersHaveWork
        <3> QED
            BY <1>0, <1>1, <1>2, <3>1 DEF Idle
    <2>2. Untouched("loop")
        BY <1>0, <1>3
    <2> QED
        BY <1>0, <1>1, <2>1, <2>2, LoopUntouched
<1>9. t = "sync" => SyncInv'
    BY <1>2, <1>4 DEF SyncInv
<1>10. t = "beat" => BeatInv'
    BY <1>2, <1>4 DEF BeatInv
<1>11. t \in Clients => ClientInv(t)'
    BY <1>2, <1>4 DEF ClientInv
<1>12. t = "loop" => LoopInv'
    <2> SUFFICES ASSUME t = "loop"
                 PROVE  LoopInv'
        OBVIOUS
    <2>1. LoopFree'
        BY <1>1, <1>2 DEF LoopFree, Room
    <2> QED
        BY <1>4, <2>1 DEF LoopInv
<1> QED
    BY <1>3, <1>5, <1>6, <1>7, <1>8, <1>9, <1>10, <1>11, <1>12 DEF Inv

LEMMA MessageKeeps ==
    ASSUME Inv, NEW t \in Tasks, TakeMessage(t)
    PROVE  Inv'
<1>0. /\ {"sync", "beat", "loop"} \subseteq Tasks /\ Clients \subseteq Tasks
      /\ \A c \in Clients : c \notin {"sync", "beat", "loop"}
      /\ Types /\ SyncInv /\ BeatInv /\ \A c \in Clients : ClientInv(c)
    BY TasksAssumption DEF Inv, Tasks
<1> DEFINE m == Current(t).arg
<1>1. Idle("loop") /\ At(t, {"send"}) /\ UNCHANGED <<readers, writer, node>>
    BY DEF TakeMessage
<1>2. PICK list \in OnMessage(m, t) :
         todo' = [todo EXCEPT !["loop"] = list, ![t] = Tail(@)]
    BY DEF TakeMessage
<1>3. t # "loop" /\ t # "beat"
    BY <1>0, <1>1, WhoSends DEF At, Idle
<1>4. /\ Goes(todo[t], "send", Current(t).lock, m, Tail(todo[t]))
      /\ Tail(todo[t]) \in Program
    BY <1>0, <1>1, TalksGo DEF At, Talks
<1>5. t = "sync" => m = "sync" /\ SyncBoth(Tail(todo[t])) /\ Holds(t, {"gossip"}, {"ipfs"})
    <2>1. t = "sync" => SyncBoth(todo[t]) /\ Holds(t, {"gossip"}, {"ipfs"})
        BY <1>0, <1>1, WhoSends
    <2>2. \A k, e, u : SyncBoth(todo[t]) /\ Goes(todo[t], "send", k, e, u) => e = "sync" /\ SyncBoth(u)
        BY SyncBothFlow
    <2> QED
        BY <1>4, <2>1, <2>2
<1>6. t \in Clients => \/ m \in {"flag", "gossip", "info"} /\ ClientList(Tail(todo[t]))
                       \/ m \in {"subscribe", "unsubscribe", "pinning"} /\ Awaiting(Tail(todo[t]))
    <2>1. t \in Clients => ClientList(todo[t])
        BY <1>0 DEF ClientInv
    <2>2. \A k, e, u : ClientList(todo[t]) /\ Goes(todo[t], "send", k, e, u) =>
              \/ e \in {"flag", "gossip", "info"} /\ ClientList(u)
              \/ e \in {"subscribe", "unsubscribe", "pinning"} /\ Awaiting(u)
        BY ClientFlow
    <2> QED
        BY <1>4, <2>1, <2>2
<1>7. m \in Messages
    BY <1>1, <1>5, <1>6, WhoSends DEF Messages
<1> HIDE DEF m
<1>8. list \in Program
    <2>1. \/ Owes(list, t) \/ list \in Quiet \/ InfoFree(list)
        BY <1>2, <1>7, MessageStarts DEF Messages
    <2> QED
        BY <2>1, LoopListPrograms
<1>9. /\ todo'["loop"] = list /\ todo'[t] = Tail(todo[t])
      /\ \A t1 \in Tasks \ {"loop", t} : todo'[t1] = todo[t1]
      /\ todo' \in [Tasks -> Program]
    BY <1>0, <1>2, <1>3, <1>4, <1>8 DEF Types
<1>10. Types' /\ \A t1 \in Tasks \ {"loop", t} : Untouched(t1)
    BY <1>0, <1>1, <1>9 DEF Types, Untouched
<1>11. BeatInv' /\ (t # "sync" => SyncInv') /\ \A c \in Clients : c # t => ClientInv(c)'
    BY <1>0, <1>3, <1>10, UntouchedKeeps
<1>12. \A R, W : Holds(t, R, W) => Holds(t, R, W)'
    BY <1>1, LocksStay DEF At
<1>13. t = "sync" => SyncInv'
    BY <1>5, <1>9, <1>12 DEF SyncInv
<1>14. t \in Clients => ClientInv(t)'
    <2>1. t \in Clients => ClientList(Tail(todo[t]))
        BY <1>6 DEF ClientList
    <2> QED
        BY <1>0, <1>9, <1>12, <2>1 DEF ClientInv
<1>15. LoopInv'
    <2>1. Holds("loop", {}, {})'
        BY <1>0, <1>1, IdleHoldsNothing, LocksStay DEF At, Idle
    <2>2. LoopFree'
        <3>1. CASE m \in {"subscribe", "unsubscribe", "pinning"}
            <4>1. t \in Clients /\ Awaiting(Tail(todo[t]))
                BY <1>1, <1>5, <1>6, <3>1, WhoSends
            <4>2. Owes(list, t)
                BY <1>2, <1>7, <3>1, MessageStarts
            <4> QED
                BY <1>9, <4>1, <4>2 DEF LoopFree
        <3>2. CASE m \in {"flag", "gossip", "sync"}
            BY <1>2, <1>7, <1>9, <3>2, MessageStarts DEF LoopFree
        <3>3. CASE m = "info"
            BY <1>2, <1>7, <1>9, <3>3, MessageStarts DEF LoopFree
        <3> QED
            BY <1>7, <3>1, <3>2, <3>3 DEF Messages
    <2> QED
        BY <2>1, <2>2 DEF LoopInv
<1> QED
    BY <1>10, <1>11, <1>13, <1>14, <1>15 DEF Inv

LEMMA Initially == ASSUME Init PROVE Inv
<1>1. <<>> \in Program /\ <<>> \in Quiet
    BY DEF Program, Quiet
<1>2. Types
    <2>1. node \in Nodes
        BY DEF Init, Nodes
    <2> QED
        BY <1>1, <2>1 DEF Init, Types
<1>3. \A t \in Tasks : todo[t] = Done /\ Holds(t, {}, {})
    BY TasksAssumption DEF Init, Holds, Done
<1>4. {"sync", "beat", "loop"} \subseteq Tasks /\ Clients \subseteq Tasks
    BY DEF Tasks
<1>5. SyncInv /\ BeatInv
    BY <1>3, <1>4 DEF SyncInv, BeatInv, SyncFree, BeatFree
<1>6. LoopInv
    BY <1>1, <1>3, <1>4 DEF LoopInv, LoopFree, Done
<1>7. \A c \in Clients : ClientInv(c)
    BY <1>3, <1>4 DEF ClientInv, ClientList
<1> QED
    BY <1>2, <1>5, <1>6, <1>7 DEF Inv

LEMMA StepsKeep == ASSUME Inv, [Next]_vars PROVE Inv'
<1>0. {"sync", "beat", "loop"} \subseteq Tasks /\ Clients \subseteq Tasks
      /\ \A c \in Clients : c \notin {"sync", "beat", "loop"}
    BY TasksAssumption DEF Tasks
<1>1. ASSUME NEW t \in Tasks, Step(t)
      PROVE  Inv'
    BY <1>1, ActsKeep, AnswerKeeps DEF Step, Acts
<1>2. ASSUME NEW t \in Tasks, TakeMessage(t)
      PROVE  Inv'
    BY <1>2, MessageKeeps
<1>3. ASSUME StartSync
      PROVE  Inv'
    <2>1. SyncFree(SyncPass) /\ SyncPass \in Program
        BY PassStarts, SyncInstructions DEF SyncPass, Program
    <2> QED
        BY <1>0, <1>3, <2>1, StartKeeps DEF StartSync
<1>4. ASSUME StartBeat
      PROVE  Inv'
    <2>1. BeatFree(Heartbeat) /\ Heartbeat \in Program
        <3>1. Look("gossip", "mesh") \in Instruction
            BY InstructionFacts DEF Locks, Ways
        <3> QED
            BY <3>1, PassStarts DEF Heartbeat, Program
    <2> QED
        BY <1>0, <1>4, <2>1, StartKeeps DEF StartBeat
<1>5. ASSUME NEW t \in Clients, NEW c \in Commands, StartCommand(t, c)
      PROVE  Inv'
    <2>1. ClientList(Command(c)) /\ Command(c) \in Program
        BY CommandStarts, ClientListPrograms
    <2> QED
        BY <1>0, <1>5, <2>1, StartKeeps DEF StartCommand
<1>6. ASSUME NEW e \in Events, TakeEvent(e)
      PROVE  Inv'
    <2>0. PICK list : list = OnEvent(e)
        OBVIOUS
    <2>1. Start("loop", list) /\ (e \in {"Newcomer", "Graft"} => Room)
        BY <1>6, <2>0 DEF TakeEvent, Room
    <2>2. /\ e \in {"Newcomer", "Graft"} => Growing(list)
          /\ e = "Config" => ConfigFree(list)
          /\ e \notin {"Newcomer", "Graft", "Config"} => list \in Quiet
        BY <2>0, EventStarts
    <2>3. list \in Program
        BY <2>2, LoopListPrograms
    <2>4. list \in Quiet \/ (Growing(list) /\ Room) \/ ConfigFree(list)
        BY <2>1, <2>2
    <2> QED
        BY <1>0, <2>1, <2>3, <2>4, StartKeeps
<1>7. ASSUME UNCHANGED vars
      PROVE  Inv'
    <2>1. todo' = todo /\ readers' = readers /\ writer' = writer /\ node' = node
        BY <1>7 DEF vars
    <2>2. \A t \in Tasks : Untouched(t)
        BY <2>1 DEF Untouched
    <2>3. LoopInv'
        BY <1>0, <2>1, <2>2, LoopUntouched DEF Inv
    <2>4. Types'
        BY <2>1 DEF Inv, Types
    <2> QED
        BY <1>0, <2>2, <2>3, <2>4, UntouchedKeeps DEF Inv
<1> QED
    BY <1>1, <1>2, <1>3, <1>4, <1>5, <1>6, <1>7 DEF Next

(* In every reachable state each task is at one of the places its code has,   *)
(* with the locks in its hands that it has there.                             *)
THEOREM Invariance == Spec => []Inv
BY Initially, StepsKeep, PTL DEF Spec

-----------------------------------------------------------------------------
(* What each task may be waiting for, and what it has in its hands then       *)

LEMMA SyncAt ==
    ASSUME Inv, todo["sync"] # <<>>,
           NEW op, op = Current("sync").op, NEW k, k = Current("sync").lock
    PROVE  /\ "sync" \in readers["db"] => op = "drop" \/ (op \in {"peek", "touch"} /\ k = "ipfs")
           /\ "sync" \in readers["gossip"] =>
                 \/ op \in {"drop", "send"}
                 \/ op \in {"peek", "touch", "read", "write"} /\ k \in {"ipfs", "db"}
           /\ writer["ipfs"] = "sync" => op \in {"drop", "send"}
           /\ op \notin {"await", "spin"}
           /\ op \in {"touch", "write"} => k # "gossip"
<1>0. {"db", "ipfs", "gossip"} \subseteq Locks /\ "sync" \in Tasks /\ Types /\ SyncInv
    BY DEF Locks, Tasks, Inv
<1>1. PICK e, u : Goes(todo["sync"], op, k, e, u)
    BY <1>0, AllGoOn
<1>2. CASE SyncFree(todo["sync"]) /\ Holds("sync", {}, {})
    <2>1. "sync" \notin readers["db"] /\ "sync" \notin readers["gossip"] /\ writer["ipfs"] # "sync"
        BY <1>0, <1>2 DEF Holds, Claims
    <2> QED
        BY <1>1, <1>2, <2>1, SyncFreeFlow
<1>3. CASE SyncMesh(todo["sync"]) /\ Holds("sync", {"gossip"}, {})
    <2>1. "sync" \notin readers["db"] /\ writer["ipfs"] # "sync"
        BY <1>0, <1>3 DEF Holds, Claims
    <2> QED
        BY <1>1, <1>3, <2>1, SyncMeshFlow
<1>4. CASE SyncTable(todo["sync"]) /\ Holds("sync", {"gossip", "db"}, {})
    <2>1. writer["ipfs"] # "sync"
        BY <1>0, <1>4 DEF Holds, Claims
    <2> QED
        BY <1>1, <1>4, <2>1, SyncTableFlow
<1>5. CASE SyncBoth(todo["sync"]) /\ Holds("sync", {"gossip"}, {"ipfs"})
    <2>1. "sync" \notin readers["db"]
        BY <1>0, <1>5 DEF Holds
    <2> QED
        BY <1>1, <1>5, <2>1, SyncBothFlow
<1> QED
    BY <1>0, <1>2, <1>3, <1>4, <1>5 DEF SyncInv

LEMMA BeatAt ==
    ASSUME Inv, todo["beat"] # <<>>,
           NEW op, op = Current("beat").op, NEW k, k = Current("beat").lock
    PROVE  /\ "beat" \notin readers["db"] /\ writer["ipfs"] # "beat"
           /\ "beat" \in readers["gossip"] => op \in {"drop", "end", "write", "spin"}
           /\ op \in {"touch", "write", "spin"} => op # "touch" /\ "beat" \in readers["gossip"]
           /\ op \notin {"send", "await"}
<1>0. /\ {"db", "ipfs", "gossip"} \subseteq Locks /\ "beat" \in Tasks /\ Types /\ BeatInv
      /\ node.mesh \in Nat \cup {None}
    BY DEF Locks, Tasks, Inv, Types, Nodes
<1>1. PICK e, u : Goes(todo["beat"], op, k, e, u)
    BY <1>0, AllGoOn
<1>2. CASE BeatFree(todo["beat"]) /\ Holds("beat", {}, {})
    <2>1. "beat" \notin readers["db"] /\ "beat" \notin readers["gossip"] /\ writer["ipfs"] # "beat"
        BY <1>0, <1>2 DEF Holds, Claims
    <2> QED
        BY <1>0, <1>1, <1>2, <2>1, BeatFreeFlow
<1>3. CASE BeatMesh(todo["beat"]) /\ Holds("beat", {"gossip"}, {})
    <2>1. "beat" \notin readers["db"] /\ "beat" \in readers["gossip"] /\ writer["ipfs"] # "beat"
        BY <1>0, <1>3 DEF Holds, Claims
    <2> QED
        BY <1>1, <1>3, <2>1, BeatMeshFlow
<1> QED
    BY <1>0, <1>2, <1>3 DEF BeatInv

LEMMA LoopAt ==
    ASSUME Inv, todo["loop"] # <<>>,
           NEW op, op = Current("loop").op, NEW k, k = Current("loop").lock
    PROVE  /\ "loop" \notin readers["db"]
           /\ "loop" \in readers["gossip"] => op = "drop" \/ (op = "peek" /\ k = "ipfs")
           /\ writer["ipfs"] = "loop" => op = "drop" \/ (op = "peek" /\ k = "gossip")
           /\ op \notin {"send", "await", "spin"}
<1>0. {"db", "ipfs", "gossip"} \subseteq Locks /\ "loop" \in Tasks /\ Types /\ LoopInv
    BY DEF Locks, Tasks, Inv
<1>1. PICK e, u : Goes(todo["loop"], op, k, e, u)
    BY <1>0, AllGoOn
<1>2. CASE LoopFree /\ Holds("loop", {}, {})
    <2>1. "loop" \notin readers["db"] /\ "loop" \notin readers["gossip"] /\ writer["ipfs"] # "loop"
        BY <1>0, <1>2 DEF Holds, Claims
    <2>2. op \in {"peek", "read", "touch", "write", "answer"}
        BY <1>1, <1>2, QuietFlow, OwesFlow, GrowingFlow, InfoFlow, ConfigFlow DEF LoopFree
    <2> QED
        BY <2>1, <2>2
<1>3. CASE InfoMesh(todo["loop"]) /\ Holds("loop", {"gossip"}, {})
    <2>1. "loop" \notin readers["db"] /\ writer["ipfs"] # "loop"
        BY <1>0, <1>3 DEF Holds, Claims
    <2> QED
        BY <1>1, <1>3, <2>1, InfoFlow
<1>4. CASE ConfigIpfs(todo["loop"]) /\ Holds("loop", {}, {"ipfs"})
    <2>1. "loop" \notin readers["db"] /\ "loop" \notin readers["gossip"]
        BY <1>0, <1>4 DEF Holds
    <2> QED
        BY <1>1, <1>4, <2>1, ConfigFlow
<1> QED
    BY <1>0, <1>2, <1>3, <1>4 DEF LoopInv

LEMMA ClientAt ==
    ASSUME Inv, NEW c \in Clients, todo[c] # <<>>,
           NEW op, op = Current(c).op, NEW k, k = Current(c).lock
    PROVE  /\ \A l \in Locks : c \notin readers[l]
           /\ writer["ipfs"] # c /\ op # "spin"
           /\ op \in {"touch", "write"} => k # "gossip"
<1>0. "ipfs" \in Locks /\ c \in Tasks /\ Types /\ ClientList(todo[c]) /\ Holds(c, {}, {})
    BY DEF Locks, Tasks, Inv, ClientInv
<1>1. PICK e, u : Goes(todo[c], op, k, e, u)
    BY <1>0, AllGoOn
<1>2. (\A l \in Locks : c \notin readers[l]) /\ writer["ipfs"] # c
    BY <1>0 DEF Holds, Claims
<1> QED
    BY <1>0, <1>1, <1>2, ClientFlow

-----------------------------------------------------------------------------
(* The theorems                                                               *)

(* Lists of instructions, guards of tasks, and a mesh within the bounds.      *)
THEOREM TypeCorrect == Spec => []TypeOK
<1>1. ASSUME Inv
      PROVE  TypeOK
    <2>1. Types
        BY <1>1 DEF Inv
    <2>2. ASSUME NEW t \in Tasks
          PROVE  Idle(t) \/ Current(t).lock \in Locks \cup {""}
        BY <2>1, AllGoOn DEF Idle, Instruction
    <2> QED
        BY <2>1, <2>2 DEF TypeOK, Types, Nodes
<1> QED
    BY <1>1, Invariance, PTL

(* A command that waits for the network loop, or a task that waits for        *)
(* nothing, has no lock in its hands.                                         *)
THEOREM WaitersAreHarmless == Spec => []WaitersHoldNothing
<1>1. ASSUME Inv, NEW t \in Tasks \ {"sync"}, Idle(t) \/ At(t, {"send", "await"})
      PROVE  HoldsNothing(t)
    <2>1. ~At(t, {"touch", "write"})
        BY <1>1 DEF Idle, At
    <2>2. Holds(t, {}, {})
        <3>1. CASE Idle(t)
            BY <1>1, <3>1, IdleHoldsNothing
        <3>2. CASE At(t, {"send", "await"})
            <4>1. todo[t] # <<>> /\ Current(t).op \in {"send", "await"}
                BY <3>2 DEF At
            <4>2. t # "beat"
                BY <1>1, <4>1, BeatAt
            <4>3. t # "loop"
                BY <1>1, <4>1, LoopAt
            <4> QED
                BY <1>1, <4>2, <4>3 DEF Tasks, Inv, ClientInv
        <3> QED
            BY <1>1, <3>1, <3>2
    <2> QED
        BY <2>1, <2>2 DEF Holds, Claims, HoldsNothing
<1>2. Inv => WaitersHoldNothing
    BY <1>1 DEF WaitersHoldNothing
<1> QED
    BY <1>2, Invariance, PTL

\* What is done with a lock that another task may have.
Blocking == {"peek", "read", "touch", "write"}

LEMMA WaysFacts ==
    ASSUME Types, NEW t \in Tasks
    PROVE  /\ InTheWay(t) # {} => At(t, Blocking \cup {"send", "await", "spin"})
           /\ At(t, Blocking) =>
                 InTheWay(t) \subseteq readers[Current(t).lock] \cup ({writer[Current(t).lock]} \ {None})
           /\ At(t, {"peek", "read"}) => InTheWay(t) \subseteq {writer[Current(t).lock]}
           /\ At(t, {"touch", "write"}) /\ writer[Current(t).lock] = t =>
                 InTheWay(t) \subseteq readers[Current(t).lock]
           /\ At(t, {"send", "await"}) => InTheWay(t) \subseteq {"loop"}
<1>1. CASE At(t, {"peek", "read"})
    BY <1>1 DEF InTheWay, At, Blocking
<1>2. CASE At(t, {"touch", "write"})
    BY <1>2 DEF InTheWay, At, Blocking
<1>3. CASE At(t, {"send", "await"})
    BY <1>3 DEF InTheWay, At, Blocking
<1>4. CASE At(t, {"spin"})
    BY <1>4 DEF InTheWay, At, Blocking
<1>5. CASE ~At(t, Blocking \cup {"send", "await", "spin"})
    BY <1>5 DEF InTheWay, At, Blocking
<1> QED
    BY <1>1, <1>2, <1>3, <1>4, <1>5 DEF At, Blocking

\* Who is before the others at a lock without holding it is about to take it.
LEMMA WritersClaim ==
    ASSUME Inv, NEW l \in Locks, l # "ipfs", NEW t \in Tasks, writer[l] = t
    PROVE  At(t, {"touch", "write"}) /\ Current(t).lock = l
<1>0. SyncInv /\ BeatInv /\ LoopInv /\ \A c \in Clients : Holds(c, {}, {})
    BY DEF Inv, ClientInv
<1>1. t = "sync" => Claims(t, l)
    BY <1>0 DEF SyncInv, Holds
<1>2. t = "beat" => Claims(t, l)
    BY <1>0 DEF BeatInv, Holds
<1>3. t = "loop" => Claims(t, l)
    BY <1>0 DEF LoopInv, Holds
<1>4. t \in Clients => Claims(t, l)
    BY <1>0 DEF Holds
<1> QED
    BY <1>1, <1>2, <1>3, <1>4 DEF Claims, Tasks

(* A circle without the two exceptions has no member that waits for the lock  *)
(* of IPFS, then none that waits for the table, then none that waits for the  *)
(* mesh: whoever has the lock in its hands would be a member, too.            *)
LEMMA NoOtherCircle ==
    ASSUME Inv, NEW S \in SUBSET {t \in Tasks : InTheWay(t) # {}},
           Circle(S), ~SyncInTheWay(S), ~BeatInTheWay(S)
    PROVE  FALSE
<1>0. /\ Types /\ S # {} /\ {"db", "ipfs", "gossip"} \subseteq Locks /\ readers["ipfs"] = {}
      /\ \A t \in S : t \in Tasks /\ todo[t] # <<>> /\ InTheWay(t) \cap S # {}
    <2>1. \A t \in Tasks : InTheWay(t) # {} => todo[t] # <<>>
        BY WaysFacts DEF Inv, At
    <2> QED
        BY <2>1, NobodyReadsIpfs DEF Inv, Circle, Locks
<1>1. \A t \in S : Current(t).op \in Blocking \cup {"send", "await", "spin"}
    BY <1>0, WaysFacts DEF At
<1>2. "sync" \in S => Current("sync").op # "send"
    <2> SUFFICES ASSUME "sync" \in S, Current("sync").op = "send"
                 PROVE  FALSE
        OBVIOUS
    <2>1. At("sync", {"send"}) /\ At("sync", {"send", "await"})
        BY <1>0 DEF At
    <2>2. "loop" \in S
        BY <1>0, <2>1, WaysFacts
    <2> QED
        BY <2>1, <2>2 DEF SyncInTheWay
<1>3. "beat" \in S => Current("beat").op \notin {"spin", "write"} /\ "beat" \notin readers["gossip"]
    <2> SUFFICES ASSUME "beat" \in S
                 PROVE  Current("beat").op \notin {"spin", "write"} /\ "beat" \notin readers["gossip"]
        OBVIOUS
    <2>1. PICK op, k : op = Current("beat").op /\ k = Current("beat").lock
        OBVIOUS
    <2>2. /\ "beat" \in readers["gossip"] => op \in {"drop", "end", "write", "spin"}
          /\ op \in {"write", "spin"} => "beat" \in readers["gossip"]
        BY <1>0, <2>1, BeatAt
    <2>3. op \notin {"drop", "end"}
        BY <1>1, <2>1 DEF Blocking
    <2>4. ~("beat" \in readers["gossip"] /\ op \in {"spin", "write"})
        BY <1>0, <2>1 DEF BeatInTheWay, At
    <2> QED
        BY <2>1, <2>2, <2>3, <2>4
(* The lock of IPFS. *)
<1>4. ASSUME NEW t \in S, Current(t).op \in Blocking, Current(t).lock = "ipfs"
      PROVE  FALSE
    <2>1. PICK w \in S : w = writer["ipfs"]
        BY <1>0, <1>4, WaysFacts DEF At
    <2>2. w \in Tasks /\ w # "beat" /\ w \notin Clients
        BY <1>0, <2>1, BeatAt, ClientAt
    <2>3. w # "sync"
        <3> SUFFICES ASSUME w = "sync"
                     PROVE  FALSE
            OBVIOUS
        <3>1. Current("sync").op \in {"drop", "send"}
            BY <1>0, <2>1, SyncAt
        <3> QED
            BY <1>1, <1>2, <2>1, <3>1 DEF Blocking
    <2>4. w = "loop"
        BY <2>2, <2>3 DEF Tasks
    <2>5. Current("loop").op = "peek" /\ Current("loop").lock = "gossip"
        <3>1. Current("loop").op = "drop" \/ (Current("loop").op = "peek" /\ Current("loop").lock = "gossip")
            BY <1>0, <2>1, <2>4, LoopAt
        <3> QED
            BY <1>1, <2>4, <3>1 DEF Blocking
    <2>6. PICK v \in S : v = writer["gossip"]
        <3>1. At("loop", {"peek", "read"})
            BY <1>0, <2>4, <2>5 DEF At
        <3>2. InTheWay("loop") \subseteq {writer["gossip"]}
            BY <1>0, <2>4, <2>5, <3>1, WaysFacts
        <3> QED
            BY <1>0, <2>4, <3>2
    <2>7. At(v, {"touch", "write"}) /\ Current(v).lock = "gossip"
        BY <1>0, <2>6, WritersClaim
    <2>8. v = "beat"
        <3>1. Current(v).op \in {"touch", "write"}
            BY <2>7 DEF At
        <3>2. v # "sync" /\ v \notin Clients
            BY <1>0, <2>6, <2>7, <3>1, SyncAt, ClientAt
        <3>3. v # "loop"
            BY <2>5, <3>1
        <3> QED
            BY <1>0, <2>6, <3>2, <3>3 DEF Tasks
    <2>9. Current("beat").op = "write"
        <3>1. Current("beat").op \in {"touch", "write"}
            BY <2>7, <2>8 DEF At
        <3> QED
            BY <1>0, <2>6, <2>8, <3>1, BeatAt
    <2> QED
        BY <1>3, <2>6, <2>8, <2>9
(* The table: only the synchronization task holds it, and waits for IPFS. *)
<1>5. ASSUME NEW w \in S, w \in readers["db"]
      PROVE  FALSE
    <2>1. w = "sync"
        BY <1>0, <1>5, BeatAt, LoopAt, ClientAt DEF Tasks
    <2>2. Current("sync").op = "drop" \/ (Current("sync").op \in {"peek", "touch"} /\ Current("sync").lock = "ipfs")
        BY <1>0, <1>5, <2>1, SyncAt
    <2>3. Current("sync").op \in Blocking /\ Current("sync").lock = "ipfs"
        BY <1>1, <1>5, <2>1, <2>2 DEF Blocking
    <2> QED
        BY <1>4, <1>5, <2>1, <2>3
<1>6. ASSUME NEW t \in S, Current(t).op \in Blocking, Current(t).lock = "db"
      PROVE  FALSE
    <2>1. PICK w \in S : w \in readers["db"] \/ w = writer["db"]
        BY <1>0, <1>6, WaysFacts DEF At
    <2>2. w = writer["db"]
        BY <1>5, <2>1
    <2>3. At(w, {"touch", "write"}) /\ Current(w).lock = "db"
        BY <1>0, <2>2, WritersClaim
    <2>4. PICK r \in S : r \in readers["db"]
        BY <1>0, <2>1, <2>2, <2>3, WaysFacts
    <2> QED
        BY <1>5, <2>4
(* The mesh: whoever holds it waits for one of the two. *)
<1>7. ASSUME NEW w \in S, w \in readers["gossip"]
      PROVE  FALSE
    <2>1. w # "beat" /\ w \notin Clients
        BY <1>0, <1>3, <1>7, ClientAt
    <2>2. ASSUME w = "sync"
          PROVE  FALSE
        <3>1. \/ Current("sync").op \in {"drop", "send"}
              \/ Current("sync").op \in {"peek", "touch", "read", "write"} /\ Current("sync").lock \in {"ipfs", "db"}
            BY <1>0, <1>7, <2>2, SyncAt
        <3>2. Current("sync").op \in Blocking /\ Current("sync").lock \in {"ipfs", "db"}
            BY <1>1, <1>2, <1>7, <2>2, <3>1 DEF Blocking
        <3> QED
            BY <1>4, <1>6, <1>7, <2>2, <3>2
    <2>3. ASSUME w = "loop"
          PROVE  FALSE
        <3>1. Current("loop").op = "drop" \/ (Current("loop").op = "peek" /\ Current("loop").lock = "ipfs")
            BY <1>0, <1>7, <2>3, LoopAt
        <3>2. Current("loop").op \in Blocking /\ Current("loop").lock = "ipfs"
            BY <1>1, <1>7, <2>3, <3>1 DEF Blocking
        <3> QED
            BY <1>4, <1>7, <2>3, <3>2
    <2> QED
        BY <1>0, <1>7, <2>1, <2>2, <2>3 DEF Tasks
<1>8. ASSUME NEW t \in S, Current(t).op \in Blocking, Current(t).lock = "gossip"
      PROVE  FALSE
    <2>1. PICK w \in S : w \in readers["gossip"] \/ w = writer["gossip"]
        BY <1>0, <1>8, WaysFacts DEF At
    <2>2. w = writer["gossip"]
        BY <1>7, <2>1
    <2>3. At(w, {"touch", "write"}) /\ Current(w).lock = "gossip"
        BY <1>0, <2>2, WritersClaim
    <2>4. PICK r \in S : r \in readers["gossip"]
        BY <1>0, <2>1, <2>2, <2>3, WaysFacts
    <2> QED
        BY <1>7, <2>4
(* No member waits for a lock, and the loop waits for nothing else. *)
<1>9. ASSUME NEW t \in S, Current(t).op \in Blocking
      PROVE  FALSE
    <2>1. Current(t).lock \in {"db", "ipfs", "gossip"}
        BY <1>0, <1>9, OnLocks DEF At, Blocking, Handles, Locks
    <2> QED
        BY <1>4, <1>6, <1>8, <1>9, <2>1
<1>10. "loop" \notin S
    BY <1>0, <1>1, <1>9, LoopAt
<1>11. PICK t \in S : Current(t).op \in {"send", "await", "spin"}
    BY <1>0, <1>1, <1>9
<1>12. Current(t).op = "spin"
    <2> SUFFICES ASSUME Current(t).op \in {"send", "await"}
                 PROVE  FALSE
        BY <1>11
    <2>1. InTheWay(t) \subseteq {"loop"}
        BY <1>0, WaysFacts DEF At
    <2> QED
        BY <1>0, <1>10, <2>1
<1>13. t = "beat"
    BY <1>0, <1>10, <1>12, SyncAt, ClientAt DEF Tasks
<1> QED
    BY <1>3, <1>12, <1>13

(* Tasks that wait for each other include the synchronization task that sends *)
(* with locks in its hands, or the heartbeat that takes for writing what it   *)
(* reads, or pops for ever under it.  There is no other circle.               *)
THEOREM CirclesAreKnown == Spec => []OnlyKnownCircles
<1>1. Inv => OnlyKnownCircles
    BY NoOtherCircle DEF OnlyKnownCircles
<1> QED
    BY <1>1, Invariance, PTL

=============================================================================
