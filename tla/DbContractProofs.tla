-------------------------- MODULE DbContractProofs --------------------------
(* Proofs about DbContract, for any DIDs, addresses and hashtables and any    *)
(* number of places among the bootnodes: its sequences behave as the registry *)
(* of sets that DbRegistry states.                                            *)
EXTENDS DbContract, FiniteSetTheorems, WellFoundedInduction, TLAPS

USE NodesCapAssumption, MaxBlocksAssumption

-----------------------------------------------------------------------------
(* Induction over the naturals, for sets of naturals: a set that has 0 and    *)
(* the successor of every number it has is all of Nat.                        *)

LEMMA LeastNat ==
    ASSUME NEW T \in SUBSET Nat, T # {}
    PROVE  \E n \in T : \A m \in T : n <= m
<1>1. IsWellFoundedOn(OpToRel(<, Nat), Nat)
    BY NatLessThanWellFounded
<1>2. \E x \in T : \A y \in T : ~(<<y, x>> \in OpToRel(<, Nat))
    BY <1>1, WFMin
<1>3. \A x, y \in T : <<y, x>> \notin OpToRel(<, Nat) => x <= y
    BY DEF OpToRel
<1> QED
    BY <1>2, <1>3

LEMMA Induct ==
    ASSUME NEW S \in SUBSET Nat, 0 \in S, \A n \in S : n + 1 \in S
    PROVE  S = Nat
<1>1. SUFFICES ASSUME Nat \ S # {} PROVE FALSE
    OBVIOUS
<1>2. PICK n \in Nat \ S : \A m \in Nat \ S : n <= m
    BY <1>1, LeastNat
<1>3. n # 0 /\ n - 1 \in Nat /\ n - 1 \in S
    BY <1>2
<1> QED
    BY <1>2, <1>3

-----------------------------------------------------------------------------
(* What a filter keeps                                                        *)

\* The defining equation of the filter's function, over the first n entries.
Kept(s, x, n, f) ==
    f = [i \in 0 .. n |->
            IF i = 0 THEN <<>>
            ELSE IF s[i] = x THEN f[i - 1]
            ELSE Append(f[i - 1], s[i])]

LEMMA KeptExists ==
    ASSUME NEW s, NEW x, NEW n \in Nat
    PROVE  \E f : Kept(s, x, n, f)
<1> DEFINE Q == {m \in Nat : \E f : Kept(s, x, m, f)}
<1>1. 0 \in Q
    <2> DEFINE f == [i \in 0 .. 0 |-> <<>>]
    <2>1. f = [i \in 0 .. 0 |-> IF i = 0 THEN <<>> ELSE IF s[i] = x THEN f[i - 1]
                                ELSE Append(f[i - 1], s[i])]
        OBVIOUS
    <2>2. Kept(s, x, 0, f)
        BY <2>1 DEF Kept
    <2> QED
        BY <2>2
<1>2. ASSUME NEW m \in Q
      PROVE  m + 1 \in Q
    <2>1. PICK f : Kept(s, x, m, f)
        OBVIOUS
    <2> DEFINE last == IF s[m + 1] = x THEN f[m] ELSE Append(f[m], s[m + 1])
               g == [i \in 0 .. m + 1 |-> IF i = m + 1 THEN last ELSE f[i]]
    <2>2. \A i \in 0 .. m : f[i] = IF i = 0 THEN <<>>
                                   ELSE IF s[i] = x THEN f[i - 1]
                                   ELSE Append(f[i - 1], s[i])
        BY <2>1 DEF Kept
    <2>3. \A i \in 0 .. m + 1 : g[i] = IF i = 0 THEN <<>>
                                       ELSE IF s[i] = x THEN g[i - 1]
                                       ELSE Append(g[i - 1], s[i])
        <3> TAKE i \in 0 .. m + 1
        <3>1. CASE i = m + 1
            <4>1. g[i] = last /\ i # 0 /\ i - 1 = m /\ g[m] = f[m]
                BY <3>1
            <4> QED
                BY <4>1, <3>1
        <3>2. CASE i \in 0 .. m /\ i # 0
            <4>1. g[i] = f[i] /\ i - 1 \in 0 .. m /\ g[i - 1] = f[i - 1]
                BY <3>2
            <4> QED
                BY <4>1, <3>2, <2>2
        <3>3. CASE i = 0
            <4>1. g[0] = f[0]
                OBVIOUS
            <4> QED
                BY <4>1, <3>3, <2>2
        <3> QED
            BY <3>1, <3>2, <3>3
    <2>4. Kept(s, x, m + 1, g)
        <3> HIDE DEF last
        <3>1. g = [i \in 0 .. m + 1 |-> g[i]]
            OBVIOUS
        <3> QED
            BY <2>3, <3>1 DEF Kept
    <2> QED
        BY <2>4
<1>3. Q = Nat
    <2> HIDE DEF Q
    <2>1. Q \in SUBSET Nat
        BY DEF Q
    <2> QED
        BY <1>1, <1>2, <2>1, Induct
<1> QED
    BY <1>3

LEMMA WithoutKept ==
    ASSUME NEW s, Len(s) \in Nat, NEW x
    PROVE  \E f : Kept(s, x, Len(s), f) /\ Without(s, x) = f[Len(s)]
<1> DEFINE f == CHOOSE g : Kept(s, x, Len(s), g)
<1>1. Kept(s, x, Len(s), f)
    BY KeptExists
<1>2. Without(s, x) = f[Len(s)]
    BY DEF Without, Kept
<1> QED
    BY <1>1, <1>2

-----------------------------------------------------------------------------
(* Which entries a list has, and which of them stands before which            *)

\* The entries stand in the list once each.
Distinct(s) == \A a : <<a, a>> \notin Before(s)

Occurs(s, a) == \E i \in 1 .. Len(s) : a = s[i]

InOrder(s, a, b) == \E i, j \in 1 .. Len(s) : i < j /\ a = s[i] /\ b = s[j]

LEMMA ToSetFacts ==
    ASSUME NEW S, NEW s \in Seq(S)
    PROVE  /\ \A a : a \in ToSet(s) <=> Occurs(s, a)
           /\ ToSet(s) \subseteq S
           /\ \A a, b : <<a, b>> \in Before(s) <=> InOrder(s, a, b)
           /\ \A a : Contains(s, a) <=> a \in ToSet(s)
<1>1. DOMAIN s = 1 .. Len(s) /\ Len(s) \in Nat
    OBVIOUS
<1>2. \A a : a \in ToSet(s) <=> Occurs(s, a)
    BY <1>1 DEF ToSet, Occurs, InOrder
<1>3. ToSet(s) \subseteq S
    BY <1>2 DEF Occurs, InOrder
<1>4. \A a, b : <<a, b>> \in Before(s) <=> InOrder(s, a, b)
    <2> TAKE a, b
    <2>1. <<a, b>> \in Before(s) => InOrder(s, a, b)
        BY <1>1 DEF Before, Occurs, InOrder
    <2>2. ASSUME NEW i \in 1 .. Len(s), NEW j \in 1 .. Len(s), i < j, a = s[i], b = s[j]
          PROVE  <<a, b>> \in Before(s)
        <3>1. a \in ToSet(s) /\ b \in ToSet(s)
            BY <2>2, <1>2 DEF Occurs, InOrder
        <3>2. j \in DOMAIN s /\ i \in 1 .. j - 1 /\ <<a, b>> = <<s[i], s[j]>>
            BY <2>2, <1>1
        <3> QED
            BY <3>1, <3>2 DEF Before
    <2> QED
        BY <2>1, <2>2 DEF Occurs, InOrder
<1>5. \A a : Contains(s, a) <=> a \in ToSet(s)
    BY <1>2 DEF Contains, Occurs, InOrder
<1> QED
    BY <1>2, <1>3, <1>4, <1>5

\* Every element of Before(s) is a pair.
LEMMA BeforePairs ==
    ASSUME NEW s
    PROVE  Before(s) \subseteq ToSet(s) \X ToSet(s)
BY DEF Before

\* Two sets of pairs that have the same pairs are the same.
LEMMA SamePairs ==
    ASSUME NEW A, NEW B, NEW R, R \subseteq A \X B, NEW Q, Q \subseteq A \X B,
           \A a \in A, b \in B : <<a, b>> \in R <=> <<a, b>> \in Q
    PROVE  R = Q
<1>1. \A p \in A \X B : p \in R <=> p \in Q
    <2> TAKE p \in A \X B
    <2>1. PICK a \in A, b \in B : p = <<a, b>>
        OBVIOUS
    <2> QED
        BY <2>1
<1> QED
    BY <1>1

LEMMA EmptyFacts ==
    /\ ToSet(<<>>) = {}
    /\ Before(<<>>) = {}
<1>1. ToSet(<<>>) = {}
    BY DEF ToSet
<1> QED
    BY <1>1, BeforePairs

LEMMA AppendFacts ==
    ASSUME NEW S, NEW s \in Seq(S), NEW e \in S
    PROVE  /\ Append(s, e) \in Seq(S)
           /\ Len(Append(s, e)) = Len(s) + 1
           /\ ToSet(Append(s, e)) = ToSet(s) \cup {e}
           /\ Before(Append(s, e)) = Before(s) \cup (ToSet(s) \X {e})
<1> DEFINE t == Append(s, e)
<1>1. /\ t \in Seq(S) /\ Len(t) = Len(s) + 1 /\ Len(s) \in Nat
      /\ t[Len(s) + 1] = e
      /\ \A i \in 1 .. Len(s) : t[i] = s[i]
    OBVIOUS
<1> HIDE DEF t
<1>2. ToSet(t) = ToSet(s) \cup {e}
    <2>1. \A a : a \in ToSet(t) <=> Occurs(t, a)
        BY <1>1, ToSetFacts
    <2>2. \A a : a \in ToSet(s) <=> Occurs(s, a)
        BY ToSetFacts
    <2>3. \A a : Occurs(t, a) <=> Occurs(s, a) \/ a = e
        BY <1>1 DEF Occurs, InOrder
    <2> QED
        BY <2>1, <2>2, <2>3
<1>3. Before(t) = Before(s) \cup (ToSet(s) \X {e})
    <2>1. \A a, b : <<a, b>> \in Before(t) <=> InOrder(t, a, b)
        <3>1. t \in Seq(S)
            BY <1>1
        <3> QED
            BY <3>1, ToSetFacts
    <2>2. \A a, b : <<a, b>> \in Before(s) <=> InOrder(s, a, b)
        BY ToSetFacts
    <2>3. \A a : a \in ToSet(s) <=> Occurs(s, a)
        BY ToSetFacts
    <2>4. \A a, b : InOrder(t, a, b) <=> InOrder(s, a, b) \/ (Occurs(s, a) /\ b = e)
        <3> TAKE a, b
        <3>1. ASSUME NEW i \in 1 .. Len(t), NEW j \in 1 .. Len(t), i < j, a = t[i], b = t[j]
              PROVE  \/ InOrder(s, a, b)
                     \/ Occurs(s, a) /\ b = e
            BY <3>1, <1>1 DEF Occurs, InOrder
        <3>2. ASSUME NEW i \in 1 .. Len(s), NEW j \in 1 .. Len(s), i < j, a = s[i], b = s[j]
              PROVE  InOrder(t, a, b)
            BY <3>2, <1>1 DEF Occurs, InOrder
        <3>3. ASSUME NEW i \in 1 .. Len(s), a = s[i], b = e
              PROVE  InOrder(t, a, b)
            <4>1. i \in 1 .. Len(t) /\ Len(t) \in 1 .. Len(t) /\ i < Len(t) /\ a = t[i] /\ b = t[Len(t)]
                BY <3>3, <1>1
            <4> QED
                BY <4>1 DEF Occurs, InOrder
        <3> QED
            BY <3>1, <3>2, <3>3 DEF Occurs, InOrder
    <2> DEFINE Q == Before(s) \cup (ToSet(s) \X {e})
    <2>0. \A a, b : <<a, b>> \in Q <=> <<a, b>> \in Before(s) \/ (a \in ToSet(s) /\ b = e)
        OBVIOUS
    <2> HIDE DEF Q
    <2>5. \A a, b : <<a, b>> \in Before(t) <=> <<a, b>> \in Q
        <3> TAKE a, b
        <3>1. <<a, b>> \in Q <=> <<a, b>> \in Before(s) \/ (a \in ToSet(s) /\ b = e)
            BY <2>0
        <3> QED
            BY <3>1, <2>1, <2>2, <2>3, <2>4, Zenon
    <2>6. /\ Before(t) \subseteq ToSet(t) \X ToSet(t)
          /\ Q \subseteq ToSet(t) \X ToSet(t)
        BY BeforePairs, <1>2 DEF Q
    <2>7. Before(t) = Q
        BY <2>5, <2>6, SamePairs
    <2> QED
        BY <2>7 DEF Q
<1> QED
    BY <1>1, <1>2, <1>3 DEF t

LEMMA TailFacts ==
    ASSUME NEW S, NEW s \in Seq(S), s # <<>>
    PROVE  /\ Tail(s) \in Seq(S)
           /\ Head(s) \in S
           /\ Len(Tail(s)) = Len(s) - 1
           /\ ToSet(s) = {Head(s)} \cup ToSet(Tail(s))
           /\ Before(s) = ({Head(s)} \X ToSet(Tail(s))) \cup Before(Tail(s))
<1> DEFINE t == Tail(s)
<1>1. /\ t \in Seq(S) /\ Len(s) = Len(t) + 1 /\ Len(t) \in Nat /\ Head(s) = s[1] /\ Head(s) \in S
      /\ \A i \in 1 .. Len(t) : t[i] = s[i + 1]
    OBVIOUS
<1> HIDE DEF t
<1>2. ToSet(s) = {Head(s)} \cup ToSet(t)
    <2>1. \A a : a \in ToSet(t) <=> Occurs(t, a)
        BY <1>1, ToSetFacts
    <2>2. \A a : a \in ToSet(s) <=> Occurs(s, a)
        BY ToSetFacts
    <2>3. \A a : Occurs(s, a) <=> Occurs(t, a) \/ a = Head(s)
        <3> TAKE a
        <3>1. ASSUME NEW i \in 1 .. Len(s), a = s[i]
              PROVE  Occurs(t, a) \/ a = Head(s)
            <4>1. CASE i = 1
                BY <4>1, <3>1, <1>1
            <4>2. CASE i # 1
                <5>1. i - 1 \in 1 .. Len(t) /\ a = t[i - 1]
                    BY <4>2, <3>1, <1>1
                <5> QED
                    BY <5>1 DEF Occurs, InOrder
            <4> QED
                BY <4>1, <4>2
        <3>2. ASSUME NEW i \in 1 .. Len(t), a = t[i]
              PROVE  Occurs(s, a)
            BY <3>2, <1>1 DEF Occurs, InOrder
        <3>3. 1 \in 1 .. Len(s) /\ Head(s) = s[1]
            BY <1>1
        <3> QED
            BY <3>1, <3>2, <3>3 DEF Occurs, InOrder
    <2> QED
        BY <2>1, <2>2, <2>3
<1>3. Before(s) = ({Head(s)} \X ToSet(t)) \cup Before(t)
    <2>1. \A a, b : <<a, b>> \in Before(t) <=> InOrder(t, a, b)
        <3>1. t \in Seq(S)
            BY <1>1
        <3> QED
            BY <3>1, ToSetFacts
    <2>2. \A a, b : <<a, b>> \in Before(s) <=> InOrder(s, a, b)
        BY ToSetFacts
    <2>3. \A a : a \in ToSet(t) <=> Occurs(t, a)
        BY <1>1, ToSetFacts
    <2>4. \A a, b : InOrder(s, a, b) <=> InOrder(t, a, b) \/ (a = Head(s) /\ Occurs(t, b))
        <3> TAKE a, b
        <3>1. ASSUME NEW i \in 1 .. Len(s), NEW j \in 1 .. Len(s), i < j, a = s[i], b = s[j]
              PROVE  \/ InOrder(t, a, b)
                     \/ a = Head(s) /\ Occurs(t, b)
            <4>1. j - 1 \in 1 .. Len(t) /\ b = t[j - 1]
                BY <3>1, <1>1
            <4>2. CASE i = 1
                BY <4>1, <4>2, <3>1, <1>1 DEF Occurs, InOrder
            <4>3. CASE i # 1
                <5>1. i - 1 \in 1 .. Len(t) /\ a = t[i - 1] /\ i - 1 < j - 1
                    BY <4>3, <3>1, <1>1
                <5> QED
                    BY <5>1, <4>1 DEF Occurs, InOrder
            <4> QED
                BY <4>2, <4>3
        <3>2. ASSUME NEW i \in 1 .. Len(t), NEW j \in 1 .. Len(t), i < j, a = t[i], b = t[j]
              PROVE  InOrder(s, a, b)
            <4>1. i + 1 \in 1 .. Len(s) /\ j + 1 \in 1 .. Len(s) /\ i + 1 < j + 1
                  /\ a = s[i + 1] /\ b = s[j + 1]
                BY <3>2, <1>1
            <4> QED
                BY <4>1 DEF Occurs, InOrder
        <3>3. ASSUME NEW i \in 1 .. Len(t), b = t[i], a = Head(s)
              PROVE  InOrder(s, a, b)
            <4>1. 1 \in 1 .. Len(s) /\ i + 1 \in 1 .. Len(s) /\ 1 < i + 1 /\ a = s[1] /\ b = s[i + 1]
                BY <3>3, <1>1
            <4> QED
                BY <4>1 DEF Occurs, InOrder
        <3> QED
            BY <3>1, <3>2, <3>3 DEF Occurs, InOrder
    <2> DEFINE Q == ({Head(s)} \X ToSet(t)) \cup Before(t)
    <2>0. \A a, b : <<a, b>> \in Q <=> <<a, b>> \in Before(t) \/ (a = Head(s) /\ b \in ToSet(t))
        OBVIOUS
    <2> HIDE DEF Q
    <2>5. \A a, b : <<a, b>> \in Before(s) <=> <<a, b>> \in Q
        <3> TAKE a, b
        <3>1. <<a, b>> \in Q <=> <<a, b>> \in Before(t) \/ (a = Head(s) /\ b \in ToSet(t))
            BY <2>0
        <3> QED
            BY <3>1, <2>1, <2>2, <2>3, <2>4, Zenon
    <2>6. /\ Before(s) \subseteq ToSet(s) \X ToSet(s)
          /\ Q \subseteq ToSet(s) \X ToSet(s)
        BY BeforePairs, <1>2 DEF Q
    <2>7. Before(s) = Q
        BY <2>5, <2>6, SamePairs
    <2> QED
        BY <2>7 DEF Q
<1> QED
    BY <1>1, <1>2, <1>3 DEF t

\* A list whose entries are distinct is as long as the set of them is large.
LEMMA DistinctCardinality ==
    ASSUME NEW S, NEW s \in Seq(S), Distinct(s)
    PROVE  IsFiniteSet(ToSet(s)) /\ Cardinality(ToSet(s)) = Len(s)
<1>1. s \in [1 .. Len(s) -> ToSet(s)] /\ Len(s) \in Nat
    BY ToSetFacts DEF Occurs, InOrder
<1>2. \A i, j \in 1 .. Len(s) : i < j => s[i] # s[j]
    BY ToSetFacts DEF Distinct, Occurs, InOrder
<1>3. \A i, j \in 1 .. Len(s) : s[i] = s[j] => i = j
    <2> TAKE i, j \in 1 .. Len(s)
    <2>1. i = j \/ i < j \/ j < i
        OBVIOUS
    <2> QED
        BY <2>1, <1>2
<1>4. \A a \in ToSet(s) : \E i \in 1 .. Len(s) : s[i] = a
    BY ToSetFacts DEF Occurs, InOrder
<1>5. s \in Bijection(1 .. Len(s), ToSet(s))
    BY <1>1, <1>3, <1>4 DEF Bijection, Injection, Surjection, IsInjective
<1>6. ExistsBijection(1 .. Len(s), ToSet(s))
    BY <1>5 DEF ExistsBijection
<1> QED
    BY <1>6, <1>1, FS_CountingElements, FS_NatBijection

\* What a filter keeps, and in which order.
LEMMA WithoutFacts ==
    ASSUME NEW S, NEW s \in Seq(S), NEW x
    PROVE  /\ Without(s, x) \in Seq(S)
           /\ Len(Without(s, x)) <= Len(s)
           /\ ToSet(Without(s, x)) = ToSet(s) \ {x}
           /\ Before(Without(s, x)) =
                  Before(s) \cap ((ToSet(s) \ {x}) \X (ToSet(s) \ {x}))
<1>1. Len(s) \in Nat /\ s \in [1 .. Len(s) -> S]
    OBVIOUS
<1>2. PICK f : Kept(s, x, Len(s), f) /\ Without(s, x) = f[Len(s)]
    BY <1>1, WithoutKept
<1> DEFINE head(i) == SubSeq(s, 1, i)
           rest(i) == ToSet(head(i)) \ {x}
           Good(i) == /\ f[i] \in Seq(S) /\ Len(f[i]) <= i
                      /\ ToSet(f[i]) = rest(i)
                      /\ Before(f[i]) = Before(head(i)) \cap (rest(i) \X rest(i))
           Q == {i \in Nat : i <= Len(s) => Good(i)}
<1>3. /\ f[0] = <<>>
      /\ \A i \in 1 .. Len(s) : f[i] = IF s[i] = x THEN f[i - 1] ELSE Append(f[i - 1], s[i])
    <2>1. \A i \in 0 .. Len(s) : f[i] = IF i = 0 THEN <<>>
                                       ELSE IF s[i] = x THEN f[i - 1]
                                       ELSE Append(f[i - 1], s[i])
        BY <1>1, <1>2 DEF Kept
    <2>2. 0 \in 0 .. Len(s) /\ \A i \in 1 .. Len(s) : i \in 0 .. Len(s) /\ i # 0
        BY <1>1
    <2> QED
        BY <2>1, <2>2
<1>4. 0 \in Q
    <2>1. head(0) = <<>> /\ f[0] = <<>> /\ f[0] \in Seq(S) /\ Len(f[0]) <= 0
        BY <1>1, <1>3
    <2>2. Good(0)
        <3> HIDE DEF head
        <3>1. rest(0) = {} /\ ToSet(f[0]) = {} /\ Before(f[0]) = {}
            BY <2>1, EmptyFacts
        <3> QED
            BY <2>1, <3>1
    <2> QED
        BY <2>2
<1>5. ASSUME NEW i \in Q
      PROVE  i + 1 \in Q
    <2>1. SUFFICES ASSUME i + 1 <= Len(s) PROVE Good(i + 1)
        OBVIOUS
    <2>2. i \in Nat /\ Good(i)
        BY <2>1, <1>1
    <2> DEFINE e == s[i + 1]
    <2>3. head(i) \in Seq(S) /\ e \in S /\ head(i + 1) = Append(head(i), e)
        BY <2>1, <2>2, <1>1
    <2>4. f[i + 1] = IF e = x THEN f[i] ELSE Append(f[i], e)
        <3>1. i + 1 \in 1 .. Len(s) /\ (i + 1) - 1 = i
            BY <2>1, <2>2, <1>1
        <3>2. f[i + 1] = IF s[i + 1] = x THEN f[(i + 1) - 1] ELSE Append(f[(i + 1) - 1], s[i + 1])
            BY <3>1, <1>3
        <3> QED
            BY <3>1, <3>2
    <2> DEFINE H == ToSet(head(i))
               B == Before(head(i))
    <2> HIDE DEF head, e
    <2>5. ToSet(head(i + 1)) = H \cup {e} /\ Before(head(i + 1)) = B \cup (H \X {e})
        <3>1. /\ ToSet(Append(head(i), e)) = H \cup {e}
              /\ Before(Append(head(i), e)) = B \cup (H \X {e})
            BY ONLY <2>3, AppendFacts DEF H, B
        <3> QED
            BY <3>1, <2>3
    <2>6. B \subseteq H \X H
        BY BeforePairs
    <2>7. /\ f[i] \in Seq(S) /\ Len(f[i]) \in Nat /\ Len(f[i]) <= i
          /\ ToSet(f[i]) = H \ {x} /\ Before(f[i]) = B \cap ((H \ {x}) \X (H \ {x}))
        BY <2>2
    <2> HIDE DEF H, B
    <2>8. CASE e = x
        <3>1. f[i + 1] = f[i] /\ rest(i + 1) = H \ {x}
            BY <2>8, <2>4, <2>5
        <3>2. Before(head(i + 1)) \cap ((H \ {x}) \X (H \ {x})) = B \cap ((H \ {x}) \X (H \ {x}))
            BY <2>8, <2>5
        <3> QED
            BY <3>1, <3>2, <2>7, <2>2
    <2>9. CASE e # x
        <3>1. f[i + 1] = Append(f[i], e) /\ rest(i + 1) = (H \ {x}) \cup {e}
            BY <2>9, <2>4, <2>5
        <3>2. /\ f[i + 1] \in Seq(S) /\ Len(f[i + 1]) = Len(f[i]) + 1
              /\ ToSet(f[i + 1]) = (H \ {x}) \cup {e}
              /\ Before(f[i + 1]) = (B \cap ((H \ {x}) \X (H \ {x}))) \cup ((H \ {x}) \X {e})
            BY <3>1, <2>3, <2>7, AppendFacts
        <3>3. Before(head(i + 1)) \cap (rest(i + 1) \X rest(i + 1)) =
                  (B \cap ((H \ {x}) \X (H \ {x}))) \cup ((H \ {x}) \X {e})
            <4> DEFINE K == H \ {x}
                       R == (B \cup (H \X {e})) \cap ((K \cup {e}) \X (K \cup {e}))
                       T == (B \cap (K \X K)) \cup (K \X {e})
            <4>1. R = T
                BY <2>6, <2>9
            <4> QED
                BY <4>1, <3>1, <2>5
        <3> QED
            BY <3>1, <3>2, <3>3, <2>7, <2>2
    <2> QED
        BY <2>8, <2>9
<1>6. Q = Nat
    <2> HIDE DEF Q
    <2>1. Q \in SUBSET Nat
        BY DEF Q
    <2> QED
        BY <1>4, <1>5, <2>1, Induct
<1>7. Good(Len(s)) /\ head(Len(s)) = s
    <2>1. Len(s) \in Q
        BY <1>1, <1>6
    <2>2. head(Len(s)) = s
        BY <1>1
    <2> QED
        BY <2>1, <2>2, <1>1
<1> QED
    BY <1>2, <1>7

-----------------------------------------------------------------------------
(* Types, and lists that match the history                                    *)

\* The bootnodes stand in their list once each, and there is room for them.
NodesInv == nodes \in Seq(Addrs) /\ Len(nodes) <= NodesCap /\ Distinct(nodes)

TypeInv ==
    /\ NodesInv
    /\ accounts \in [DIDs -> AccountInfo \cup {NoAccount}]
    /\ subscribers \in [DIDs -> Seq(Addrs)]
    /\ restricted \in [DIDs -> Seq(DIDs)]
    /\ blocking \subseteq DIDs \X DIDs

LEMMA TypeInvTypeOK == TypeInv => TypeOK
<1> SUFFICES ASSUME TypeInv PROVE nodes \in UpTo(Addrs, NodesCap)
    BY DEF TypeInv, TypeOK
<1>1. Len(nodes) \in 0 .. NodesCap /\ nodes \in [1 .. Len(nodes) -> Addrs]
    BY DEF TypeInv, NodesInv
<1> QED
    BY <1>1 DEF UpTo

LEMMA TypeInit == Init => TypeInv
<1> SUFFICES ASSUME Init PROVE TypeInv
    OBVIOUS
<1>1. NodesInv
    BY EmptyFacts DEF Init, NodesInv, Distinct
<1> QED
    BY <1>1 DEF Init, TypeInv

\* The registry counts its bootnodes as everyone does.
LEMMA RegistryCounts ==
    ASSUME NEW S
    PROVE  Registry!Cardinality(S) = Cardinality(S)
BY DEF Registry!Cardinality, Cardinality, Registry!IsFiniteSet, IsFiniteSet

\* The bootnodes left when room is made for another one.
Roomy == IF Len(nodes) >= NodesCap THEN Tail(nodes) ELSE nodes

LEMMA RoomyFacts ==
    ASSUME NodesInv
    PROVE  /\ Roomy \in Seq(Addrs) /\ Len(Roomy) < NodesCap /\ Distinct(Roomy)
           /\ ToSet(Roomy) = ToSet(nodes) \ Registry!Crowded
           /\ Before(Roomy) = Before(nodes) \cap (ToSet(Roomy) \X ToSet(Roomy))
<1>1. nodes \in Seq(Addrs) /\ Len(nodes) \in Nat /\ Len(nodes) <= NodesCap /\ Distinct(nodes)
    BY DEF NodesInv
<1>2. Cardinality(ToSet(nodes)) = Len(nodes)
    BY <1>1, DistinctCardinality
<1>3. CASE Len(nodes) < NodesCap
    <2>1. Roomy = nodes
        BY <1>1, <1>3 DEF Roomy
    <2>0. ToSet(nodes) \ {} = ToSet(nodes)
        OBVIOUS
    <2>2. Registry!Crowded = {}
        BY <1>2, <1>3, RegistryCounts DEF Registry!Crowded, GetNodeAddresses
    <2>3. Before(nodes) = Before(nodes) \cap (ToSet(nodes) \X ToSet(nodes))
        <3>1. Before(nodes) \subseteq ToSet(nodes) \X ToSet(nodes)
            BY BeforePairs
        <3> QED
            BY <3>1
    <2> QED
        BY <2>0, <2>1, <2>2, <2>3, <1>1, <1>3
<1>4. CASE ~(Len(nodes) < NodesCap)
    <2>1. Roomy = Tail(nodes) /\ nodes # <<>> /\ Len(nodes) = NodesCap
        BY <1>1, <1>4 DEF Roomy
    <2> DEFINE h == Head(nodes)
               r == ToSet(Roomy)
    <2>2. /\ Roomy \in Seq(Addrs) /\ Len(Roomy) = Len(nodes) - 1
          /\ ToSet(nodes) = {h} \cup r
          /\ Before(nodes) = ({h} \X r) \cup Before(Roomy)
        BY <1>1, <2>1, TailFacts
    <2>3. Before(Roomy) \subseteq r \X r
        BY BeforePairs
    <2>4. h \notin r
        BY <1>1, <2>2 DEF Distinct
    <2>5. Registry!Crowded = {a \in ToSet(nodes) : \A b \in ToSet(nodes) : <<b, a>> \notin Before(nodes)}
        BY <1>2, <1>4, RegistryCounts DEF Registry!Crowded, GetNodeAddresses
    <2>6. Registry!Crowded = {h}
        <3> HIDE DEF h, r
        <3>1. \A a \in r : <<h, a>> \in Before(nodes)
            BY <2>2
        <3>2. \A b : <<b, h>> \notin Before(nodes)
            BY <2>2, <2>3, <2>4
        <3> QED
            BY <2>2, <2>5, <3>1, <3>2
    <2>7. Distinct(Roomy)
        BY <1>1, <2>2 DEF Distinct
    <2>8. Before(Roomy) = Before(nodes) \cap (r \X r)
        <3> HIDE DEF h, r
        <3> QED
            BY <2>2, <2>3, <2>4
    <2>9. r = ToSet(nodes) \ {h}
        BY <2>2, <2>4
    <2> QED
        BY <2>1, <2>2, <2>6, <2>7, <2>8, <2>9, <1>1
<1> QED
    BY <1>3, <1>4

LEMMA AddAddressNodes ==
    ASSUME NodesInv, NEW addr \in Addrs, AddAddress(addr)
    PROVE  /\ NodesInv'
           /\ ToSet(nodes') = ToSet(Roomy) \cup {addr}
           /\ Before(nodes') = Before(Roomy) \cup (ToSet(Roomy) \X {addr})
           /\ addr \notin ToSet(nodes)
<1>1. /\ Roomy \in Seq(Addrs) /\ Len(Roomy) < NodesCap /\ Distinct(Roomy)
      /\ ToSet(Roomy) \subseteq ToSet(nodes)
    BY RoomyFacts
<1>2. nodes' = Append(Roomy, addr) /\ addr \notin ToSet(nodes)
    BY ToSetFacts DEF AddAddress, Roomy, NodesInv
<1>3. /\ nodes' \in Seq(Addrs)
      /\ Len(nodes') = Len(Roomy) + 1
      /\ ToSet(nodes') = ToSet(Roomy) \cup {addr}
      /\ Before(nodes') = Before(Roomy) \cup (ToSet(Roomy) \X {addr})
    BY <1>1, <1>2, AppendFacts
<1>4. Distinct(nodes')
    BY <1>1, <1>2, <1>3 DEF Distinct
<1> QED
    BY <1>1, <1>2, <1>3, <1>4 DEF NodesInv

LEMMA RemoveAddressNodes ==
    ASSUME NodesInv, NEW addr \in Addrs, RemoveAddress(addr)
    PROVE  /\ NodesInv'
           /\ ToSet(nodes') = ToSet(nodes) \ {addr}
           /\ Before(nodes') = Before(nodes) \cap (ToSet(nodes') \X ToSet(nodes'))
<1>1. /\ nodes' \in Seq(Addrs) /\ Len(nodes') <= Len(nodes) /\ Len(nodes) <= NodesCap
      /\ ToSet(nodes') = ToSet(nodes) \ {addr}
      /\ Before(nodes') = Before(nodes) \cap (ToSet(nodes') \X ToSet(nodes'))
    BY WithoutFacts DEF RemoveAddress, NodesInv
<1>2. Distinct(nodes')
    BY <1>1 DEF Distinct, NodesInv
<1> QED
    BY <1>1, <1>2 DEF NodesInv

LEMMA NodesSame ==
    ASSUME UNCHANGED nodes
    PROVE  /\ NodesInv => NodesInv'
           /\ ToSet(nodes') = ToSet(nodes) /\ Before(nodes') = Before(nodes)
BY DEF NodesInv

LEMMA TypeStep == TypeInv /\ [Next]_vars => TypeInv'
<1> SUFFICES ASSUME TypeInv, [Next]_vars PROVE TypeInv'
    OBVIOUS
<1> USE DEF TypeInv
<1>1. ASSUME NEW addr \in Addrs, AddAddress(addr) PROVE TypeInv'
    BY <1>1, AddAddressNodes DEF AddAddress
<1>2. ASSUME NEW addr \in Addrs, RemoveAddress(addr) PROVE TypeInv'
    BY <1>2, RemoveAddressNodes DEF RemoveAddress
<1>3. ASSUME NEW did \in DIDs, NEW cid \in CIDs, NEW auth \in Auths, NewAccount(did, cid, auth)
      PROVE  TypeInv'
    BY <1>3, NodesSame DEF NewAccount, AccountInfo
<1>4. ASSUME NEW did \in DIDs, NEW cid \in CIDs, UpdateAccountHtCid(did, cid)
      PROVE  TypeInv'
    <2>1. accounts[did] \in AccountInfo
        BY <1>4 DEF UpdateAccountHtCid, CheckDidExistence
    <2>2. [accounts[did] EXCEPT !.hashtable_cid = cid] \in AccountInfo
        BY <2>1 DEF AccountInfo
    <2> QED
        BY <1>4, <2>2, NodesSame DEF UpdateAccountHtCid
<1>5. ASSUME NEW did \in DIDs, NEW addr \in Addrs, SubscribeNode(did, addr)
      PROVE  TypeInv'
    BY <1>5, NodesSame DEF SubscribeNode
<1>6. ASSUME NEW did \in DIDs, NEW addr \in Addrs, UnsubscribeNode(did, addr)
      PROVE  TypeInv'
    <2>1. Without(subscribers[did], addr) \in Seq(Addrs)
        BY WithoutFacts
    <2> QED
        BY <1>6, <2>1, NodesSame DEF UnsubscribeNode
<1>7. ASSUME NEW user \in DIDs, NEW app \in DIDs, RestrictAccess(user, app)
      PROVE  TypeInv'
    BY <1>7, NodesSame DEF RestrictAccess
<1>8. ASSUME NEW user \in DIDs, NEW app \in DIDs, UnrestrictAccess(user, app)
      PROVE  TypeInv'
    <2>1. Without(restricted[app], user) \in Seq(DIDs)
        BY WithoutFacts
    <2> QED
        BY <1>8, <2>1, NodesSame DEF UnrestrictAccess
<1>9. CASE UNCHANGED vars
    BY <1>9, NodesSame DEF vars
<1> QED
    BY <1>1, <1>2, <1>3, <1>4, <1>5, <1>6, <1>7, <1>8, <1>9 DEF Next

(* The lists, maps and bootnodes of the contract are what their types say:    *)
(* there are never more bootnodes than places for them.                       *)
THEOREM TypeCorrect == Spec => []TypeOK
<1>1. Spec => []TypeInv
    BY TypeInit, TypeStep, PTL DEF Spec
<1> QED
    BY <1>1, TypeInvTypeOK, PTL

\* What the list says; what is_restricted answers goes with it.
ListDecides ==
    \A user, app \in DIDs :
        user \in ToSet(GetRestrictionList(app)) <=> <<user, app>> \in blocking

LEMMA AnswerGoesWithList == TypeInv /\ ListDecides => LastMessageDecides
<1>1. ASSUME NEW s \in Seq(DIDs), NEW e PROVE Contains(s, e) <=> e \in ToSet(s)
    BY DEF Contains, ToSet
<1> QED
    BY <1>1 DEF TypeInv, ListDecides, LastMessageDecides, GetRestrictionList, IsRestricted

LEMMA HistoryStep == TypeInv /\ ListDecides /\ [Next]_vars => ListDecides'
<1> SUFFICES ASSUME TypeInv, ListDecides, [Next]_vars PROVE ListDecides'
    OBVIOUS
<1>0. /\ restricted \in [DIDs -> Seq(DIDs)]
      /\ \A user, app \in DIDs : user \in ToSet(restricted[app]) <=> <<user, app>> \in blocking
    BY DEF TypeInv, ListDecides, GetRestrictionList
<1>1. ASSUME NEW user \in DIDs, NEW app \in DIDs, RestrictAccess(user, app)
      PROVE  ListDecides'
    <2>1. ToSet(Append(restricted[app], user)) = ToSet(restricted[app]) \cup {user}
        BY <1>0, AppendFacts
    <2>2. \A a \in DIDs : restricted'[a] = IF a = app THEN Append(restricted[app], user) ELSE restricted[a]
        BY <1>0, <1>1 DEF RestrictAccess
    <2>3. blocking' = blocking \cup {<<user, app>>}
        BY <1>1 DEF RestrictAccess
    <2>4. ASSUME NEW u \in DIDs, NEW a \in DIDs
          PROVE  u \in ToSet(restricted'[a]) <=> <<u, a>> \in blocking'
        <3>1. CASE a = app
            BY <3>1, <1>0, <2>1, <2>2, <2>3
        <3>2. CASE a # app
            BY <3>2, <1>0, <2>2, <2>3
        <3> QED
            BY <3>1, <3>2
    <2> QED
        BY <2>4 DEF ListDecides, GetRestrictionList
<1>2. ASSUME NEW user \in DIDs, NEW app \in DIDs, UnrestrictAccess(user, app)
      PROVE  ListDecides'
    <2>1. ToSet(Without(restricted[app], user)) = ToSet(restricted[app]) \ {user}
        BY <1>0, WithoutFacts
    <2>2. \A a \in DIDs : restricted'[a] = IF a = app THEN Without(restricted[app], user) ELSE restricted[a]
        BY <1>0, <1>2 DEF UnrestrictAccess
    <2>3. blocking' = blocking \ {<<user, app>>}
        BY <1>2 DEF UnrestrictAccess
    <2>4. ASSUME NEW u \in DIDs, NEW a \in DIDs
          PROVE  u \in ToSet(restricted'[a]) <=> <<u, a>> \in blocking'
        <3>1. CASE a = app
            BY <3>1, <1>0, <2>1, <2>2, <2>3
        <3>2. CASE a # app
            BY <3>2, <1>0, <2>2, <2>3
        <3> QED
            BY <3>1, <3>2
    <2> QED
        BY <2>4 DEF ListDecides, GetRestrictionList
<1>3. ASSUME UNCHANGED <<restricted, blocking>> PROVE ListDecides'
    BY <1>3 DEF ListDecides, GetRestrictionList
<1> QED
    BY <1>1, <1>2, <1>3 DEF Next, vars, AddAddress, RemoveAddress, NewAccount,
       UpdateAccountHtCid, SubscribeNode, UnsubscribeNode

(* A user stands on the restriction list of an application, and is_restricted *)
(* finds them there, just when the last message about the two was restrict.   *)
THEOREM LastMessageCorrect == Spec => []LastMessageDecides
<1>1. Init => ListDecides
    BY EmptyFacts DEF Init, ListDecides, GetRestrictionList
<1>2. Spec => []TypeInv
    BY TypeInit, TypeStep, PTL DEF Spec
<1> QED
    BY <1>1, <1>2, HistoryStep, AnswerGoesWithList, PTL DEF Spec

-----------------------------------------------------------------------------
(* The registry of sets                                                       *)

\* What the mapping makes of the subscribers and of the restricted.
Members == [did \in DIDs |-> ToSet(GetSubscribers(did))]

Blocked ==
    {pair \in DIDs \X DIDs : pair[1] \in ToSet(GetRestrictionList(pair[2]))}

LEMMA RegistryInit == Init => Registry!Init
BY EmptyFacts DEF Init, Registry!Init, GetNodeAddresses, GetSubscribers, GetRestrictionList

\* A change of one list is a change of one set.
LEMMA MembersChange ==
    ASSUME subscribers \in [DIDs -> Seq(Addrs)], NEW did \in DIDs, NEW list,
           subscribers' = [subscribers EXCEPT ![did] = list]
    PROVE  Members' = [Members EXCEPT ![did] = ToSet(list)]
BY DEF Members, GetSubscribers

LEMMA BlockedMembers ==
    \A user, app \in DIDs : <<user, app>> \in Blocked <=> user \in ToSet(restricted[app])
BY DEF Blocked, GetRestrictionList

LEMMA BlockedChange ==
    ASSUME restricted \in [DIDs -> Seq(DIDs)], NEW user \in DIDs, NEW app \in DIDs, NEW list,
           restricted' = [restricted EXCEPT ![app] = list]
    PROVE  /\ ToSet(list) = ToSet(restricted[app]) \cup {user} =>
                  Blocked' = Blocked \cup {<<user, app>>}
           /\ ToSet(list) = ToSet(restricted[app]) \ {user} =>
                  Blocked' = Blocked \ {<<user, app>>}
<1>1. \A u, a \in DIDs : /\ <<u, a>> \in Blocked <=> u \in ToSet(restricted[a])
                         /\ <<u, a>> \in Blocked' <=> u \in ToSet(restricted'[a])
    BY DEF Blocked, GetRestrictionList
<1>2. \A a \in DIDs : restricted'[a] = IF a = app THEN list ELSE restricted[a]
    OBVIOUS
<1>3. /\ Blocked \subseteq DIDs \X DIDs /\ Blocked' \subseteq DIDs \X DIDs
      /\ Blocked \cup {<<user, app>>} \subseteq DIDs \X DIDs
      /\ Blocked \ {<<user, app>>} \subseteq DIDs \X DIDs
    BY DEF Blocked
<1>4. ASSUME ToSet(list) = ToSet(restricted[app]) \cup {user}
      PROVE  Blocked' = Blocked \cup {<<user, app>>}
    <2>1. \A u, a \in DIDs : <<u, a>> \in Blocked' <=> <<u, a>> \in Blocked \cup {<<user, app>>}
        BY <1>1, <1>2, <1>4
    <2> QED
        BY <2>1, <1>3, SamePairs
<1>5. ASSUME ToSet(list) = ToSet(restricted[app]) \ {user}
      PROVE  Blocked' = Blocked \ {<<user, app>>}
    <2>1. \A u, a \in DIDs : <<u, a>> \in Blocked' <=> <<u, a>> \in Blocked \ {<<user, app>>}
        BY <1>1, <1>2, <1>5
    <2> QED
        BY <2>1, <1>3, SamePairs
<1> QED
    BY <1>4, <1>5

\* Lists that stay are sets that stay.
LEMMA MembersSame == UNCHANGED subscribers => UNCHANGED Members
BY DEF Members, GetSubscribers

LEMMA BlockedSame == UNCHANGED restricted => UNCHANGED Blocked
BY DEF Blocked, GetRestrictionList

\* Every message of the contract is one of the registry's operations.
LEMMA RegistryStep ==
    TypeInv /\ [Next]_vars => [Registry!Next]_(Registry!vars)
<1> SUFFICES ASSUME TypeInv, [Next]_vars
             PROVE  Registry!Next \/ UNCHANGED Registry!vars
    OBVIOUS
<1>0. /\ NodesInv
      /\ subscribers \in [DIDs -> Seq(Addrs)]
      /\ restricted \in [DIDs -> Seq(DIDs)]
    BY DEF TypeInv
<1>1. ASSUME NEW addr \in Addrs, AddAddress(addr)
      PROVE  Registry!AddAddress(addr)
    <2>1. UNCHANGED <<accounts, Members, Blocked>>
        BY <1>1, MembersSame, BlockedSame DEF AddAddress
    <2>2. /\ addr \notin ToSet(nodes)
          /\ ToSet(nodes') = (ToSet(nodes) \ Registry!Crowded) \cup {addr}
          /\ Before(nodes') =
                 (Before(nodes) \cap ((ToSet(nodes) \ Registry!Crowded)
                                         \X (ToSet(nodes) \ Registry!Crowded)))
                     \cup ((ToSet(nodes) \ Registry!Crowded) \X {addr})
        BY <1>0, <1>1, RoomyFacts, AddAddressNodes
    <2> QED
        BY <2>1, <2>2 DEF Registry!AddAddress, GetNodeAddresses, Members, Blocked
<1>2. ASSUME NEW addr \in Addrs, RemoveAddress(addr)
      PROVE  Registry!RemoveAddress(addr)
    <2>1. UNCHANGED <<accounts, Members, Blocked>>
        BY <1>2, MembersSame, BlockedSame DEF RemoveAddress
    <2>2. /\ ToSet(nodes') = ToSet(nodes) \ {addr}
          /\ Before(nodes') =
                 Before(nodes) \cap ((ToSet(nodes) \ {addr}) \X (ToSet(nodes) \ {addr}))
        BY <1>0, <1>2, RemoveAddressNodes
    <2> QED
        BY <2>1, <2>2 DEF Registry!RemoveAddress, GetNodeAddresses, Members, Blocked
<1>3. ASSUME NEW did \in DIDs, NEW cid \in CIDs, NEW auth \in Auths, NewAccount(did, cid, auth)
      PROVE  Registry!NewAccount(did, cid, auth)
    <2>1. UNCHANGED <<nodes, Members, Blocked>>
        BY <1>3, MembersSame, BlockedSame DEF NewAccount
    <2> QED
        BY <1>3, <2>1, NodesSame
        DEF NewAccount, Registry!NewAccount, GetNodeAddresses, Members, Blocked
<1>4. ASSUME NEW did \in DIDs, NEW cid \in CIDs, UpdateAccountHtCid(did, cid)
      PROVE  Registry!UpdateCid(did, cid)
    <2>1. UNCHANGED <<nodes, Members, Blocked>>
        BY <1>4, MembersSame, BlockedSame DEF UpdateAccountHtCid
    <2> QED
        BY <1>4, <2>1, NodesSame
        DEF UpdateAccountHtCid, CheckDidExistence, Registry!UpdateCid, Registry!Exists,
            GetNodeAddresses, Members, Blocked
<1>5. ASSUME NEW did \in DIDs, NEW addr \in Addrs, SubscribeNode(did, addr)
      PROVE  Registry!Join(did, addr)
    <2>1. UNCHANGED <<nodes, accounts, Blocked>>
        BY <1>5, BlockedSame DEF SubscribeNode
    <2>2. ToSet(Append(subscribers[did], addr)) = Members[did] \cup {addr}
        BY <1>0, AppendFacts DEF Members, GetSubscribers
    <2>3. Members' = [Members EXCEPT ![did] = Members[did] \cup {addr}]
        BY <1>0, <1>5, <2>2, MembersChange DEF SubscribeNode
    <2> QED
        BY <2>1, <2>3, NodesSame DEF Registry!Join, GetNodeAddresses, Members, Blocked
<1>6. ASSUME NEW did \in DIDs, NEW addr \in Addrs, UnsubscribeNode(did, addr)
      PROVE  Registry!Leave(did, addr)
    <2>1. UNCHANGED <<nodes, accounts, Blocked>>
        BY <1>6, BlockedSame DEF UnsubscribeNode
    <2>2. ToSet(Without(subscribers[did], addr)) = Members[did] \ {addr}
        BY <1>0, WithoutFacts DEF Members, GetSubscribers
    <2>3. Members' = [Members EXCEPT ![did] = Members[did] \ {addr}]
        BY <1>0, <1>6, <2>2, MembersChange DEF UnsubscribeNode
    <2> QED
        BY <2>1, <2>3, NodesSame DEF Registry!Leave, GetNodeAddresses, Members, Blocked
<1>7. ASSUME NEW user \in DIDs, NEW app \in DIDs, RestrictAccess(user, app)
      PROVE  Registry!Block(user, app)
    <2>1. UNCHANGED <<nodes, accounts, Members>>
        BY <1>7, MembersSame DEF RestrictAccess
    <2>2. ToSet(Append(restricted[app], user)) = ToSet(restricted[app]) \cup {user}
        BY <1>0, AppendFacts
    <2>3. Blocked' = Blocked \cup {<<user, app>>}
        BY <1>0, <1>7, <2>2, BlockedChange DEF RestrictAccess
    <2> QED
        BY <1>7, <2>1, <2>3, NodesSame
        DEF RestrictAccess, CheckDidExistence, Registry!Block, Registry!Exists,
            GetNodeAddresses, Members, Blocked
<1>8. ASSUME NEW user \in DIDs, NEW app \in DIDs, UnrestrictAccess(user, app)
      PROVE  Registry!Unblock(user, app)
    <2>1. UNCHANGED <<nodes, accounts, Members>>
        BY <1>8, MembersSame DEF UnrestrictAccess
    <2>2. ToSet(Without(restricted[app], user)) = ToSet(restricted[app]) \ {user}
        BY <1>0, WithoutFacts
    <2>3. Blocked' = Blocked \ {<<user, app>>}
        BY <1>0, <1>8, <2>2, BlockedChange DEF UnrestrictAccess
    <2> QED
        BY <2>1, <2>3, NodesSame DEF Registry!Unblock, GetNodeAddresses, Members, Blocked
<1>9. CASE UNCHANGED vars
    <2>1. UNCHANGED <<nodes, accounts, Members, Blocked>>
        BY <1>9, MembersSame, BlockedSame DEF vars
    <2> QED
        BY <2>1, NodesSame DEF Registry!vars, GetNodeAddresses, Members, Blocked
<1> QED
    BY <1>1, <1>2, <1>3, <1>4, <1>5, <1>6, <1>7, <1>8, <1>9 DEF Next, Registry!Next

(* The contract implements the registry of sets: its sequences, checks and    *)
(* filters never keep an entry twice that counts, never drop another one than *)
(* the message names, and make room among the bootnodes by letting only the   *)
(* one listed for longest go.                                                 *)
THEOREM RegistryCorrect == Spec => RegistryKept
<1>1. Spec => []TypeInv
    BY TypeInit, TypeStep, PTL DEF Spec
<1> QED
    BY <1>1, RegistryInit, RegistryStep, PTL DEF Spec, RegistryKept, Registry!Spec
=============================================================================
