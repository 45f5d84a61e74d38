----------------------------- MODULE DataFacts -----------------------------
(***************************************************************************)
(* Facts about data that several proofs cite: the remainder of a sum cut   *)
(* to a width; induction over the natural numbers as a fact about sets,    *)
(* which the provers can instantiate (the library states it for an         *)
(* operator); and by it that the recursive functions over a sequence       *)
(* exist and what they give: a sum of sizes is a size and no smaller than  *)
(* any of them, and a flattened list of lists has what each of them has.   *)
(***************************************************************************)
EXTENDS Integers, Sequences, SequencesExt, FiniteSetTheorems, SequenceTheorems, TLAPS

(* A u32 that is not exceeded does not wrap.                               *)
LEMMA ModSmall ==
  ASSUME NEW a \in Nat, NEW m \in Nat, a < m
  PROVE  a % m = a
BY Z3

(* A u32 stays a u32.                                                      *)
LEMMA ModRange ==
  ASSUME NEW a \in Nat, NEW m \in Nat, m > 0
  PROVE  a % m \in 0 .. m - 1
OBVIOUS

(* A positive multiple is no smaller.                                      *)
LEMMA MultipleIsLarger ==
  ASSUME NEW m \in Nat, NEW d \in Int, m > 0, d >= 1
  PROVE  m * d >= m
<1>1. m * d - m = m * (d - 1)
  BY Z3
<1>2. m * (d - 1) >= 0
  BY Z3
<1>3. QED
  BY <1>1, <1>2, Z3

(* The quotient and the remainder make up the number.                      *)
LEMMA DivMod ==
  ASSUME NEW a \in Nat, NEW m \in Nat, m > 0
  PROVE  a = m * (a \div m) + (a % m) /\ a \div m \in Int /\ a % m \in 0 .. m - 1
BY Z3

(* There is one remainder only.                                            *)
LEMMA RemainderUnique ==
  ASSUME NEW m \in Nat, m > 0, NEW q \in Int, NEW p \in Int,
         NEW r \in 0 .. m - 1, NEW s \in 0 .. m - 1, m * q + r = m * p + s
  PROVE  r = s
<1>1. CASE q = p
  BY <1>1, Z3
<1>2. CASE q > p
  <2>1. m * (q - p) >= m
    BY <1>2, MultipleIsLarger
  <2>2. m * (q - p) = s - r
    BY Z3
  <2>3. QED
    BY <2>1, <2>2, Z3
<1>3. CASE p > q
  <2>1. m * (p - q) >= m
    BY <1>3, MultipleIsLarger
  <2>2. m * (p - q) = r - s
    BY Z3
  <2>3. QED
    BY <2>1, <2>2, Z3
<1>4. QED
  BY <1>1, <1>2, <1>3

(* Casting to a u32 before a wrapping addition changes nothing.            *)
LEMMA ModAdd ==
  ASSUME NEW a \in Nat, NEW b \in Nat, NEW m \in Nat, m > 0
  PROVE  (a + (b % m)) % m = (a + b) % m
<1> DEFINE qb == b \div m
           rb == b % m
           c == a + rb
           qc == c \div m
           rc == c % m
           d == a + b
           qd == d \div m
           rd == d % m
<1>1. b = m * qb + rb /\ qb \in Int /\ rb \in 0 .. m - 1
  BY DivMod
<1>2. c \in Nat /\ d \in Nat
  BY <1>1
<1> HIDE DEF c, d
<1>3. c = m * qc + rc /\ qc \in Int /\ rc \in 0 .. m - 1
  BY DivMod, <1>2
<1>4. d = m * qd + rd /\ qd \in Int /\ rd \in 0 .. m - 1
  BY DivMod, <1>2
<1> HIDE DEF qb, rb, qc, rc, qd, rd
<1>5. d = m * (qb + qc) + rc
  <2>1. m * (qb + qc) = m * qb + m * qc
    BY <1>1, <1>3, Z3
  <2>2. d = c + m * qb
    BY <1>1, Z3 DEF c, d
  <2>3. QED
    BY <2>1, <2>2, <1>1, <1>3, Z3
<1>6. qb + qc \in Int
  BY <1>1, <1>3
<1>7. rc = rd
  BY RemainderUnique, <1>3, <1>4, <1>5, <1>6
<1>8. QED
  BY <1>7 DEF rc, rd, c, d, rb

-----------------------------------------------------------------------------
(* A set of natural numbers has a least one: of the initial segments that  *)
(* end in the set one has no other inside.                                 *)
LEMMA LeastNumber ==
  ASSUME NEW T, T \subseteq Nat, T # {}
  PROVE  \E m \in T : \A k \in T : m <= k
<1> DEFINE Segments == {0 .. m : m \in T}
<1>1. Segments \subseteq FiniteSubsetsOf(Nat)
  <2>1. SUFFICES ASSUME NEW m \in T
                 PROVE  0 .. m \in FiniteSubsetsOf(Nat)
    OBVIOUS
  <2>2. m \in Int /\ 0 \in Int /\ 0 .. m \subseteq Nat
    OBVIOUS
  <2>3. IsFiniteSet(0 .. m)
    BY <2>2, FS_Interval
  <2>4. QED
    BY <2>2, <2>3 DEF FiniteSubsetsOf
<1>2. Segments # {}
  OBVIOUS
<1>3. IsWellFoundedOn(StrictSubsetOrdering(Nat), FiniteSubsetsOf(Nat))
  BY FS_StrictSubsetOrderingWellFounded
<1> HIDE DEF Segments
<1>4. \E s \in Segments : \A t \in Segments : ~ (<<t, s>> \in StrictSubsetOrdering(Nat))
  BY <1>1, <1>2, <1>3, WFMin, Zenon
<1>5. PICK m \in T : \A k \in T : ~ (<<0 .. k, 0 .. m>> \in StrictSubsetOrdering(Nat))
  BY <1>4 DEF Segments
<1>6. ASSUME NEW k \in T, k < m PROVE FALSE
  <2>1. 0 .. k \in SUBSET Nat /\ 0 .. m \in SUBSET Nat
    OBVIOUS
  <2>2. 0 .. k \subseteq 0 .. m
    BY <1>6
  <2>3. m \in 0 .. m /\ m \notin 0 .. k
    BY <1>6
  <2>4. <<0 .. k, 0 .. m>> \in StrictSubsetOrdering(Nat)
    BY <2>1, <2>2, <2>3 DEF StrictSubsetOrdering
  <2>5. QED
    BY <2>4, <1>5
<1>7. QED
  BY <1>6

(* A set with 0 and, with every number, the next one has them all.         *)
LEMMA SetInduction ==
  ASSUME NEW P, 0 \in P, \A k \in Nat : k \in P => k + 1 \in P
  PROVE  \A k \in Nat : k \in P
<1>1. SUFFICES ASSUME NEW k \in Nat, k \notin P
               PROVE  FALSE
  OBVIOUS
<1>2. PICK m \in Nat \ P : \A n \in Nat \ P : m <= n
  BY <1>1, LeastNumber
<1>3. m # 0 /\ m - 1 \in Nat /\ m - 1 < m
  BY <1>2
<1>4. m - 1 \in P
  BY <1>2, <1>3
<1>5. (m - 1) + 1 = m
  BY <1>3
<1>6. QED
  BY <1>2, <1>3, <1>4, <1>5

-----------------------------------------------------------------------------
(* The equation of a running sum.                                          *)
IsSumOf(s, v) ==
  s = [i \in 0 .. Len(v) |-> IF i = 0 THEN 0 ELSE s[i - 1] + v[i]]

(* It has a solution: the sum of the first n numbers, then one more.       *)
LEMMA SumExists ==
  ASSUME NEW v \in Seq(Nat)
  PROVE  \E s : IsSumOf(s, v)
<1> DEFINE Eq(s, n) == s = [i \in 0 .. n |-> IF i = 0 THEN 0 ELSE s[i - 1] + v[i]]
           P == {n \in Nat : \E s : Eq(s, n)}
<1>1. 0 \in P
  <2>1. Eq([i \in 0 .. 0 |-> 0], 0)
    OBVIOUS
  <2>2. QED
    BY <2>1
<1>2. ASSUME NEW n \in Nat, n \in P
      PROVE  n + 1 \in P
  <2>1. PICK s : Eq(s, n)
    BY <1>2
  <2> DEFINE t == [i \in 0 .. n + 1 |-> IF i <= n THEN s[i] ELSE s[n] + v[n + 1]]
  <2>2. ASSUME NEW i \in 0 .. n + 1
        PROVE  t[i] = IF i = 0 THEN 0 ELSE t[i - 1] + v[i]
    <3>1. CASE i = 0
      <4>1. s[0] = 0
        BY <2>1
      <4>2. QED
        BY <3>1, <4>1
    <3>2. CASE i \in 1 .. n
      <4>1. s[i] = s[i - 1] + v[i]
        BY <2>1, <3>2
      <4>2. t[i] = s[i] /\ t[i - 1] = s[i - 1]
        BY <3>2
      <4>3. QED
        BY <3>2, <4>1, <4>2
    <3>3. CASE i = n + 1
      <4>1. t[i] = s[n] + v[n + 1] /\ t[i - 1] = s[n]
        BY <3>3
      <4>2. QED
        BY <3>3, <4>1
    <3>4. QED
      BY <3>1, <3>2, <3>3
  <2> HIDE DEF t
  <2>3. t = [i \in 0 .. n + 1 |-> t[i]]
    BY DEF t
  <2>4. Eq(t, n + 1)
    BY <2>2, <2>3
  <2> HIDE DEF Eq
  <2>5. \E u : Eq(u, n + 1)
    BY <2>4, Zenon
  <2>6. QED
    BY <2>5
<1> HIDE DEF P
<1>3. \A n \in Nat : n \in P
  BY <1>1, <1>2, SetInduction
<1>4. Len(v) \in P
  BY <1>3
<1>5. QED
  BY <1>4 DEF P, IsSumOf

(* A sum of sizes is a size and no smaller than any of them.               *)
LEMMA SumBounds ==
  ASSUME NEW v \in Seq(Nat), NEW s, IsSumOf(s, v)
  PROVE  /\ s[Len(v)] \in Nat
         /\ \A i \in 1 .. Len(v) : v[i] <= s[Len(v)]
<1> DEFINE P == {n \in Nat : n <= Len(v) =>
                   s[n] \in Nat /\ \A i \in 1 .. n : v[i] <= s[n]}
<1>1. \A i \in 0 .. Len(v) : s[i] = IF i = 0 THEN 0 ELSE s[i - 1] + v[i]
  BY DEF IsSumOf
<1>2. 0 \in P
  BY <1>1
<1>3. ASSUME NEW n \in Nat, n \in P
      PROVE  n + 1 \in P
  <2>1. SUFFICES ASSUME n + 1 <= Len(v)
                 PROVE  s[n + 1] \in Nat /\ \A i \in 1 .. n + 1 : v[i] <= s[n + 1]
    OBVIOUS
  <2>2. s[n] \in Nat /\ \A i \in 1 .. n : v[i] <= s[n]
    BY <1>3, <2>1
  <2>3. v[n + 1] \in Nat
    BY <2>1
  <2>4. s[n + 1] = s[n] + v[n + 1]
    BY <1>1, <2>1
  <2>5. \A i \in 1 .. n : v[i] \in Nat
    BY <2>1
  <2>6. QED
    BY <2>2, <2>3, <2>4, <2>5
<1> HIDE DEF P
<1>4. \A n \in Nat : n \in P
  BY <1>2, <1>3, SetInduction
<1>5. QED
  BY <1>4 DEF P

-----------------------------------------------------------------------------
(* Flattening: the recursive function of FlattenSeq exists, what is closed *)
(* under concatenation is kept, and nothing is lost.                       *)
Joined(a, b) == a \o b

IsFlat(f, s) == f = [i \in 1 .. Len(s) |-> IF i = 1 THEN s[i] ELSE Joined(f[i - 1], s[i])]

LEMMA FlatExists ==
  ASSUME NEW S, NEW s \in Seq(S)
  PROVE  \E f : IsFlat(f, s)
<1> DEFINE Eq(f, n) == f = [i \in 1 .. n |-> IF i = 1 THEN s[i] ELSE Joined(f[i - 1], s[i])]
           P == {n \in Nat : \E f : Eq(f, n)}
<1>1. 0 \in P
  <2>1. Eq([i \in 1 .. 0 |-> << >>], 0)
    OBVIOUS
  <2>2. QED
    BY <2>1
<1>2. ASSUME NEW n \in Nat, n \in P
      PROVE  n + 1 \in P
  <2>1. PICK f : Eq(f, n)
    BY <1>2
  <2> DEFINE g == [i \in 1 .. n + 1 |-> IF i <= n THEN f[i]
                                        ELSE IF i = 1 THEN s[i] ELSE Joined(f[n], s[i])]
  <2>2. ASSUME NEW i \in 1 .. n + 1
        PROVE  g[i] = IF i = 1 THEN s[i] ELSE Joined(g[i - 1], s[i])
    <3>1. CASE i = 1
      <4>1. n >= 1 => f[1] = s[1]
        BY <2>1
      <4>2. QED
        BY <3>1, <4>1
    <3>2. CASE i \in 2 .. n
      <4>1. f[i] = Joined(f[i - 1], s[i])
        BY <2>1, <3>2
      <4>2. g[i] = f[i] /\ g[i - 1] = f[i - 1]
        BY <3>2
      <4>3. QED
        BY <3>2, <4>1, <4>2
    <3>3. CASE i = n + 1 /\ i # 1
      <4>1. g[i] = Joined(f[n], s[i]) /\ g[i - 1] = f[n]
        BY <3>3
      <4>2. QED
        BY <3>3, <4>1
    <3>4. QED
      BY <3>1, <3>2, <3>3
  <2> HIDE DEF g
  <2>3. g = [i \in 1 .. n + 1 |-> g[i]]
    BY DEF g
  <2>4. Eq(g, n + 1)
    BY <2>2, <2>3
  <2> HIDE DEF Eq
  <2>5. \E h : Eq(h, n + 1)
    BY <2>4, Zenon
  <2>6. QED
    BY <2>5
<1> HIDE DEF P
<1>3. \A n \in Nat : n \in P
  BY <1>1, <1>2, SetInduction
<1>4. Len(s) \in P
  BY <1>3
<1>5. QED
  BY <1>4 DEF P, IsFlat

LEMMA FlatParts ==
  ASSUME NEW S, NEW s \in Seq(S), s # << >>
  PROVE  \E f : /\ FlattenSeq(s) = f[Len(s)]
                /\ \A i \in 1 .. Len(s) : f[i] = IF i = 1 THEN s[i] ELSE Joined(f[i - 1], s[i])
<1> DEFINE f == CHOOSE g : IsFlat(g, s)
<1>1. IsFlat(f, s)
  BY FlatExists
<1>2. Len(s) \in Nat /\ Len(s) # 0
  OBVIOUS
<1>3. FlattenSeq(s) = f[Len(s)]
  BY <1>2 DEF FlattenSeq, IsFlat, Joined
<1> HIDE DEF f
<1>4. QED
  BY <1>1, <1>3 DEF IsFlat

LEMMA FlattenIn ==
  ASSUME NEW G, << >> \in G, \A a, b \in G : a \o b \in G, NEW s \in Seq(G)
  PROVE  FlattenSeq(s) \in G
<1>1. CASE s = << >>
  BY <1>1 DEF FlattenSeq
<1>2. CASE s # << >>
  <2>1. PICK f : /\ FlattenSeq(s) = f[Len(s)]
                 /\ \A i \in 1 .. Len(s) : f[i] = IF i = 1 THEN s[i] ELSE Joined(f[i - 1], s[i])
    BY <1>2, FlatParts
  <2> DEFINE P == {n \in Nat : n \in 1 .. Len(s) => f[n] \in G}
  <2>2. 0 \in P
    OBVIOUS
  <2>3. ASSUME NEW n \in Nat, n \in P PROVE n + 1 \in P
    <3>1. SUFFICES ASSUME n + 1 \in 1 .. Len(s) PROVE f[n + 1] \in G
      OBVIOUS
    <3>2. s[n + 1] \in G
      BY <3>1
    <3>3. CASE n = 0
      BY <2>1, <3>1, <3>2, <3>3
    <3>4. CASE n # 0
      <4>1. n \in 1 .. Len(s) /\ f[n] \in G
        BY <2>3, <3>1, <3>4
      <4>2. f[n + 1] = Joined(f[n], s[n + 1])
        BY <2>1, <3>1, <3>4
      <4>3. QED
        BY <3>2, <4>1, <4>2 DEF Joined
    <3>5. QED
      BY <3>3, <3>4
  <2> HIDE DEF P
  <2>4. \A n \in Nat : n \in P
    BY <2>2, <2>3, SetInduction
  <2>5. Len(s) \in P /\ Len(s) \in 1 .. Len(s)
    BY <1>2, <2>4
  <2>6. QED
    BY <2>1, <2>5 DEF P
<1>3. QED
  BY <1>1, <1>2

LEMMA InConcat ==
  ASSUME NEW S, NEW s \in Seq(S), NEW t \in Seq(S)
  PROVE  /\ s \o t \in Seq(S)
         /\ Range(s \o t) = Range(s) \cup Range(t)
<1>1. /\ s \o t \in Seq(S)
      /\ Len(s \o t) = Len(s) + Len(t)
      /\ \A i \in 1 .. Len(s) + Len(t) :
           (s \o t)[i] = IF i <= Len(s) THEN s[i] ELSE t[i - Len(s)]
  BY ConcatProperties
<1>2. ASSUME NEW i \in 1 .. Len(s) + Len(t)
      PROVE  (s \o t)[i] \in Range(s) \cup Range(t)
  BY <1>1 DEF Range
<1>3. ASSUME NEW i \in 1 .. Len(s)
      PROVE  s[i] \in Range(s \o t)
  <2>1. i \in 1 .. Len(s) + Len(t) /\ (s \o t)[i] = s[i]
    BY <1>1
  <2>2. QED
    BY <1>1, <2>1 DEF Range
<1>4. ASSUME NEW i \in 1 .. Len(t)
      PROVE  t[i] \in Range(s \o t)
  <2>1. Len(s) + i \in 1 .. Len(s) + Len(t) /\ ~ (Len(s) + i <= Len(s)) /\ (Len(s) + i) - Len(s) = i
    OBVIOUS
  <2>2. (s \o t)[Len(s) + i] = t[i]
    BY <1>1, <2>1
  <2>3. DOMAIN (s \o t) = 1 .. Len(s) + Len(t)
    BY <1>1
  <2>4. QED
    BY <2>1, <2>2, <2>3 DEF Range
<1>5. DOMAIN (s \o t) = 1 .. Len(s) + Len(t) /\ DOMAIN s = 1 .. Len(s) /\ DOMAIN t = 1 .. Len(t)
  BY <1>1
<1>6. Range(s \o t) \subseteq Range(s) \cup Range(t)
  BY <1>2, <1>5, Zenon DEF Range
<1>7. Range(s) \subseteq Range(s \o t) /\ Range(t) \subseteq Range(s \o t)
  BY <1>3, <1>4, <1>5, Zenon DEF Range
<1>8. QED
  BY <1>1, <1>6, <1>7

LEMMA FlattenCovers ==
  ASSUME NEW S, NEW s \in Seq(Seq(S))
  PROVE  /\ FlattenSeq(s) \in Seq(S)
         /\ \A i \in 1 .. Len(s) : Range(s[i]) \subseteq Range(FlattenSeq(s))
<1>1. CASE s = << >>
  BY <1>1 DEF FlattenSeq
<1>2. CASE s # << >>
  <2>1. PICK f : /\ FlattenSeq(s) = f[Len(s)]
                 /\ \A i \in 1 .. Len(s) : f[i] = IF i = 1 THEN s[i] ELSE Joined(f[i - 1], s[i])
    BY <1>2, FlatParts
  <2> DEFINE P == {n \in Nat : n \in 1 .. Len(s) =>
                     f[n] \in Seq(S) /\ \A i \in 1 .. n : Range(s[i]) \subseteq Range(f[n])}
  <2>2. 0 \in P
    OBVIOUS
  <2>3. ASSUME NEW n \in Nat, n \in P PROVE n + 1 \in P
    <3>1. SUFFICES ASSUME n + 1 \in 1 .. Len(s)
                   PROVE  /\ f[n + 1] \in Seq(S)
                          /\ \A i \in 1 .. n + 1 : Range(s[i]) \subseteq Range(f[n + 1])
      OBVIOUS
    <3>2. s[n + 1] \in Seq(S)
      BY <3>1
    <3>3. CASE n = 0
      <4>1. f[1] = s[1]
        BY <2>1, <3>1, <3>3
      <4>2. QED
        BY <3>2, <3>3, <4>1
    <3>4. CASE n # 0
      <4>1. f[n] \in Seq(S) /\ \A i \in 1 .. n : Range(s[i]) \subseteq Range(f[n])
        BY <2>3, <3>1, <3>4
      <4>2. f[n + 1] = Joined(f[n], s[n + 1])
        BY <2>1, <3>1, <3>4
      <4>3. /\ f[n + 1] \in Seq(S)
            /\ Range(f[n + 1]) = Range(f[n]) \cup Range(s[n + 1])
        BY <3>2, <4>1, <4>2, InConcat DEF Joined
      <4>4. \A i \in 1 .. n + 1 : i \in 1 .. n \/ i = n + 1
        OBVIOUS
      <4>5. QED
        BY <4>1, <4>3, <4>4
    <3>5. QED
      BY <3>3, <3>4
  <2> HIDE DEF P
  <2>4. \A n \in Nat : n \in P
    BY <2>2, <2>3, SetInduction
  <2>5. Len(s) \in P /\ Len(s) \in 1 .. Len(s)
    BY <1>2, <2>4
  <2>6. QED
    BY <2>1, <2>5 DEF P
<1>3. QED
  BY <1>1, <1>2

(* All elements of a finite set, in some order.                            *)
LEMMA InSomeOrder ==
  ASSUME NEW S, IsFiniteSet(S)
  PROVE  SetToSeq(S) \in Seq(S) /\ Range(SetToSeq(S)) = S
<1> DEFINE n == Cardinality(S)
<1>1. n \in Nat /\ ExistsBijection(1 .. n, S)
  BY FS_CardinalityType
<1>2. PICK f : f \in Bijection(1 .. n, S)
  BY <1>1 DEF ExistsBijection
<1>3. f \in [1 .. n -> S] /\ IsInjective(f)
  BY <1>2 DEF Bijection, Injection, IsInjective
<1>4. SetToSeq(S) \in [1 .. n -> S] /\ IsInjective(SetToSeq(S))
  BY <1>3 DEF SetToSeq
<1>5. SetToSeq(S) \in Seq(S)
  BY <1>1, <1>4
<1>6. Range(SetToSeq(S)) = S
  <2> DEFINE g == SetToSeq(S)
  <2>1. g \in Injection(1 .. n, S)
    BY <1>4 DEF Injection, IsInjective
  <2>2. IsFiniteSet(1 .. n) /\ Cardinality(1 .. n) = n
    BY <1>1, FS_Interval
  <2> HIDE DEF g
  <2>3. g \in Surjection(1 .. n, S)
    BY <2>1, <2>2, FS_Surjection, FS_Injection
  <2>4. QED
    BY <2>3 DEF Surjection, Range, g
<1>7. QED
  BY <1>5, <1>6

(* The flattening of a set of sequences has what each of them has.         *)
LEMMA AllOfThem ==
  ASSUME NEW S, NEW T, IsFiniteSet(T), T \subseteq Seq(S)
  PROVE  /\ FlattenSeq(SetToSeq(T)) \in Seq(S)
         /\ \A t \in T : Range(t) \subseteq Range(FlattenSeq(SetToSeq(T)))
<1> DEFINE s == SetToSeq(T)
<1>1. s \in Seq(T) /\ Range(s) = T
  BY InSomeOrder
<1> HIDE DEF s
<1>2. s \in Seq(Seq(S))
  BY <1>1
<1>3. /\ FlattenSeq(s) \in Seq(S)
      /\ \A i \in 1 .. Len(s) : Range(s[i]) \subseteq Range(FlattenSeq(s))
  BY <1>2, FlattenCovers
<1>4. \A t \in T : \E i \in 1 .. Len(s) : t = s[i]
  <2>1. DOMAIN s = 1 .. Len(s)
    BY <1>1, LenProperties
  <2>2. T = {s[i] : i \in DOMAIN s}
    BY <1>1, Zenon DEF Range
  <2>3. QED
    BY <2>1, <2>2, Zenon
<1>5. QED
  BY <1>3, <1>4 DEF s
=============================================================================
