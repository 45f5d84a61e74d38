------------------------- MODULE FlowSpecNlriProofs -------------------------
(***************************************************************************)
(* For every set of rules, with lists of any length: the length octets can *)
(* be split off again, the components are well-formed up to where raw      *)
(* octets begin, the harness finds those of the rule and no others, and    *)
(* the list behind each type means what the items of the rule mean.        *)
(***************************************************************************)
EXTENDS FlowSpecNlri, DataFacts

Phases == {"validate", "encode", "refused", "read", "wellformed", "violated"}

(***************************************************************************)
(* A plan of some octets says what a reader finds behind each of the first *)
(* n of them: a type, what follows the type of a prefix, an operator, or   *)
(* that it never gets there.                                               *)
(***************************************************************************)
Marks == {"type", "prefix", "operators", "inside"}

Head6(six) == IF six THEN 2 ELSE 1
Bits6(six) == IF six THEN 128 ELSE 32

Skips(plan, p, q) == \A i \in p + 1 .. q - 1 : plan[i] = "inside"

TypeAt(plan, o, n, six, p) ==
  p < n =>
    /\ o[p + 1] \in Types
    /\ o[p + 1] = FlowLabel => six
    /\ plan[p + 1] = IF o[p + 1] \in PrefixTypes THEN "prefix" ELSE "operators"

PrefixAt(plan, o, n, six, p) ==
  /\ p + Head6(six) <= n
  /\ o[p + 1] \in 0 .. Bits6(six)
  /\ p + Head6(six) + Octets(o[p + 1]) <= n
  /\ plan[p + Head6(six) + Octets(o[p + 1])] = "type"
  /\ Skips(plan, p, p + Head6(six) + Octets(o[p + 1]))

OperatorAt(plan, o, n, p) ==
  /\ p < n
  /\ o[p + 1] \in Octet
  /\ p + 1 + Width(o[p + 1]) <= n
  /\ plan[p + 1 + Width(o[p + 1])] = IF o[p + 1] >= OpEnd THEN "type" ELSE "operators"
  /\ Skips(plan, p, p + 1 + Width(o[p + 1]))

Planned(plan, o, n, six, p) ==
  /\ plan[p] = "type" => TypeAt(plan, o, n, six, p)
  /\ plan[p] = "prefix" => PrefixAt(plan, o, n, six, p)
  /\ plan[p] = "operators" => OperatorAt(plan, o, n, p)

(* The types met on the way to p, which come in ascending order.           *)
TypesBefore(plan, o, p) == {o[q + 1] : q \in {i \in 0 .. p - 1 : plan[i] = "type"}}

Ascending(plan, o, n) ==
  \A p \in 0 .. n - 1 : plan[p] = "type" => \A t \in TypesBefore(plan, o, p) : t < o[p + 1]

Plan(plan, o, n, six) ==
  /\ plan \in [0 .. n -> Marks]
  /\ plan[0] = "type" /\ plan[n] = "type"
  /\ \A p \in 0 .. n : Planned(plan, o, n, six, p)
  /\ Ascending(plan, o, n)

-----------------------------------------------------------------------------
LEMMA OctetsAreNumbers == \A n \in Octet : n \in Nat /\ n <= 255
BY DEF Octet

(* Bits, one of each place of an octet.                                    *)
Spread(c, n) ==
  /\ c \in [0 .. 7 -> {0, 1}]
  /\ n = c[0] + 2 * c[1] + 4 * c[2] + 8 * c[3] + 16 * c[4] + 32 * c[5] + 64 * c[6] + 128 * c[7]

LEMMA PowersOfTwo ==
  /\ 2 ^ 0 = 1 /\ 2 ^ 1 = 2 /\ 2 ^ 2 = 4 /\ 2 ^ 3 = 8
  /\ 2 ^ 4 = 16 /\ 2 ^ 5 = 32 /\ 2 ^ 6 = 64 /\ 2 ^ 7 = 128
OBVIOUS

LEMMA SpreadBits ==
  ASSUME NEW c, NEW n, Spread(c, n)
  PROVE  n \in Octet /\ \A b \in 0 .. 7 : HasBit(n, 2 ^ b) <=> c[b] = 1
<1> DEFINE c0 == c[0]  c1 == c[1]  c2 == c[2]  c3 == c[3]
           c4 == c[4]  c5 == c[5]  c6 == c[6]  c7 == c[7]
<1>1. /\ c0 \in 0 .. 1 /\ c1 \in 0 .. 1 /\ c2 \in 0 .. 1 /\ c3 \in 0 .. 1
      /\ c4 \in 0 .. 1 /\ c5 \in 0 .. 1 /\ c6 \in 0 .. 1 /\ c7 \in 0 .. 1
      /\ n = c0 + 2 * c1 + 4 * c2 + 8 * c3 + 16 * c4 + 32 * c5 + 64 * c6 + 128 * c7
  BY DEF Spread
<1> HIDE DEF c0, c1, c2, c3, c4, c5, c6, c7
<1>2. n \in Octet
  BY <1>1 DEF Octet
<1>3. /\ (n \div 1) % 2 = c0
      /\ (n \div 2) % 2 = c1
      /\ (n \div 4) % 2 = c2
      /\ (n \div 8) % 2 = c3
  BY <1>1
<1>4. /\ (n \div 16) % 2 = c4
      /\ (n \div 32) % 2 = c5
      /\ (n \div 64) % 2 = c6
      /\ (n \div 128) % 2 = c7
  BY <1>1
<1>5. /\ HasBit(n, 2 ^ 0) <=> c[0] = 1
      /\ HasBit(n, 2 ^ 1) <=> c[1] = 1
      /\ HasBit(n, 2 ^ 2) <=> c[2] = 1
      /\ HasBit(n, 2 ^ 3) <=> c[3] = 1
      /\ HasBit(n, 2 ^ 4) <=> c[4] = 1
      /\ HasBit(n, 2 ^ 5) <=> c[5] = 1
      /\ HasBit(n, 2 ^ 6) <=> c[6] = 1
      /\ HasBit(n, 2 ^ 7) <=> c[7] = 1
  BY <1>3, <1>4, PowersOfTwo, Zenon DEF HasBit, c0, c1, c2, c3, c4, c5, c6, c7
<1>6. \A b \in 0 .. 7 : b = 0 \/ b = 1 \/ b = 2 \/ b = 3 \/ b = 4 \/ b = 5 \/ b = 6 \/ b = 7
  OBVIOUS
<1>7. \A b \in 0 .. 7 : HasBit(n, 2 ^ b) <=> c[b] = 1
  BY <1>5, <1>6, Zenon
<1>8. QED
  BY <1>2, <1>7

(* The names of a list of flags have their bits in one octet.              *)
LEMMA NamedValueBits ==
  ASSUME NEW t, NEW names
  PROVE  /\ NamedBits(t, names) \subseteq 0 .. 7
         /\ NamedValue(t, names) \in Octet
         /\ \A b \in 0 .. 7 : HasBit(NamedValue(t, names), 2 ^ b) <=> b \in NamedBits(t, names)
<1> DEFINE B == NamedBits(t, names)
           c == [b \in 0 .. 7 |-> IF b \in B THEN 1 ELSE 0]
           n == c[0] + 2 * c[1] + 4 * c[2] + 8 * c[3] + 16 * c[4] + 32 * c[5] + 64 * c[6] + 128 * c[7]
<1>1. B \subseteq 0 .. 7
  <2>1. DOMAIN FlagNames(t) \subseteq 1 .. 8
    BY DEF FlagNames
  <2>2. \A i \in 1 .. 8 : i - 1 \in 0 .. 7
    OBVIOUS
  <2>3. QED
    BY <2>1, <2>2 DEF NamedBits
<1>2. c \in [0 .. 7 -> {0, 1}] /\ \A b \in 0 .. 7 : c[b] = 1 <=> b \in B
  OBVIOUS
<1> HIDE DEF c
<1>3. Spread(c, n)
  BY <1>2 DEF Spread
<1> HIDE DEF n
<1>4. n \in Octet /\ \A b \in 0 .. 7 : HasBit(n, 2 ^ b) <=> b \in B
  BY <1>2, <1>3, SpreadBits, Zenon
<1>5. QED
  BY <1>1, <1>4, Zenon DEF NamedValue
-----------------------------------------------------------------------------
(* Two octets from which a length can be put together again.               *)
Lengths == 0 .. MaxNlri - 1

Rejoin(a, b, n) == a \in Nat /\ b \in Nat /\ a >= 240 /\ (a % 16) * 256 + b = n

LEMMA TwoOctets ==
  ASSUME NEW n \in Lengths
  PROVE  Rejoin(240 + (n \div 256), n % 256, n)
<1> DEFINE q == n \div 256
           a == 240 + q
           b == n % 256
<1>1. n \in Nat /\ n < 4096
  BY DEF Lengths, MaxNlri
<1>2. n = 256 * q + b /\ q \in Int /\ b \in 0 .. 255
  BY <1>1, DivMod
<1> HIDE DEF q, b
<1>3. q \in 0 .. 15
  BY <1>1, <1>2
<1>4. a % 16 = q
  BY <1>3, Z3
<1>5. a \in Nat /\ a >= 240
  BY <1>3
<1> HIDE DEF a
<1>6. Rejoin(a, b, n)
  BY <1>2, <1>4, <1>5 DEF Rejoin
<1>7. QED
  BY <1>6 DEF a, b, q

(* The length octets say how long the components are.                      *)
LEMMA SplitIsInverse ==
  ASSUME NEW S, NEW o \in Seq(S), NEW len \in Lengths, Len(o) = len
  PROVE  /\ SplitLength(LengthOctets(len) \o o) = len
         /\ SplitValue(LengthOctets(len) \o o) = o
<1> DEFINE n == LengthOctets(len) \o o
           T == S \cup Nat
           a == 240 + (len \div 256)
           b == len % 256
<1>1. len \in 0 .. 4095
  BY DEF Lengths, MaxNlri
<1>2. o \in Seq(T)
  <2>1. o \in [1 .. Len(o) -> S] /\ Len(o) \in Nat
    OBVIOUS
  <2>2. o \in [1 .. Len(o) -> T]
    BY <2>1
  <2>3. QED
    BY <2>1, <2>2
<1> HIDE DEF T, n
<1>3. Rejoin(a, b, len)
  BY TwoOctets
<1>4. LengthOctets(len) = IF len < 240 THEN <<len>> ELSE <<a, b>>
  BY DEF LengthOctets
<1>5. n = LengthOctets(len) \o o
  BY DEF n
<1> HIDE DEF a, b
<1>6. len = Len(o)
  OBVIOUS
<1>7. CASE len < 240
  <2>1. n = <<len>> \o o
    BY <1>4, <1>5, <1>7
  <2>2. <<len>> \in Seq(T) /\ Len(<<len>>) = 1 /\ <<len>>[1] = len
    BY <1>1 DEF T
  <2>3. n \in Seq(T) /\ Len(n) = 1 + len /\ n[1] = len
        /\ \A i \in 1 .. len : n[i + 1] = o[i]
    BY <1>2, <1>6, <2>1, <2>2
  <2>4. Tail(n) = o
    BY <1>2, <1>6, <2>3
  <2>5. SplitLength(n) = len /\ SplitValue(n) = o
    BY <1>7, <2>3, <2>4 DEF SplitLength, SplitValue
  <2>6. QED
    BY <2>5 DEF n
<1>8. CASE ~ (len < 240)
  <2>1. n = <<a, b>> \o o
    BY <1>4, <1>5, <1>8
  <2>2. a \in Nat /\ b \in Nat /\ a >= 240 /\ (a % 16) * 256 + b = len
    BY <1>3 DEF Rejoin
  <2>3. <<a, b>> \in Seq(T) /\ Len(<<a, b>>) = 2 /\ <<a, b>>[1] = a /\ <<a, b>>[2] = b
    BY <2>2 DEF T
  <2>4. n \in Seq(T) /\ Len(n) = 2 + len /\ n[1] = a /\ n[2] = b
        /\ \A i \in 1 .. len : n[i + 2] = o[i]
    BY <1>2, <1>6, <2>1, <2>3
  <2>5. SubSeq(n, 3, Len(n)) = o
    BY <1>2, <1>6, <2>4
  <2>6. SplitLength(n) = len /\ SplitValue(n) = o
    BY <2>2, <2>4, <2>5 DEF SplitLength, SplitValue
  <2>7. QED
    BY <2>6 DEF n
<1>9. QED
  BY <1>7, <1>8

-----------------------------------------------------------------------------
(* One operation: its operator octet says how wide the operand is, and     *)
(* whether it is the last.                                                 *)
Codes == (0 .. 15) \cup (64 .. 79)

LEMMA CodeOfWidth ==
  ASSUME NEW v, NEW k \in 1 .. 8, Len(v) = k
  PROVE  /\ LenCode(v) \in 0 .. 3
         /\ 2 ^ LenCode(v) \in {1, 2, 4, 8}
         /\ k <= 2 ^ LenCode(v)
<1> DEFINE c == IF k = 1 THEN 0 ELSE IF k = 2 THEN 1 ELSE IF k <= 4 THEN 2 ELSE 3
           w == IF k = 1 THEN 1 ELSE IF k = 2 THEN 2 ELSE IF k <= 4 THEN 4 ELSE 8
<1>1. LenCode(v) = c
  BY DEF LenCode
<1>2. 2 ^ 0 = 1 /\ 2 ^ 1 = 2 /\ 2 ^ 2 = 4 /\ 2 ^ 3 = 8
  OBVIOUS
<1>3. 2 ^ c = w
  BY <1>2
<1>4. c \in 0 .. 3 /\ w \in {1, 2, 4, 8} /\ k <= w
  OBVIOUS
<1> HIDE DEF c, w
<1>5. QED
  BY <1>1, <1>3, <1>4, Zenon

Spells(code, c, e) == code \in Octet /\ (code >= 128 <=> e = 128) /\ (code \div 16) % 4 = c

LEMMA CodeArithmetic ==
  ASSUME NEW bits \in Codes, NEW c \in 0 .. 3, NEW e \in {0, 128}
  PROVE  Spells(e + bits + 16 * c, c, e)
<1> DEFINE code == e + bits + 16 * c
<1>1. code \in Octet /\ (code >= 128 <=> e = 128)
  BY DEF Codes, Octet
<1>2. PICK b \in {0, 4} : bits \in 16 * b .. 16 * b + 15
  BY DEF Codes
<1>3. PICK h \in {0, 8} : e = 16 * h
  OBVIOUS
<1>4. code \div 16 = h + b + c
  <2>1. code = 16 * (h + b + c) + (bits - 16 * b) /\ bits - 16 * b \in 0 .. 15
    BY <1>2, <1>3
  <2>2. QED
    BY <1>2, <1>3, <2>1, Z3
<1>5. (h + b + c) % 4 = c
  <2>1. h + b \in {0, 4, 8, 12}
    OBVIOUS
  <2>2. QED
    BY <2>1, Z3
<1> HIDE DEF code
<1>6. Spells(code, c, e)
  BY <1>1, <1>4, <1>5 DEF Spells
<1>7. QED
  BY <1>6 DEF code

LEMMA WidthOfOctet ==
  ASSUME NEW op \in Octet
  PROVE  Width(op) \in 1 .. 8
<1>1. (op \div 16) % 4 \in 0 .. 3
  BY DEF Octet
<1>2. 2 ^ 0 = 1 /\ 2 ^ 1 = 2 /\ 2 ^ 2 = 4 /\ 2 ^ 3 = 8
  OBVIOUS
<1>3. \A c \in 0 .. 3 : c = 0 \/ c = 1 \/ c = 2 \/ c = 3
  OBVIOUS
<1>4. 1 \in 1 .. 8 /\ 2 \in 1 .. 8 /\ 4 \in 1 .. 8 /\ 8 \in 1 .. 8
  OBVIOUS
<1>5. \A c \in 0 .. 3 : 2 ^ c \in 1 .. 8
  BY <1>2, <1>3, <1>4, Zenon
<1>6. QED
  BY <1>1, <1>5, Zenon DEF Width

(* What the list of operations is made of.                                 *)
IsOperation(o, final) ==
  /\ o \in Seq(Octet)
  /\ o[1] \in Octet
  /\ Len(o) = 1 + Width(o[1])
  /\ Width(o[1]) \in 1 .. 8
  /\ (o[1] >= OpEnd) <=> final

LEMMA OperationShape ==
  ASSUME NEW bits \in Codes, NEW v \in Seq(Octet), Len(v) \in 1 .. 8,
         NEW i \in Nat, NEW count \in Nat
  PROVE  IsOperation(Operation(bits, v, i, count), i = count)
<1> DEFINE c == LenCode(v)
           code == (IF i = count THEN OpEnd ELSE 0) + bits + 16 * c
           zeros == [j \in 1 .. 2 ^ c - Len(v) |-> 0]
<1>1. c \in 0 .. 3 /\ 2 ^ c \in {1, 2, 4, 8} /\ Len(v) <= 2 ^ c
  BY CodeOfWidth, Zenon
<1>2. code \in Octet /\ (code >= OpEnd <=> i = count) /\ (code \div 16) % 4 = c
  <2> DEFINE e == IF i = count THEN 128 ELSE 0
  <2>1. e \in {0, 128} /\ (e = 128 <=> i = count)
    OBVIOUS
  <2>2. code = e + bits + 16 * c
    BY DEF OpEnd
  <2> HIDE DEF e, c
  <2>3. QED
    <3>1. Spells(code, c, e)
      BY <1>1, <2>1, <2>2, CodeArithmetic, Zenon
    <3> HIDE DEF code
    <3>2. QED
      BY <2>1, <3>1 DEF OpEnd, Spells
<1>3. zeros \in Seq(Octet) /\ Len(zeros) = 2 ^ c - Len(v)
  <2>1. 2 ^ c - Len(v) \in Nat /\ 0 \in Octet
    BY <1>1 DEF Octet
  <2>2. QED
    BY <2>1
<1>4. Operation(bits, v, i, count) = <<code>> \o (zeros \o v)
  BY DEF Operation, ValueBytes
<1>5. code \in Octet
  BY <1>2
<1> HIDE DEF code, zeros, c
<1>6. zeros \o v \in Seq(Octet) /\ Len(zeros \o v) = 2 ^ c
  BY <1>1, <1>3
<1>7. <<code>> \o (zeros \o v) \in Seq(Octet)
      /\ Len(<<code>> \o (zeros \o v)) = 1 + 2 ^ c
      /\ (<<code>> \o (zeros \o v))[1] = code
  BY <1>1, <1>5, <1>6
<1>8. Width(code) = 2 ^ c
  BY <1>2 DEF Width
<1>9. QED
  BY <1>1, <1>2, <1>4, <1>7, <1>8 DEF IsOperation
-----------------------------------------------------------------------------
(* A plan of the beginning of a list of operators: behind its n octets     *)
(* another operator comes, or the list is over.                            *)
ListPlan(plan, o, n, t, over) ==
  /\ o \in Seq(Octet) /\ n \in Nat \ {0} /\ Len(o) = n
  /\ o[1] = t
  /\ plan \in [0 .. n -> Marks]
  /\ plan[0] = "type" /\ plan[1] = "operators"
  /\ plan[n] = IF over THEN "type" ELSE "operators"
  /\ \A p \in 1 .. n - 1 :
       /\ plan[p] \in {"operators", "inside"}
       /\ plan[p] = "operators" => OperatorAt(plan, o, n, p)

LEMMA ListBegins ==
  ASSUME NEW t \in Types
  PROVE  \E plan : ListPlan(plan, <<t>>, 1, t, FALSE)
<1> DEFINE plan == [p \in 0 .. 1 |-> IF p = 0 THEN "type" ELSE "operators"]
<1>1. t \in Octet
  BY DEF Octet, Types
<1>2. <<t>> \in Seq(Octet) /\ Len(<<t>>) = 1 /\ <<t>>[1] = t
  BY <1>1
<1>3. plan \in [0 .. 1 -> Marks] /\ plan[0] = "type" /\ plan[1] = "operators"
  BY DEF Marks
<1>4. 1 .. 1 - 1 = {}
  OBVIOUS
<1> HIDE DEF plan
<1>5. ListPlan(plan, <<t>>, 1, t, FALSE)
  BY <1>2, <1>3, <1>4 DEF ListPlan
<1>6. QED
  BY <1>5

(* One more operation.                                                     *)
LEMMA ListGrows ==
  ASSUME NEW plan, NEW o, NEW n, NEW t, ListPlan(plan, o, n, t, FALSE),
         NEW w, NEW final \in BOOLEAN, IsOperation(w, final)
  PROVE  \E q : ListPlan(q, o \o w, n + Len(w), t, final)
<1> DEFINE m == Len(w)
           oo == o \o w
           q == [p \in 0 .. n + m |->
                   IF p <= n THEN plan[p]
                   ELSE IF p < n + m THEN "inside" ELSE IF final THEN "type" ELSE "operators"]
<1>1. /\ o \in Seq(Octet) /\ n \in Nat /\ n >= 1 /\ Len(o) = n /\ o[1] = t
      /\ plan \in [0 .. n -> Marks] /\ plan[0] = "type" /\ plan[1] = "operators"
      /\ plan[n] = "operators"
  BY DEF ListPlan
<1>2. /\ w \in Seq(Octet) /\ m \in Nat /\ m = 1 + Width(w[1]) /\ Width(w[1]) \in 1 .. 8
      /\ w[1] \in Octet /\ ((w[1] >= OpEnd) <=> final)
  BY DEF IsOperation
<1>3. /\ oo \in Seq(Octet) /\ Len(oo) = n + m
      /\ \A i \in 1 .. n : oo[i] = o[i]
      /\ oo[n + 1] = w[1]
  BY <1>1, <1>2
<1>4. n + m \in Nat \ {0} /\ m \in Nat /\ m >= 2
  BY <1>1, <1>2
<1> HIDE DEF m, oo
<1>5. /\ q \in [0 .. n + m -> Marks]
      /\ \A p \in 0 .. n : q[p] = plan[p]
      /\ \A p \in n + 1 .. n + m - 1 : q[p] = "inside"
      /\ q[n + m] = IF final THEN "type" ELSE "operators"
  BY <1>1, <1>4 DEF Marks
<1> HIDE DEF q
<1>6. ASSUME NEW p \in 1 .. n + m - 1
      PROVE  /\ q[p] \in {"operators", "inside"}
             /\ q[p] = "operators" => OperatorAt(q, oo, n + m, p)
  <2>1. CASE p \in 1 .. n - 1
    <3>1. plan[p] \in {"operators", "inside"} /\ (plan[p] = "operators" => OperatorAt(plan, o, n, p))
      BY <2>1 DEF ListPlan
    <3>2. q[p] = plan[p]
      BY <1>1, <1>5, <2>1
    <3>3. ASSUME plan[p] = "operators" PROVE OperatorAt(q, oo, n + m, p)
      <4> DEFINE e == p + 1 + Width(o[p + 1])
      <4>1. /\ o[p + 1] \in Octet /\ e <= n
            /\ plan[e] = (IF o[p + 1] >= OpEnd THEN "type" ELSE "operators")
            /\ Skips(plan, p, e)
        BY <3>1, <3>3 DEF OperatorAt
      <4>2. oo[p + 1] = o[p + 1]
        BY <1>1, <1>3, <2>1
      <4>3. Width(o[p + 1]) \in Nat
        BY <4>1, WidthOfOctet
      <4>4. e \in 0 .. n
        BY <2>1, <4>1, <4>3
      <4>5. q[e] = plan[e]
        BY <1>5, <4>4
      <4>6. p < n + m /\ e <= n + m
        BY <1>1, <1>4, <2>1, <4>4
      <4>7. p + 1 + Width(oo[p + 1]) = e
        BY <4>2
      <4> HIDE DEF e
      <4>8. Skips(q, p, e)
        <5>1. \A i \in p + 1 .. e - 1 : q[i] = plan[i]
          <6>1. \A i \in p + 1 .. e - 1 : i \in 0 .. n
            BY <1>1, <2>1, <4>4
          <6>2. QED
            BY <1>5, <6>1
        <5>2. QED
          BY <4>1, <5>1 DEF Skips
      <4>9. QED
        BY <4>1, <4>2, <4>5, <4>6, <4>7, <4>8 DEF OperatorAt
    <3>4. QED
      BY <3>1, <3>2, <3>3
  <2>2. CASE p = n
    <3>1. q[p] = "operators"
      BY <1>1, <1>5, <2>2
    <3>2. oo[p + 1] = w[1]
      BY <1>3, <2>2
    <3>3. p + 1 + Width(w[1]) = n + m /\ p < n + m /\ n + m <= n + m
      <4>1. n \in Nat /\ m \in Nat /\ m >= 2 /\ m = 1 + Width(w[1]) /\ Width(w[1]) \in 1 .. 8
        BY <1>1, <1>2, <1>4
      <4> DEFINE k == Width(w[1])
      <4>2. k \in 1 .. 8 /\ m = 1 + k
        BY <4>1
      <4> HIDE DEF k
      <4>3. p + 1 + k = n + m /\ p < n + m /\ n + m <= n + m
        BY <2>2, <4>1, <4>2
      <4>4. QED
        BY <4>3 DEF k
    <3>4. w[1] \in Octet /\ q[n + m] = IF w[1] >= OpEnd THEN "type" ELSE "operators"
      BY <1>2, <1>5
    <3>5. OperatorAt(q, oo, n + m, p)
      <4>1. Skips(q, p, n + m)
        <5> DEFINE k == n + m
        <5>1. \A i \in n + 1 .. k - 1 : q[i] = "inside"
          <6>1. \A i \in n + 1 .. k - 1 : i \in n + 1 .. n + m - 1
            BY <1>1, <1>4
          <6>2. QED
            BY <1>5, <6>1, Zenon
        <5> HIDE DEF k
        <5>2. Skips(q, p, k)
          BY <2>2, <5>1 DEF Skips
        <5>3. QED
          BY <5>2 DEF k
      <4>2. QED
        BY <3>2, <3>3, <3>4, <4>1, Zenon DEF OperatorAt
    <3>6. QED
      BY <3>1, <3>5
  <2>3. CASE p \in n + 1 .. n + m - 1
    BY <1>5, <2>3
  <2>4. QED
    BY <1>1, <2>1, <2>2, <2>3
<1>7. q[0] = "type" /\ q[1] = "operators" /\ oo[1] = t
  BY <1>1, <1>3, <1>5
<1>8. ListPlan(q, oo, n + m, t, final)
  <2> DEFINE k == n + m
  <2>1. /\ oo \in Seq(Octet) /\ k \in Nat \ {0} /\ Len(oo) = k
        /\ q \in [0 .. k -> Marks]
        /\ q[k] = IF final THEN "type" ELSE "operators"
    BY <1>3, <1>4, <1>5, Zenon
  <2>2. \A p \in 1 .. k - 1 : p \in 1 .. n + m - 1
    BY <1>1, <1>4
  <2>3. \A p \in 1 .. k - 1 :
          q[p] \in {"operators", "inside"} /\ (q[p] = "operators" => OperatorAt(q, oo, k, p))
    BY <1>6, <2>2, Zenon
  <2> HIDE DEF k
  <2>4. ListPlan(q, oo, k, t, final)
    BY <1>7, <2>1, <2>3 DEF ListPlan
  <2>5. QED
    BY <2>4 DEF k
<1>9. QED
  BY <1>8 DEF oo, m
(* A component: nothing of type t but its type, and then what belongs to   *)
(* it up to the end.                                                       *)
Component(plan, o, n, six, t) ==
  /\ o \in Seq(Octet) /\ n \in Nat \ {0} /\ Len(o) = n
  /\ o[1] = t
  /\ plan \in [0 .. n -> Marks]
  /\ plan[0] = "type" /\ plan[n] = "type"
  /\ \A p \in 0 .. n - 1 : Planned(plan, o, n, six, p)
  /\ \A p \in 1 .. n - 1 : plan[p] # "type"

(* All operations of a list, one after the other.                          *)
Operations(ops) ==
  /\ ops \in Seq(Seq(Octet)) /\ ops # << >>
  /\ \A i \in 1 .. Len(ops) : IsOperation(ops[i], i = Len(ops))

LEMMA ListLaidOut ==
  ASSUME NEW t \in Types, NEW ops, Operations(ops)
  PROVE  /\ FlattenSeq(ops) \in Seq(Octet)
         /\ \E plan : ListPlan(plan, <<t>> \o FlattenSeq(ops), 1 + Len(FlattenSeq(ops)), t, TRUE)
<1>1. /\ ops \in Seq(Seq(Octet)) /\ ops # << >> /\ Len(ops) \in Nat /\ Len(ops) >= 1
      /\ \A i \in 1 .. Len(ops) : IsOperation(ops[i], i = Len(ops))
  BY DEF Operations
<1>2. PICK f : /\ FlattenSeq(ops) = f[Len(ops)]
               /\ \A i \in 1 .. Len(ops) :
                    f[i] = IF i = 1 THEN ops[i] ELSE Joined(f[i - 1], ops[i])
  BY <1>1, FlatParts
<1> DEFINE g(k) == IF k = 0 THEN << >> ELSE f[k]
           Good(k) == /\ g(k) \in Seq(Octet)
                      /\ \E plan : ListPlan(plan, <<t>> \o g(k), 1 + Len(g(k)), t, k = Len(ops))
           P == {k \in Nat : k <= Len(ops) => Good(k)}
<1>3. t \in Octet
  BY DEF Octet, Types
<1>4. 0 \in P
  <2>1. PICK plan : ListPlan(plan, <<t>>, 1, t, FALSE)
    BY ListBegins
  <2>2. g(0) = << >> /\ << >> \in Seq(Octet) /\ <<t>> \o << >> = <<t>> /\ 1 + Len(<< >>) = 1
    BY <1>3
  <2>3. (0 = Len(ops)) = FALSE
    BY <1>1
  <2>4. Good(0)
    BY <2>1, <2>2, <2>3
  <2> HIDE DEF Good
  <2>5. QED
    BY <2>4
<1>5. ASSUME NEW k \in Nat, k \in P PROVE k + 1 \in P
  <2>1. SUFFICES ASSUME k + 1 <= Len(ops) PROVE Good(k + 1)
    BY DEF P
  <2> DEFINE a == g(k)
             b == g(k + 1)
             w == ops[k + 1]
  <2>2. Good(k) /\ k < Len(ops)
    <3>1. k <= Len(ops) /\ k < Len(ops)
      BY <1>1, <2>1
    <3> HIDE DEF Good
    <3>2. Good(k)
      BY <1>5, <3>1
    <3>3. QED
      BY <3>1, <3>2
  <2>3. k + 1 \in 1 .. Len(ops)
    BY <1>1, <2>1
  <2>4. w \in Seq(Octet) /\ IsOperation(w, k + 1 = Len(ops))
    BY <1>1, <2>3
  <2>5. a \in Seq(Octet)
    BY <2>2
  <2>6. PICK plan : ListPlan(plan, <<t>> \o a, 1 + Len(a), t, FALSE)
    <3>1. (k = Len(ops)) = FALSE
      BY <1>1, <2>2
    <3> QED
      BY <2>2, <3>1
  <2>7. b = a \o w
    <3>1. b = f[k + 1]
      BY <1>5
    <3>2. CASE k = 0
      <4>1. a = << >> /\ f[k + 1] = w
        BY <1>2, <2>3, <3>2
      <4> HIDE DEF b, w
      <4>2. << >> \o w = w
        BY <2>4
      <4>3. QED
        BY <3>1, <4>1, <4>2
    <3>3. CASE k # 0
      <4>1. a = f[k] /\ f[k + 1] = Joined(f[k], w)
        BY <1>2, <2>3, <3>3
      <4>2. QED
        BY <3>1, <4>1 DEF Joined
    <3>4. QED
      BY <3>2, <3>3
  <2> HIDE DEF a, b, w
  <2>8. PICK q : ListPlan(q, (<<t>> \o a) \o w, (1 + Len(a)) + Len(w), t, k + 1 = Len(ops))
    BY <2>4, <2>6, ListGrows
  <2>9. /\ b \in Seq(Octet) /\ Len(b) = Len(a) + Len(w)
        /\ <<t>> \o b = (<<t>> \o a) \o w
        /\ 1 + Len(b) = (1 + Len(a)) + Len(w)
    <3>1. <<t>> \in Seq(Octet)
      BY <1>3
    <3>2. Len(a) \in Nat /\ Len(w) \in Nat
      BY <2>4, <2>5
    <3>3. b \in Seq(Octet) /\ Len(b) = Len(a) + Len(w)
      BY <2>4, <2>5, <2>7
    <3>4. (<<t>> \o a) \o w = <<t>> \o (a \o w)
      BY <2>4, <2>5, <3>1, ConcatAssociative
    <3>5. QED
      BY <2>7, <3>2, <3>3, <3>4
  <2>10. ListPlan(q, <<t>> \o b, 1 + Len(b), t, k + 1 = Len(ops))
    BY <2>8, <2>9
  <2>11. b \in Seq(Octet) /\ \E plan1 : ListPlan(plan1, <<t>> \o b, 1 + Len(b), t, k + 1 = Len(ops))
    BY <2>9, <2>10
  <2>12. QED
    BY <2>11 DEF b
<1> HIDE DEF P
<1>6. \A k \in Nat : k \in P
  BY <1>4, <1>5, SetInduction
<1>7. Good(Len(ops))
  <2>1. Len(ops) \in P
    BY <1>1, <1>6
  <2> HIDE DEF Good
  <2>2. QED
    BY <1>1, <2>1 DEF P
<1>8. g(Len(ops)) = FlattenSeq(ops)
  BY <1>1, <1>2
<1>9. (Len(ops) = Len(ops)) = TRUE
  OBVIOUS
<1> HIDE DEF g
<1>10. QED
  BY <1>7, <1>8, <1>9

LEMMA ListComponent ==
  ASSUME NEW t \in Types \ PrefixTypes, NEW six, t = FlowLabel => six, NEW ops, Operations(ops)
  PROVE  \E plan, n : Component(plan, <<t>> \o FlattenSeq(ops), n, six, t)
<1> DEFINE o == <<t>> \o FlattenSeq(ops)
           n == 1 + Len(FlattenSeq(ops))
<1>1. PICK plan : ListPlan(plan, o, n, t, TRUE)
  BY ListLaidOut
<1> HIDE DEF o, n
<1>2. /\ o \in Seq(Octet) /\ n \in Nat \ {0} /\ Len(o) = n /\ o[1] = t
      /\ plan \in [0 .. n -> Marks]
      /\ plan[0] = "type" /\ plan[1] = "operators" /\ plan[n] = "type"
      /\ \A p \in 1 .. n - 1 :
           /\ plan[p] \in {"operators", "inside"}
           /\ plan[p] = "operators" => OperatorAt(plan, o, n, p)
  BY <1>1 DEF ListPlan
<1>3. Planned(plan, o, n, six, 0)
  BY <1>2 DEF Planned, TypeAt
<1>4. ASSUME NEW p \in 1 .. n - 1 PROVE Planned(plan, o, n, six, p) /\ plan[p] # "type"
  BY <1>2 DEF Planned
<1>5. \A p \in 0 .. n - 1 : p = 0 \/ p \in 1 .. n - 1
  OBVIOUS
<1>6. \A p \in 0 .. n - 1 : Planned(plan, o, n, six, p)
  BY <1>3, <1>4, <1>5, Zenon
<1>7. Component(plan, o, n, six, t)
  BY <1>2, <1>4, <1>6 DEF Component
<1>8. QED
  BY <1>7 DEF o

LEMMA FunctionIsSequence ==
  ASSUME NEW S, NEW n \in Nat, NEW f \in [1 .. n -> S]
  PROVE  f \in Seq(S) /\ Len(f) = n
<1>1. f \in Seq(S)
  BY SeqDef, Zenon
<1>2. DOMAIN f = 1 .. n
  OBVIOUS
<1>3. QED
  BY <1>1, <1>2

(* The octets of a prefix: its type, its length in bits, the offset of an  *)
(* IPv6 prefix, and as much of the address as the bits take up.            *)
LEMMA PrefixLaidOut ==
  ASSUME NEW t \in PrefixTypes, NEW p \in ParsedPrefixes, NEW six, p.v6 = six
  PROVE  \E plan, n : Component(plan, PrefixComponent(t, p), n, six, t)
<1> DEFINE h == Head6(six)
           k == Octets(p.bits)
           n == 1 + h + k
           o == PrefixComponent(t, p)
           middle == IF six THEN <<0>> ELSE << >>
           address == SubSeq(p.addr, 1, k)
           plan == [i \in 0 .. n |->
                      IF i = 1 THEN "prefix" ELSE IF i = 0 \/ i = n THEN "type" ELSE "inside"]
<1>1. /\ p.v6 \in BOOLEAN /\ p.bits \in 0 .. Bits6(six)
      /\ p.addr \in Seq(Octet) /\ k \in Nat /\ k <= Len(p.addr)
  <2>1. CASE p \in [v6 : {FALSE}, bits : 0 .. 32, addr : [1 .. 4 -> Octet]]
    <3>1. p.v6 = FALSE /\ p.bits \in 0 .. 32 /\ p.addr \in [1 .. 4 -> Octet]
      BY <2>1
    <3>2. Octets(p.bits) \in 0 .. 4
      BY <3>1 DEF Octets
    <3>3. p.addr \in Seq(Octet) /\ Len(p.addr) = 4
      <4> DEFINE size == 4
                 addr == p.addr
      <4>1. size \in Nat /\ addr \in [1 .. size -> Octet]
        BY <3>1
      <4> HIDE DEF size, addr
      <4>2. addr \in Seq(Octet) /\ Len(addr) = size
        BY <4>1, FunctionIsSequence
      <4>3. QED
        BY <4>2 DEF size, addr
    <3>4. Bits6(six) = 32
      BY <3>1, Zenon DEF Bits6
    <3>5. p.v6 \in BOOLEAN
      BY <3>1, Zenon
    <3>6. QED
      BY <3>1, <3>2, <3>3, <3>4, <3>5
  <2>2. CASE p \in [v6 : {TRUE}, bits : 0 .. 128, addr : [1 .. 16 -> Octet]]
    <3>1. p.v6 = TRUE /\ p.bits \in 0 .. 128 /\ p.addr \in [1 .. 16 -> Octet]
      BY <2>2
    <3>2. Octets(p.bits) \in 0 .. 16
      BY <3>1 DEF Octets
    <3>3. p.addr \in Seq(Octet) /\ Len(p.addr) = 16
      <4> DEFINE size == 16
                 addr == p.addr
      <4>1. size \in Nat /\ addr \in [1 .. size -> Octet]
        BY <3>1
      <4> HIDE DEF size, addr
      <4>2. addr \in Seq(Octet) /\ Len(addr) = size
        BY <4>1, FunctionIsSequence
      <4>3. QED
        BY <4>2 DEF size, addr
    <3>4. Bits6(six) = 128
      BY <3>1, Zenon DEF Bits6
    <3>5. p.v6 \in BOOLEAN
      BY <3>1, Zenon
    <3>6. QED
      BY <3>1, <3>2, <3>3, <3>4, <3>5
  <2>3. QED
    BY <2>1, <2>2 DEF ParsedPrefixes
<1>2. h \in {1, 2}
  BY DEF Head6
<1>3. o = (<<t, p.bits>> \o middle) \o address
  BY DEF PrefixComponent
<1>4. middle \in Seq(Octet) /\ Len(middle) = h - 1
  <2>1. CASE six
    <3>1. middle = <<0>> /\ h = 2 /\ 0 \in Octet
      BY <2>1 DEF Head6, Octet
    <3>2. QED
      BY <3>1
  <2>2. CASE ~ six
    <3>1. middle = << >> /\ h = 1
      BY <2>2 DEF Head6
    <3>2. QED
      BY <3>1
  <2>3. QED
    BY <2>1, <2>2
<1>5. address \in Seq(Octet) /\ Len(address) = k
  <2> HIDE DEF k
  <2>1. 1 \in Nat /\ \A i \in 1 .. k : i \in 1 .. Len(p.addr)
    BY <1>1
  <2>2. address \in Seq(Octet)
    BY <1>1, <2>1, SubSeqProperties
  <2>3. QED
    BY <1>1, <2>2
<1>6. p.bits \in Octet /\ t \in Octet
  <2>1. Bits6(six) \in {32, 128}
    BY DEF Bits6
  <2>2. \A b \in {32, 128} : 0 .. b \subseteq Octet
    BY DEF Octet
  <2>3. p.bits \in Octet
    BY <1>1, <2>1, <2>2, Zenon
  <2>4. QED
    BY <2>3 DEF Octet, PrefixTypes
<1> HIDE DEF o, middle, address, h, k
<1>7. <<t, p.bits>> \in Seq(Octet) /\ Len(<<t, p.bits>>) = 2
      /\ <<t, p.bits>>[1] = t /\ <<t, p.bits>>[2] = p.bits
  BY <1>6
<1>8. n \in Nat /\ n >= 2
  BY <1>1, <1>2
<1>9. /\ o \in Seq(Octet) /\ Len(o) = n
      /\ o[1] = t /\ o[2] = p.bits
  BY <1>1, <1>2, <1>3, <1>4, <1>5, <1>7
<1>10. 1 + h + Octets(o[2]) = n /\ 1 + h <= n
  BY <1>1, <1>2, <1>9 DEF k
<1> HIDE DEF n
<1>11. /\ plan \in [0 .. n -> Marks]
       /\ plan[0] = "type" /\ plan[1] = "prefix" /\ plan[n] = "type"
       /\ \A i \in 2 .. n - 1 : plan[i] = "inside"
  BY <1>8 DEF Marks
<1> HIDE DEF plan
<1>12. Planned(plan, o, n, six, 0)
  <2>1. o[0 + 1] = t /\ 0 + 1 = 1 /\ t \in Types /\ t # FlowLabel
    BY <1>9 DEF PrefixTypes, Types, FlowLabel
  <2>2. TypeAt(plan, o, n, six, 0)
    BY <1>11, <2>1 DEF TypeAt
  <2>3. QED
    BY <1>11, <2>2 DEF Planned
<1>13. Planned(plan, o, n, six, 1)
  <2>1. o[1 + 1] = p.bits /\ o[1 + 1] \in 0 .. Bits6(six)
    BY <1>1, <1>9
  <2>2. 1 + h <= n /\ 1 + h + Octets(o[1 + 1]) = n /\ n <= n
    BY <1>8, <1>10
  <2>3. Skips(plan, 1, n)
    <3>1. \A i \in 1 + 1 .. n - 1 : i \in 2 .. n - 1
      OBVIOUS
    <3>2. QED
      BY <1>11, <3>1 DEF Skips
  <2>4. PrefixAt(plan, o, n, six, 1)
    BY <1>11, <2>1, <2>2, <2>3, Zenon DEF PrefixAt, h
  <2>5. QED
    BY <1>11, <2>4 DEF Planned
<1>14. \A i \in 2 .. n - 1 : Planned(plan, o, n, six, i)
  BY <1>11 DEF Planned
<1>15. \A i \in 0 .. n - 1 : i = 0 \/ i = 1 \/ i \in 2 .. n - 1
  BY <1>8
<1>16. \A i \in 0 .. n - 1 : Planned(plan, o, n, six, i)
  BY <1>12, <1>13, <1>14, <1>15, Zenon
<1>17. \A i \in 1 .. n - 1 : plan[i] # "type"
  <2>1. \A i \in 1 .. n - 1 : i = 1 \/ i \in 2 .. n - 1
    BY <1>8
  <2>2. QED
    BY <1>11, <2>1
<1>18. Component(plan, o, n, six, t)
  BY <1>8, <1>9, <1>11, <1>16, <1>17 DEF Component
<1>19. QED
  BY <1>18 DEF o

-----------------------------------------------------------------------------
(* What is planned at a place does not depend on where that place lies, or *)
(* on what comes behind what it is planned for.                            *)
LEMMA PlanMoves ==
  ASSUME NEW a, NEW x, NEW b, NEW y, NEW six,
         NEW d \in Nat, NEW l \in Nat, NEW k \in Nat, d + l <= k,
         \A i \in 0 .. l : b[d + i] = a[i],
         \A i \in 1 .. l : y[d + i] = x[i],
         NEW p \in 0 .. l - 1, Planned(a, x, l, six, p)
  PROVE  Planned(b, y, k, six, d + p)
<1> DEFINE r == d + p
           code == x[p + 1]
<1>1. /\ r \in Nat /\ r < k /\ p < l
      /\ b[r] = a[p] /\ y[r + 1] = code /\ b[r + 1] = a[p + 1]
  <2>1. r + 1 = d + (p + 1) /\ p + 1 \in 1 .. l /\ p + 1 \in 0 .. l /\ p \in 0 .. l
    OBVIOUS
  <2>2. QED
    BY <2>1
<1> HIDE DEF r
<1>2. ASSUME a[p] = "type" PROVE TypeAt(b, y, k, six, r)
  <2>1. /\ code \in Types
        /\ code = FlowLabel => six
        /\ a[p + 1] = IF code \in PrefixTypes THEN "prefix" ELSE "operators"
    BY <1>1, <1>2 DEF Planned, TypeAt
  <2> HIDE DEF code
  <2>2. QED
    BY <1>1, <2>1 DEF TypeAt
<1>3. ASSUME a[p] = "prefix" PROVE PrefixAt(b, y, k, six, r)
  <2> DEFINE h == Head6(six)
             e == Octets(code)
  <2>1. /\ p + h <= l /\ code \in 0 .. Bits6(six) /\ p + h + e <= l
        /\ a[p + h + e] = "type" /\ Skips(a, p, p + h + e)
    BY <1>3 DEF Planned, PrefixAt
  <2>2. h \in Nat
    BY DEF Head6
  <2>3. e \in Nat
    <3>1. Bits6(six) \in {32, 128}
      BY DEF Bits6
    <3>2. code \in Nat
      BY <2>1, <3>1
    <3> HIDE DEF code
    <3>3. QED
      BY <3>2 DEF Octets
  <2> HIDE DEF h
  <2>4. e = Octets(y[r + 1]) /\ y[r + 1] \in 0 .. Bits6(six)
    BY <1>1, <2>1
  <2> HIDE DEF e
  <2>5. p + h + e \in 0 .. l /\ d + (p + h + e) = r + h + e
    BY <2>1, <2>2, <2>3 DEF r
  <2>6. b[r + h + e] = a[p + h + e]
    BY <2>5
  <2>7. r + h <= k /\ r + h + e <= k
    BY <2>1, <2>2, <2>3 DEF r
  <2>8. Skips(b, r, r + h + e)
    <3>1. \A i \in p + 1 .. p + h + e - 1 : b[d + i] = "inside"
      BY <2>1, <2>2, <2>3 DEF Skips
    <3>2. \A j \in r + 1 .. (r + h + e) - 1 :
            j - d \in p + 1 .. p + h + e - 1 /\ d + (j - d) = j
      BY <2>2, <2>3 DEF r
    <3> DEFINE z == r + h + e
    <3>3. \A j \in r + 1 .. z - 1 : b[j] = "inside"
      <4>1. SUFFICES ASSUME NEW j \in r + 1 .. z - 1 PROVE b[j] = "inside"
        OBVIOUS
      <4>2. j - d \in p + 1 .. p + h + e - 1 /\ d + (j - d) = j
        BY <3>2
      <4>3. b[d + (j - d)] = "inside"
        BY <3>1, <4>2
      <4>4. QED
        BY <4>2, <4>3
    <3> HIDE DEF z
    <3>4. Skips(b, r, z)
      BY <3>3 DEF Skips
    <3>5. QED
      BY <3>4 DEF z
  <2>9. QED
    BY <2>1, <2>4, <2>6, <2>7, <2>8 DEF PrefixAt, h
<1>4. ASSUME a[p] = "operators" PROVE OperatorAt(b, y, k, r)
  <2> DEFINE w == Width(code)
  <2>1. /\ code \in Octet /\ p + 1 + w <= l
        /\ a[p + 1 + w] = IF code >= OpEnd THEN "type" ELSE "operators"
        /\ Skips(a, p, p + 1 + w)
    BY <1>4 DEF Planned, OperatorAt
  <2>2. w \in Nat
    BY <2>1, WidthOfOctet
  <2>3. w = Width(y[r + 1])
    BY <1>1
  <2> HIDE DEF w, code
  <2>4. p + 1 + w \in 0 .. l /\ d + (p + 1 + w) = r + 1 + w
    BY <2>1, <2>2 DEF r
  <2>5. b[r + 1 + w] = a[p + 1 + w]
    BY <2>4
  <2>6. r + 1 + w <= k
    BY <2>1, <2>2 DEF r
  <2>7. Skips(b, r, r + 1 + w)
    <3>1. \A i \in p + 1 .. p + 1 + w - 1 : b[d + i] = "inside"
      BY <2>1, <2>2 DEF Skips
    <3>2. \A j \in r + 1 .. (r + 1 + w) - 1 :
            j - d \in p + 1 .. p + 1 + w - 1 /\ d + (j - d) = j
      BY <2>2 DEF r
    <3> DEFINE z == r + 1 + w
    <3>3. \A j \in r + 1 .. z - 1 : b[j] = "inside"
      <4>1. SUFFICES ASSUME NEW j \in r + 1 .. z - 1 PROVE b[j] = "inside"
        OBVIOUS
      <4>2. j - d \in p + 1 .. p + 1 + w - 1 /\ d + (j - d) = j
        BY <3>2
      <4>3. b[d + (j - d)] = "inside"
        BY <3>1, <4>2
      <4>4. QED
        BY <4>2, <4>3
    <3> HIDE DEF z
    <3>4. Skips(b, r, z)
      BY <3>3 DEF Skips
    <3>5. QED
      BY <3>4 DEF z
  <2>8. QED
    BY <1>1, <2>1, <2>3, <2>5, <2>6, <2>7 DEF OperatorAt
<1>5. Planned(b, y, k, six, r)
  BY <1>1, <1>2, <1>3, <1>4 DEF Planned
<1>6. QED
  BY <1>5 DEF r

(* A plan, continued over further octets.                                  *)
Continues(plan, n, o, k, six, S) ==
  \E q : /\ Plan(q, o, k, six) /\ TypesBefore(q, o, k) = S
         /\ \A p \in 0 .. n : q[p] = plan[p]

(* A plan and a component whose type is higher than those before.          *)

LEMMA PlanGrows ==
  ASSUME NEW six,
         NEW plan, NEW o \in Seq(Octet), NEW n \in Nat, Len(o) = n, Plan(plan, o, n, six),
         NEW part, NEW c, NEW m, NEW t \in Types, Component(part, c, m, six, t),
         \A u \in TypesBefore(plan, o, n) : u < t
  PROVE  Continues(plan, n, o \o c, n + m, six, TypesBefore(plan, o, n) \cup {t})
<1> DEFINE oo == o \o c
           k == n + m
           q == [p \in 0 .. k |-> IF p <= n THEN plan[p] ELSE part[p - n]]
<1>1. /\ plan \in [0 .. n -> Marks] /\ plan[0] = "type" /\ plan[n] = "type"
      /\ \A p \in 0 .. n : Planned(plan, o, n, six, p)
      /\ Ascending(plan, o, n)
  BY DEF Plan
<1>2. /\ c \in Seq(Octet) /\ m \in Nat /\ m >= 1 /\ Len(c) = m /\ c[1] = t
      /\ part \in [0 .. m -> Marks] /\ part[0] = "type" /\ part[m] = "type"
      /\ \A p \in 0 .. m - 1 : Planned(part, c, m, six, p)
      /\ \A p \in 1 .. m - 1 : part[p] # "type"
  BY DEF Component
<1>3. /\ oo \in Seq(Octet) /\ Len(oo) = k
      /\ \A i \in 1 .. n : oo[i] = o[i]
      /\ \A i \in 1 .. m : oo[n + i] = c[i]
  BY <1>2
<1> HIDE DEF oo
<1>4. k \in Nat /\ k > n /\ k - n = m /\ k = n + m
  BY <1>2
<1> HIDE DEF k
<1>5. /\ \A p \in 0 .. n : q[p] = plan[p]
      /\ \A p \in 0 .. m : q[n + p] = part[p]
      /\ q \in [0 .. k -> Marks]
  <2>1. \A p \in 0 .. k : p \in 0 .. n \/ (~ (p <= n) /\ p - n \in 0 .. m)
    BY <1>2, <1>4
  <2>2. \A p \in 0 .. k : (IF p <= n THEN plan[p] ELSE part[p - n]) \in Marks
    BY <1>1, <1>2, <2>1
  <2>3. q \in [0 .. k -> Marks]
    BY <2>2
  <2>4. \A p \in 0 .. n : q[p] = plan[p]
    BY <1>4
  <2>5. ASSUME NEW p \in 0 .. m PROVE q[n + p] = part[p]
    <3>1. n + p \in 0 .. k /\ (n + p) - n = p
      BY <1>2, <1>4
    <3>2. CASE p = 0
      BY <1>1, <1>2, <1>4, <3>2
    <3>3. CASE p # 0
      BY <3>1, <3>3
    <3>4. QED
      BY <3>2, <3>3
  <2>6. QED
    BY <2>3, <2>4, <2>5
<1> HIDE DEF q
<1>6. \A p \in 0 .. n - 1 : Planned(q, oo, k, six, p)
  <2>1. SUFFICES ASSUME NEW p \in 0 .. n - 1 PROVE Planned(q, oo, k, six, p)
    OBVIOUS
  <2>2. /\ \A i \in 0 .. n : q[0 + i] = plan[i]
        /\ \A i \in 1 .. n : oo[0 + i] = o[i]
        /\ 0 \in Nat /\ 0 + n <= k
    <3>1. \A i \in 0 .. n : 0 + i = i
      OBVIOUS
    <3>2. \A i \in 0 .. n : q[0 + i] = plan[i]
      BY <1>5, <3>1
    <3>3. \A i \in 1 .. n : oo[0 + i] = o[i]
      <4>1. \A i \in 1 .. n : 0 + i = i
        OBVIOUS
      <4>2. QED
        BY <1>3, <4>1
    <3>4. QED
      BY <1>4, <3>2, <3>3
  <2>3. Planned(plan, o, n, six, p)
    BY <1>1
  <2>4. Planned(q, oo, k, six, 0 + p)
    BY <1>4, <2>2, <2>3, PlanMoves
  <2>5. 0 + p = p
    OBVIOUS
  <2>6. QED
    BY <2>4, <2>5
<1>7. ASSUME NEW p \in 0 .. m - 1 PROVE Planned(q, oo, k, six, n + p)
  <2>1. n + m <= k /\ Planned(part, c, m, six, p)
    BY <1>2, <1>4
  <2>2. QED
    BY <1>2, <1>3, <1>4, <1>5, <2>1, PlanMoves
<1>8. /\ q[0] = "type" /\ q[n] = "type" /\ q[k] = "type"
      /\ \A p \in n + 1 .. k - 1 : q[p] # "type"
  <2>1. q[0] = "type" /\ q[n] = "type"
    BY <1>1, <1>5
  <2>2. q[k] = part[m]
    BY <1>2, <1>4, <1>5
  <2>3. ASSUME NEW p \in n + 1 .. k - 1 PROVE q[p] # "type"
    <3>1. p - n \in 1 .. m - 1 /\ n + (p - n) = p /\ p - n \in 0 .. m
      BY <1>2, <1>4
    <3>2. q[p] = part[p - n]
      BY <1>5, <3>1
    <3>3. QED
      BY <1>2, <3>1, <3>2
  <2>4. QED
    BY <1>2, <2>1, <2>2, <2>3
<1>9. \A p \in 0 .. k : Planned(q, oo, k, six, p)
  <2>1. SUFFICES ASSUME NEW p \in 0 .. k PROVE Planned(q, oo, k, six, p)
    OBVIOUS
  <2>2. CASE p \in 0 .. n - 1
    BY <1>6, <2>2
  <2>3. CASE p \in n .. k - 1
    <3>1. p - n \in 0 .. m - 1 /\ n + (p - n) = p
      BY <1>2, <1>4, <2>3
    <3>2. Planned(q, oo, k, six, n + (p - n))
      BY <1>7, <3>1
    <3>3. QED
      BY <3>1, <3>2
  <2>4. CASE p = k
    <3>1. ~ (k < k)
      BY <1>4
    <3>2. TypeAt(q, oo, k, six, k)
      BY <3>1 DEF TypeAt
    <3>3. QED
      BY <1>8, <2>4, <3>2 DEF Planned
  <2>5. QED
    BY <1>4, <2>2, <2>3, <2>4
<1>10. ASSUME NEW p \in 0 .. n PROVE TypesBefore(q, oo, p) = TypesBefore(plan, o, p)
  <2>1. \A i \in 0 .. p - 1 : q[i] = plan[i] /\ oo[i + 1] = o[i + 1]
    BY <1>3, <1>5
  <2>2. QED
    BY <2>1 DEF TypesBefore
<1>11. oo[n + 1] = t
  BY <1>2, <1>3
<1>12. TypesBefore(q, oo, k) = TypesBefore(plan, o, n) \cup {t}
  <2>1. TypesBefore(plan, o, n) = TypesBefore(q, oo, n)
    BY <1>10
  <2>2. \A i : i \in 0 .. k - 1 /\ q[i] = "type" <=> (i \in 0 .. n - 1 /\ q[i] = "type") \/ i = n
    BY <1>4, <1>8
  <2>3. QED
    BY <1>11, <2>1, <2>2 DEF TypesBefore
<1>13. Ascending(q, oo, k)
  <2>1. SUFFICES ASSUME NEW p \in 0 .. k - 1, q[p] = "type", NEW u \in TypesBefore(q, oo, p)
                 PROVE  u < oo[p + 1]
    BY DEF Ascending
  <2>2. p \in 0 .. n
    BY <1>4, <1>8, <2>1
  <2>3. u \in TypesBefore(plan, o, p)
    BY <1>10, <2>2
  <2>4. CASE p = n
    BY <1>11, <2>3, <2>4
  <2>5. CASE p \in 0 .. n - 1
    <3>1. plan[p] = "type" /\ oo[p + 1] = o[p + 1]
      BY <1>3, <1>5, <2>1, <2>5
    <3>2. QED
      BY <1>1, <2>3, <2>5, <3>1 DEF Ascending
  <2>6. QED
    BY <2>2, <2>4, <2>5
<1>14. Plan(q, oo, k, six)
  BY <1>5, <1>8, <1>9, <1>13 DEF Plan
<1>15. Continues(plan, n, oo, k, six, TypesBefore(plan, o, n) \cup {t})
  BY <1>5, <1>12, <1>14 DEF Continues
<1>16. QED
  BY <1>15 DEF k, oo
-----------------------------------------------------------------------------
(* The lists of a rule as operations: bits and an operand each.            *)
Operand == {v \in Seq(Octet) : Value(v)}

Operated == Codes \X Operand

OperationsOf(pairs) ==
  [i \in DOMAIN pairs |-> Operation(pairs[i][1], pairs[i][2], i, Len(pairs))]

NumericList(items) == FlattenSeq([i \in DOMAIN items |-> NumericPairs(items[i])])

FlagPair(t, item) ==
  <<(IF item.match THEN 1 ELSE 0) + (IF item.negate THEN 2 ELSE 0), ResolveFlags(t, item)>>

BitmaskList(t, items) == [i \in DOMAIN items |-> FlagPair(t, items[i])]

LEMMA ListsAreOperations ==
  ASSUME NEW t, NEW items
  PROVE  /\ NumericComponent(t, items) = <<t>> \o FlattenSeq(OperationsOf(NumericList(items)))
         /\ items \in Seq(Range(items)) =>
              BitmaskComponent(t, items) = <<t>> \o FlattenSeq(OperationsOf(BitmaskList(t, items)))
<1>1. NumericComponent(t, items) = <<t>> \o FlattenSeq(OperationsOf(NumericList(items)))
  BY DEF NumericComponent, OperationsOf, NumericList
<1>2. ASSUME items \in Seq(Range(items))
      PROVE  BitmaskComponent(t, items)
             = <<t>> \o FlattenSeq(OperationsOf(BitmaskList(t, items)))
  <2> DEFINE count == Len(items)
             pairs == BitmaskList(t, items)
  <2>1. count \in Nat /\ DOMAIN items = 1 .. count
    BY <1>2
  <2>2. DOMAIN pairs = 1 .. count /\ Len(pairs) = count
    <3>1. DOMAIN pairs = 1 .. count
      BY <2>1 DEF BitmaskList
    <3> HIDE DEF pairs, count
    <3>2. QED
      BY <2>1, <3>1
  <2>3. \A i \in DOMAIN items :
          Operation(pairs[i][1], pairs[i][2], i, Len(pairs))
          = Operation((IF items[i].match THEN 1 ELSE 0) + (IF items[i].negate THEN 2 ELSE 0),
                      ResolveFlags(t, items[i]), i, count)
    <3>1. \A i \in DOMAIN items : pairs[i] = FlagPair(t, items[i])
      BY DEF BitmaskList
    <3> HIDE DEF pairs, count
    <3>2. \A i \in DOMAIN items :
            /\ pairs[i][1] = (IF items[i].match THEN 1 ELSE 0) + (IF items[i].negate THEN 2 ELSE 0)
            /\ pairs[i][2] = ResolveFlags(t, items[i])
      BY <3>1 DEF FlagPair
    <3>3. QED
      BY <2>2, <3>2
  <2>4. OperationsOf(pairs) = [i \in DOMAIN items |->
          Operation((IF items[i].match THEN 1 ELSE 0) + (IF items[i].negate THEN 2 ELSE 0),
                    ResolveFlags(t, items[i]), i, count)]
    <3> HIDE DEF pairs, count
    <3>1. QED
      BY <2>1, <2>2, <2>3, Zenon DEF OperationsOf
  <2>5. QED
    BY <2>4, Zenon DEF BitmaskComponent
<1>3. QED
  BY <1>1, <1>2

LEMMA OperationsOfPairs ==
  ASSUME NEW pairs \in Seq(Operated), pairs # << >>
  PROVE  /\ Operations(OperationsOf(pairs))
         /\ Len(OperationsOf(pairs)) = Len(pairs)
         /\ \A i \in 1 .. Len(pairs) :
              OperationsOf(pairs)[i] = Operation(pairs[i][1], pairs[i][2], i, Len(pairs))
<1> DEFINE ops == OperationsOf(pairs)
           count == Len(pairs)
<1>1. count \in Nat /\ count >= 1 /\ DOMAIN pairs = 1 .. count
  OBVIOUS
<1> HIDE DEF count
<1>2. ASSUME NEW i \in 1 .. count
      PROVE  IsOperation(Operation(pairs[i][1], pairs[i][2], i, count), i = count)
  <2>1. pairs[i] \in Operated
    BY <1>1
  <2>2. pairs[i][1] \in Codes /\ pairs[i][2] \in Operand
    BY <2>1 DEF Operated
  <2>3. pairs[i][2] \in Seq(Octet) /\ Len(pairs[i][2]) \in 1 .. 8
    BY <2>2 DEF Operand, Value
  <2>4. i \in Nat /\ count \in Nat
    BY <1>1
  <2>5. QED
    BY <2>2, <2>3, <2>4, OperationShape
<1>3. \A i \in 1 .. count : Operation(pairs[i][1], pairs[i][2], i, count) \in Seq(Octet)
  BY <1>2 DEF IsOperation
<1>4. ops \in [1 .. count -> Seq(Octet)]
  BY <1>1, <1>3 DEF OperationsOf, count
<1>5. \A i \in 1 .. count : ops[i] = Operation(pairs[i][1], pairs[i][2], i, count)
  BY <1>1 DEF OperationsOf, count
<1> HIDE DEF ops
<1>6. ops \in Seq(Seq(Octet)) /\ Len(ops) = count
  BY <1>1, <1>4, FunctionIsSequence
<1>7. ops # << >>
  BY <1>1, <1>6
<1>8. \A i \in 1 .. Len(ops) : IsOperation(ops[i], i = Len(ops))
  BY <1>2, <1>5, <1>6
<1>9. Operations(ops)
  BY <1>6, <1>7, <1>8 DEF Operations
<1>10. QED
  BY <1>5, <1>6, <1>9 DEF ops, count

LEMMA ValueIsOperand ==
  ASSUME NEW v, Value(v)
  PROVE  v \in Operand
BY DEF Value, Operand

(* What resolve_flags returns is a value, as a number or by its names.     *)
LEMMA FlagsAreOperand ==
  ASSUME NEW t, NEW item, BitmaskItem(item)
  PROVE  ResolveFlags(t, item) \in Operand
<1>1. CASE "names" \in DOMAIN item
  <2> DEFINE value == NamedValue(t, item.names)
  <2>1. value \in Octet
    BY NamedValueBits
  <2>2. ResolveFlags(t, item) = <<value>>
    BY <1>1 DEF ResolveFlags
  <2> HIDE DEF value
  <2>3. Value(<<value>>)
    <3>1. <<value>> \in Seq(Octet) /\ Len(<<value>>) = 1
      BY <2>1
    <3>2. QED
      BY <3>1 DEF Value
  <2>4. QED
    BY <2>2, <2>3, ValueIsOperand
<1>2. CASE "names" \notin DOMAIN item
  <2>1. Value(item.flags)
    BY <1>2 DEF BitmaskItem
  <2>2. ResolveFlags(t, item) = item.flags
    BY <1>2 DEF ResolveFlags
  <2>3. QED
    BY <2>1, <2>2, ValueIsOperand
<1>3. QED
  BY <1>1, <1>2

LEMMA BitmaskListShape ==
  ASSUME NEW t, NEW items, items \in Seq(Range(items)), items # << >>,
         \A item \in Range(items) : BitmaskItem(item)
  PROVE  /\ BitmaskList(t, items) \in Seq(Operated) /\ BitmaskList(t, items) # << >>
         /\ Len(BitmaskList(t, items)) = Len(items)
         /\ \A i \in 1 .. Len(items) : BitmaskList(t, items)[i] = FlagPair(t, items[i])
<1> DEFINE count == Len(items)
           pairs == BitmaskList(t, items)
<1>1. count \in Nat /\ count >= 1 /\ DOMAIN items = 1 .. count
  OBVIOUS
<1> HIDE DEF count
<1>2. ASSUME NEW i \in 1 .. count PROVE FlagPair(t, items[i]) \in Operated
  <2> DEFINE item == items[i]
             bits == (IF item.match THEN 1 ELSE 0) + (IF item.negate THEN 2 ELSE 0)
  <2>1. BitmaskItem(item)
    BY <1>1 DEF Range
  <2> HIDE DEF item
  <2>2. bits \in Codes
    BY DEF Codes
  <2>3. ResolveFlags(t, item) \in Operand
    BY <2>1, FlagsAreOperand
  <2>4. FlagPair(t, item) = <<bits, ResolveFlags(t, item)>>
    BY DEF FlagPair
  <2> HIDE DEF bits
  <2>5. FlagPair(t, item) \in Operated
    BY <2>2, <2>3, <2>4 DEF Operated
  <2>6. QED
    BY <2>5 DEF item
<1>3. pairs \in [1 .. count -> Operated]
  BY <1>1, <1>2 DEF BitmaskList
<1>4. \A i \in 1 .. count : pairs[i] = FlagPair(t, items[i])
  BY <1>1 DEF BitmaskList
<1> HIDE DEF pairs
<1>5. pairs \in Seq(Operated) /\ Len(pairs) = count
  BY <1>1, <1>3, FunctionIsSequence
<1>6. pairs # << >>
  BY <1>1, <1>5
<1>7. QED
  BY <1>4, <1>5, <1>6 DEF pairs, count

LEMMA PairsAreOperated ==
  ASSUME NEW item, NumericItem(item), NEW name \in DOMAIN item
  PROVE  Pairs(name, item[name]) \in Seq(Operated)
<1> DEFINE operand == item[name]
<1>1. name \in {"eq", "lt", "le", "gt", "ge", "range"}
  BY DEF NumericItem, Comparisons, Range
<1>2. IF name = "range" THEN Value(operand[1]) /\ Value(operand[2]) ELSE Value(operand)
  BY DEF NumericItem
<1>3. /\ OpEq \in Codes /\ OpLt \in Codes /\ OpGt \in Codes
      /\ OpLt + OpEq \in Codes /\ OpGt + OpEq \in Codes /\ OpAnd + OpLt + OpEq \in Codes
  BY DEF OpEq, OpLt, OpGt, OpAnd, Codes
<1> HIDE DEF operand
<1>4. CASE name = "range"
  <2>1. operand[1] \in Operand /\ operand[2] \in Operand
    BY <1>2, <1>4, ValueIsOperand
  <2>2. Pairs(name, operand)
        = << <<OpGt + OpEq, operand[1]>>, <<OpAnd + OpLt + OpEq, operand[2]>> >>
    BY <1>4 DEF Pairs
  <2>3. <<OpGt + OpEq, operand[1]>> \in Operated
        /\ <<OpAnd + OpLt + OpEq, operand[2]>> \in Operated
    BY <1>3, <2>1 DEF Operated
  <2>4. Pairs(name, operand) \in Seq(Operated)
    BY <2>2, <2>3
  <2>5. QED
    BY <2>4 DEF operand
<1>5. CASE name # "range"
  <2> DEFINE code == CASE name = "eq" -> OpEq
                       [] name = "lt" -> OpLt
                       [] name = "le" -> OpLt + OpEq
                       [] name = "gt" -> OpGt
                       [] name = "ge" -> OpGt + OpEq
  <2>1. operand \in Operand
    BY <1>2, <1>5, ValueIsOperand
  <2>2. Pairs(name, operand) = << <<code, operand>> >>
    BY <1>5 DEF Pairs
  <2>3. code \in Codes
    BY <1>1, <1>3, <1>5
  <2> HIDE DEF code
  <2>4. <<code, operand>> \in Operated
    BY <2>1, <2>3 DEF Operated
  <2>5. Pairs(name, operand) \in Seq(Operated)
    BY <2>2, <2>4
  <2>6. QED
    BY <2>5 DEF operand
<1>6. QED
  BY <1>4, <1>5

LEMMA SequencesFlatten ==
  ASSUME NEW S, NEW s \in Seq(Seq(S))
  PROVE  FlattenSeq(s) \in Seq(S)
BY FlattenCovers

LEMMA NumericPairsShape ==
  ASSUME NEW item, NumericItem(item)
  PROVE  NumericPairs(item) \in Seq(Operated)
<1> DEFINE s == [i \in DOMAIN Comparisons |->
                   IF Comparisons[i] \in DOMAIN item
                   THEN Pairs(Comparisons[i], item[Comparisons[i]]) ELSE << >>]
<1>1. DOMAIN Comparisons = 1 .. 6 /\ 6 \in Nat
  BY DEF Comparisons
<1>2. ASSUME NEW i \in DOMAIN Comparisons
      PROVE  (IF Comparisons[i] \in DOMAIN item
              THEN Pairs(Comparisons[i], item[Comparisons[i]]) ELSE << >>) \in Seq(Operated)
  <2>1. CASE Comparisons[i] \in DOMAIN item
    <3>1. Pairs(Comparisons[i], item[Comparisons[i]]) \in Seq(Operated)
      BY <2>1, PairsAreOperated
    <3>2. QED
      BY <2>1, <3>1
  <2>2. CASE Comparisons[i] \notin DOMAIN item
    BY <2>2
  <2>3. QED
    BY <2>1, <2>2
<1>3. s \in [1 .. 6 -> Seq(Operated)]
  BY <1>1, <1>2
<1>4. s \in Seq(Seq(Operated))
  <2> DEFINE size == 6
  <2>1. size \in Nat /\ s \in [1 .. size -> Seq(Operated)]
    BY <1>3
  <2> HIDE DEF size, s
  <2>2. QED
    BY <2>1, FunctionIsSequence
<1> HIDE DEF s
<1>5. FlattenSeq(s) \in Seq(Operated)
  BY <1>4, SequencesFlatten
<1>6. QED
  BY <1>5 DEF NumericPairs, s

LEMMA NumericListShape ==
  ASSUME NEW items, items \in Seq(Range(items)), items # << >>,
         \A item \in Range(items) : NumericItem(item),
         \A i \in DOMAIN items : OneOperator(items[i])
  PROVE  NumericList(items) \in Seq(Operated) /\ NumericList(items) # << >>
<1> DEFINE parts == [i \in DOMAIN items |-> NumericPairs(items[i])]
           pairs == FlattenSeq(parts)
<1>1. Len(items) \in Nat /\ Len(items) >= 1 /\ DOMAIN items = 1 .. Len(items)
  OBVIOUS
<1>2. \A i \in DOMAIN items : NumericPairs(items[i]) \in Seq(Operated)
  <2>1. \A i \in DOMAIN items : items[i] \in Range(items)
    BY DEF Range
  <2>2. QED
    BY <2>1, NumericPairsShape
<1>3. parts \in Seq(Seq(Operated)) /\ Len(parts) = Len(items)
      /\ parts[1] = NumericPairs(items[1]) /\ 1 \in 1 .. Len(parts)
  <2>1. parts \in [1 .. Len(items) -> Seq(Operated)]
    BY <1>1, <1>2
  <2>2. parts[1] = NumericPairs(items[1])
    BY <1>1
  <2> HIDE DEF parts
  <2>3. parts \in Seq(Seq(Operated)) /\ Len(parts) = Len(items)
    BY <1>1, <2>1, FunctionIsSequence
  <2>4. QED
    BY <1>1, <2>2, <2>3
<1> HIDE DEF parts
<1>4. pairs \in Seq(Operated) /\ Range(parts[1]) \subseteq Range(pairs)
  BY <1>3, FlattenCovers
<1> HIDE DEF pairs
<1>5. pairs # << >>
  <2>1. Len(parts[1]) \in {1, 2} /\ parts[1] \in Seq(Operated)
    <3>1. OneOperator(items[1])
      BY <1>1
    <3>2. QED
      BY <1>3, <3>1 DEF OneOperator
  <2>2. parts[1][1] \in Range(parts[1])
    BY <2>1 DEF Range
  <2>3. parts[1][1] \in Range(pairs)
    BY <1>4, <2>2
  <2>4. DOMAIN pairs # {}
    BY <2>3 DEF Range
  <2>5. QED
    BY <1>4, <2>4
<1>6. QED
  BY <1>4, <1>5 DEF pairs, parts, NumericList

LEMMA NumericLaidOut ==
  ASSUME NEW t \in Types \ PrefixTypes, NEW six, t = FlowLabel => six,
         NEW items, items \in Seq(Range(items)), items # << >>,
         \A item \in Range(items) : NumericItem(item),
         \A i \in DOMAIN items : OneOperator(items[i])
  PROVE  \E plan, n : Component(plan, NumericComponent(t, items), n, six, t)
<1> DEFINE ops == OperationsOf(NumericList(items))
<1>1. Operations(ops)
  BY NumericListShape, OperationsOfPairs
<1> HIDE DEF ops
<1>2. \E plan, n : Component(plan, <<t>> \o FlattenSeq(ops), n, six, t)
  BY <1>1, ListComponent
<1>3. NumericComponent(t, items) = <<t>> \o FlattenSeq(ops)
  BY ListsAreOperations DEF ops
<1>4. QED
  BY <1>2, <1>3

LEMMA BitmaskLaidOut ==
  ASSUME NEW t \in BitmaskTypes, NEW six,
         NEW items, items \in Seq(Range(items)), items # << >>,
         \A item \in Range(items) : BitmaskItem(item)
  PROVE  \E plan, n : Component(plan, BitmaskComponent(t, items), n, six, t)
<1> DEFINE ops == OperationsOf(BitmaskList(t, items))
<1>1. t \in Types \ PrefixTypes /\ t # FlowLabel
  BY DEF Types, PrefixTypes, BitmaskTypes, FlowLabel
<1>2. Operations(ops)
  BY BitmaskListShape, OperationsOfPairs
<1> HIDE DEF ops
<1>3. BitmaskComponent(t, items) = <<t>> \o FlattenSeq(ops)
  BY ListsAreOperations DEF ops
<1>4. \E plan, n : Component(plan, <<t>> \o FlattenSeq(ops), n, six, t)
  BY <1>1, <1>2, ListComponent
<1>5. QED
  BY <1>3, <1>4
-----------------------------------------------------------------------------
(* The inductive invariant.  Up to where raw octets begin the components   *)
(* have a plan, and its types are those of the rule that the encoder has   *)
(* passed; a reader that has not passed that boundary is where the plan    *)
(* says, and has found the types before it.                                *)
Boundary == IF at = 15 THEN Typed ELSE Len(comps)

Passed == {t \in DOMAIN rule.parts : t < at}

(* What the encoder writes for a type.                                     *)
Written(r, t) ==
  IF t \in PrefixTypes THEN PrefixComponent(t, r.parts[t])
  ELSE IF t \in BitmaskTypes THEN BitmaskComponent(t, r.parts[t])
  ELSE NumericComponent(t, r.parts[t])

(* Where the plan has a type, these octets stand.                          *)
Carries(plan, o, n, w) ==
  /\ Len(w) \in Nat
  /\ \E p \in 0 .. n :
       plan[p] = "type" /\ p + Len(w) <= n /\ \A i \in 1 .. Len(w) : o[p + i] = w[i]

Keeps(plan) ==
  \A t \in Passed : Encodable(rule, t) /\ Carries(plan, comps, Boundary, Written(rule, t))

Laid(plan) ==
  /\ Plan(plan, comps, Boundary, V6(rule))
  /\ TypesBefore(plan, comps, Boundary) = Passed
  /\ Keeps(plan)

Located(plan) ==
  \A t \in DOMAIN found :
    found[t] \in 1 .. pos /\ plan[found[t] - 1] = "type" /\ comps[found[t]] = t

Follows(plan) ==
  pos <= Boundary =>
    /\ plan[pos] = reading
    /\ DOMAIN found = TypesBefore(plan, comps, pos)
    /\ last \in DOMAIN found \/ (last = 0 /\ DOMAIN found = {})
    /\ \A t \in DOMAIN found : t <= last
    /\ Located(plan)

States ==
  /\ rule \in Rules
  /\ phase \in Phases
  /\ at \in 1 .. 15
  /\ comps \in Seq(Octet)
  /\ reading \in {"type", "prefix", "operators"}
  /\ pos \in 0 .. Len(comps)

BeforeReading ==
  /\ phase = "validate" => at = 1 /\ comps = << >>
  /\ phase \in {"validate", "encode"} =>
       pos = 0 /\ last = 0 /\ reading = "type" /\ DOMAIN found = {}

RawBehind ==
  at = 15 =>
    /\ Len(rule.raw) <= Len(comps)
    /\ \A i \in 1 .. Len(rule.raw) : comps[Boundary + i] = rule.raw[i]

FramedSo ==
  Framed => at = 15 /\ Len(comps) \in Lengths /\ nlri = LengthOctets(Len(comps)) \o comps

WellLaid ==
  phase # "refused" => \E plan : Laid(plan) /\ (Framed => Follows(plan))

IInv ==
  /\ States
  /\ BeforeReading
  /\ RawBehind
  /\ FramedSo
  /\ WellLaid
  /\ OnlyRawViolates

(* What the rule is known to be.                                           *)
LEMMA RuleShape ==
  ASSUME NEW r \in Rules
  PROVE  /\ DOMAIN r.parts \subseteq Types
         /\ \A t \in DOMAIN r.parts \cap PrefixTypes : r.parts[t] \in ParsedPrefixes
         /\ \A t \in DOMAIN r.parts \ PrefixTypes :
              /\ r.parts[t] \in Seq(Range(r.parts[t])) /\ r.parts[t] # << >>
              /\ \A item \in Range(r.parts[t]) :
                   IF t \in BitmaskTypes THEN BitmaskItem(item) ELSE NumericItem(item)
         /\ r.raw \in Seq(Octet)
         /\ r.hex # "octets" => r.raw = << >>
BY RulesAssumption, Zenon

(* The empty plan.                                                         *)
LEMMA NothingLaid ==
  ASSUME NEW six
  PROVE  \E plan : /\ Plan(plan, << >>, 0, six)
                   /\ TypesBefore(plan, << >>, 0) = {}
<1> DEFINE plan == [p \in 0 .. 0 |-> "type"]
<1>1. plan \in [0 .. 0 -> Marks] /\ plan[0] = "type" /\ \A p \in 0 .. 0 : p = 0
  BY DEF Marks
<1>2. 0 .. 0 - 1 = {} /\ ~ (0 < 0)
  OBVIOUS
<1> HIDE DEF plan
<1>3. Planned(plan, << >>, 0, six, 0)
  BY <1>1, <1>2 DEF Planned, TypeAt
<1>4. Ascending(plan, << >>, 0)
  BY <1>2 DEF Ascending
<1>5. Plan(plan, << >>, 0, six)
  BY <1>1, <1>3, <1>4 DEF Plan
<1>6. TypesBefore(plan, << >>, 0) = {}
  BY <1>2 DEF TypesBefore
<1>7. QED
  BY <1>5, <1>6

(* Whatever comes behind it, a plan remains one of what it is for.         *)
LEMMA PlanStays ==
  ASSUME NEW six, NEW plan, NEW o, NEW y, NEW n \in Nat, Plan(plan, o, n, six),
         \A i \in 1 .. n : y[i] = o[i]
  PROVE  /\ Plan(plan, y, n, six)
         /\ TypesBefore(plan, y, n) = TypesBefore(plan, o, n)
<1>1. /\ plan \in [0 .. n -> Marks] /\ plan[0] = "type" /\ plan[n] = "type"
      /\ \A p \in 0 .. n : Planned(plan, o, n, six, p)
      /\ Ascending(plan, o, n)
  BY DEF Plan
<1>2. \A p \in 0 .. n - 1 : Planned(plan, y, n, six, p)
  <2>1. SUFFICES ASSUME NEW p \in 0 .. n - 1 PROVE Planned(plan, y, n, six, p)
    OBVIOUS
  <2>2. /\ \A i \in 0 .. n : plan[0 + i] = plan[i]
        /\ \A i \in 1 .. n : y[0 + i] = o[i]
        /\ 0 \in Nat /\ 0 + n <= n
    OBVIOUS
  <2>3. Planned(plan, o, n, six, p)
    BY <1>1
  <2>4. Planned(plan, y, n, six, 0 + p)
    BY <2>2, <2>3, PlanMoves
  <2>5. 0 + p = p
    OBVIOUS
  <2>6. QED
    BY <2>4, <2>5
<1>3. Planned(plan, y, n, six, n)
  <2>1. TypeAt(plan, y, n, six, n)
    BY DEF TypeAt
  <2>2. QED
    BY <1>1, <2>1 DEF Planned
<1>4. \A p \in 0 .. n : Planned(plan, y, n, six, p)
  <2>1. \A p \in 0 .. n : p = n \/ p \in 0 .. n - 1
    OBVIOUS
  <2>2. QED
    BY <1>2, <1>3, <2>1, Zenon
<1>5. ASSUME NEW p \in 0 .. n PROVE TypesBefore(plan, y, p) = TypesBefore(plan, o, p)
  <2>1. \A i \in 0 .. p - 1 : y[i + 1] = o[i + 1]
    OBVIOUS
  <2>2. QED
    BY <2>1 DEF TypesBefore
<1>6. Ascending(plan, y, n)
  <2>1. SUFFICES ASSUME NEW p \in 0 .. n - 1, plan[p] = "type", NEW u \in TypesBefore(plan, y, p)
                 PROVE  u < y[p + 1]
    BY DEF Ascending
  <2>2. u \in TypesBefore(plan, o, p) /\ y[p + 1] = o[p + 1]
    BY <1>5
  <2>3. QED
    BY <1>1, <2>1, <2>2 DEF Ascending
<1>7. QED
  BY <1>1, <1>4, <1>5, <1>6 DEF Plan

(* What a plan carries it carries on, further octets or not.               *)
LEMMA CarriesOn ==
  ASSUME NEW plan, NEW o, NEW n \in Nat, NEW w, NEW q, NEW y, NEW k \in Nat, n <= k,
         \A p \in 0 .. n : q[p] = plan[p], \A i \in 1 .. n : y[i] = o[i],
         Carries(plan, o, n, w)
  PROVE  Carries(q, y, k, w)
<1> DEFINE len == Len(w)
<1>1. PICK p \in 0 .. n :
        plan[p] = "type" /\ p + len <= n /\ \A i \in 1 .. len : o[p + i] = w[i]
  BY DEF Carries
<1>2. len \in Nat
  BY DEF Carries
<1> HIDE DEF len
<1>3. p \in 0 .. k /\ p + len <= k /\ q[p] = "type"
  BY <1>1, <1>2
<1>4. \A i \in 1 .. len : y[p + i] = w[i]
  <2>1. \A i \in 1 .. len : p + i \in 1 .. n
    BY <1>1, <1>2
  <2>2. QED
    BY <1>1, <2>1
<1>5. QED
  BY <1>2, <1>3, <1>4 DEF Carries, len

LEMMA InitInv == Init => IInv
<1>1. SUFFICES ASSUME Init PROVE IInv
  OBVIOUS
<1>2. /\ rule \in Rules /\ phase = "validate" /\ at = 1 /\ comps = << >> /\ pos = 0
      /\ last = 0 /\ reading = "type" /\ found = << >>
  BY <1>1 DEF Init
<1>3. Len(comps) = 0 /\ comps \in Seq(Octet) /\ DOMAIN found = {}
  BY <1>2
<1>4. Passed = {}
  BY <1>2, RuleShape DEF Passed, Types
<1>5. Boundary = 0
  BY <1>2, <1>3 DEF Boundary
<1>6. \E plan : Laid(plan)
  BY <1>2, <1>4, <1>5, NothingLaid DEF Laid, Keeps
<1>7. ~ Framed
  BY <1>2 DEF Framed
<1>8. QED
  BY <1>2, <1>3, <1>6, <1>7
     DEF IInv, States, Phases, BeforeReading, RawBehind, FramedSo, WellLaid, OnlyRawViolates
(* What holds while the encoder is at one of the typed components.         *)
LEMMA WhileEncoding ==
  ASSUME IInv, phase = "encode"
  PROVE  /\ States /\ BeforeReading /\ RawBehind
         /\ pos = 0 /\ last = 0 /\ reading = "type" /\ DOMAIN found = {}
         /\ ~ Framed
         /\ \E plan : Laid(plan)
<1>1. ~ Framed
  BY DEF Framed
<1>2. QED
  BY <1>1 DEF IInv, BeforeReading, WellLaid

(* The step of a typed component leaves a plan of one component more.      *)
LEMMA ComponentAppended ==
  ASSUME IInv, Encoding(Types), NEW octets, Appends(octets),
         octets = Written(rule, at),
         NEW part, NEW m, Component(part, octets, m, V6(rule), at)
  PROVE  IInv'
<1>1. /\ phase = "encode" /\ at \in 1 .. 13 /\ at \in DOMAIN rule.parts
      /\ Encodable(rule, at)
      /\ comps' = comps \o octets /\ at' = at + 1
      /\ rule' = rule /\ phase' = phase /\ nlri' = nlri
      /\ pos' = pos /\ last' = last /\ reading' = reading /\ found' = found
  BY DEF Encoding, Types, Appends, readVars
<1>2. /\ States /\ BeforeReading /\ RawBehind
      /\ pos = 0 /\ last = 0 /\ reading = "type" /\ DOMAIN found = {}
      /\ ~ Framed
      /\ \E plan : Laid(plan)
  BY <1>1, WhileEncoding
<1>3. PICK plan : Laid(plan)
  BY <1>2
<1>4. octets \in Seq(Octet) /\ m \in Nat /\ Len(octets) = m
  BY DEF Component
<1>5. comps \in Seq(Octet) /\ Len(comps) \in Nat /\ rule \in Rules
  BY <1>2 DEF States
<1>6. comps' \in Seq(Octet) /\ Len(comps') = Len(comps) + m
  <2>1. comps \o octets \in Seq(Octet) /\ Len(comps \o octets) = Len(comps) + m
    BY <1>4, <1>5
  <2>2. QED
    BY <1>1, <2>1, Zenon
<1>7. Boundary = Len(comps) /\ Boundary' = Len(comps) + m /\ at' # 15
  BY <1>1, <1>6 DEF Boundary
<1>8. /\ Plan(plan, comps, Len(comps), V6(rule))
      /\ TypesBefore(plan, comps, Len(comps)) = Passed
  BY <1>3, <1>7 DEF Laid
<1>9. \A u \in Passed : u < at
  BY DEF Passed
<1>10. PICK q : /\ Plan(q, comps \o octets, Len(comps) + m, V6(rule))
                /\ TypesBefore(q, comps \o octets, Len(comps) + m) = Passed \cup {at}
                /\ \A p \in 0 .. Len(comps) : q[p] = plan[p]
  <2>1. at \in Types
    BY <1>1 DEF Types
  <2>2. \A u \in TypesBefore(plan, comps, Len(comps)) : u < at
    BY <1>8, <1>9
  <2>3. PICK q : /\ Plan(q, comps \o octets, Len(comps) + m, V6(rule))
                 /\ TypesBefore(q, comps \o octets, Len(comps) + m)
                    = TypesBefore(plan, comps, Len(comps)) \cup {at}
                 /\ \A p \in 0 .. Len(comps) : q[p] = plan[p]
    <3> DEFINE n == Len(comps)
               six == V6(rule)
               t == at
    <3>1. /\ n \in Nat /\ Len(comps) = n /\ Plan(plan, comps, n, six)
          /\ t \in Types /\ Component(part, octets, m, six, t)
          /\ \A u \in TypesBefore(plan, comps, n) : u < t
      BY <1>5, <1>8, <2>1, <2>2
    <3> HIDE DEF n, six, t
    <3>2. Continues(plan, n, comps \o octets, n + m, six, TypesBefore(plan, comps, n) \cup {t})
      BY <1>5, <3>1, PlanGrows
    <3>3. QED
      BY <3>2 DEF n, six, t, Continues
  <2>4. QED
    BY <1>8, <2>3
<1>11. Passed' = Passed \cup {at}
  <2>1. DOMAIN rule.parts \subseteq 1 .. 13
    BY <1>5, RuleShape DEF Types
  <2>2. \A u \in DOMAIN rule.parts : u < at + 1 <=> u < at \/ u = at
    BY <1>1, <2>1
  <2>3. QED
    BY <1>1, <2>2 DEF Passed
<1>12. V6(rule)' = V6(rule)
  BY <1>1 DEF V6, Given
<1>13. Laid(q)'
  <2> DEFINE n == Len(comps)
             k == n + m
             o == comps
             y == comps \o octets
  <2>1. /\ n \in Nat /\ k \in Nat /\ n <= k /\ plan[n] = "type"
        /\ \A i \in 1 .. n : y[i] = o[i]
        /\ \A i \in 1 .. m : y[n + i] = octets[i]
    BY <1>4, <1>5, <1>8 DEF Plan
  <2>2. /\ \A p \in 0 .. n : q[p] = plan[p]
        /\ \A u \in Passed : Encodable(rule, u) /\ Carries(plan, o, n, Written(rule, u))
    BY <1>3, <1>7, <1>10 DEF Laid, Keeps
  <2>3. k = Boundary' /\ y = comps'
    BY <1>1, <1>7
  <2> HIDE DEF n, k, o, y
  <2>4. Carries(q, y, k, octets)
    <3>1. n \in 0 .. k /\ n \in 0 .. n /\ k = n + m
      BY <2>1 DEF k
    <3>2. q[n] = "type" /\ n + m <= k
      BY <2>1, <2>2, <3>1
    <3>3. QED
      BY <1>4, <2>1, <3>1, <3>2 DEF Carries
  <2>5. \A u \in Passed \cup {at} : Encodable(rule, u) /\ Carries(q, y, k, Written(rule, u))
    <3>1. ASSUME NEW u \in Passed PROVE Carries(q, y, k, Written(rule, u))
      <4> DEFINE w == Written(rule, u)
      <4>1. Carries(plan, o, n, w)
        BY <2>2
      <4> HIDE DEF w
      <4>2. Carries(q, y, k, w)
        BY <2>1, <2>2, <4>1, CarriesOn
      <4>3. QED
        BY <4>2 DEF w
    <3>2. QED
      BY <1>1, <2>2, <2>4, <3>1
  <2>6. Keeps(q)'
    BY <1>1, <1>11, <2>3, <2>5 DEF Keeps
  <2>7. QED
    BY <1>1, <1>7, <1>10, <1>11, <1>12, <2>6 DEF Laid
<1>14. States'
  BY <1>1, <1>2, <1>6 DEF States
<1>15. (~ Framed)' /\ OnlyRawViolates'
  BY <1>1 DEF Framed, OnlyRawViolates
<1>16. BeforeReading' /\ RawBehind' /\ FramedSo'
  BY <1>1, <1>2, <1>7, <1>15 DEF BeforeReading, RawBehind, FramedSo
<1>17. WellLaid'
  BY <1>13, <1>15 DEF WellLaid
<1>18. QED
  BY <1>14, <1>15, <1>16, <1>17 DEF IInv

LEMMA PrefixInv ==
  ASSUME IInv, EncodePrefix
  PROVE  IInv'
<1>1. /\ Encoding(Types) /\ at \in PrefixTypes /\ at \in DOMAIN rule.parts
      /\ Encodable(rule, at) /\ Appends(PrefixComponent(at, rule.parts[at]))
  BY DEF EncodePrefix, Encoding, Appends, Types, PrefixTypes
<1>2. rule.parts[at] \in ParsedPrefixes
  BY <1>1, RuleShape DEF IInv, States
<1>3. rule.parts[at].v6 = V6(rule)
  <2>1. at \notin BitmaskTypes
    BY <1>1 DEF PrefixTypes, BitmaskTypes
  <2>2. QED
    BY <1>1, <2>1 DEF Encodable
<1>4. PICK part, m : Component(part, PrefixComponent(at, rule.parts[at]), m, V6(rule), at)
  BY <1>1, <1>2, <1>3, PrefixLaidOut
<1>5. Written(rule, at) = PrefixComponent(at, rule.parts[at])
  BY <1>1 DEF Written
<1>6. QED
  BY <1>1, <1>4, <1>5, ComponentAppended

LEMMA NumericInv ==
  ASSUME IInv, EncodeNumeric
  PROVE  IInv'
<1> DEFINE items == rule.parts[at]
<1>1. /\ Encoding(Types) /\ at \in Types \ PrefixTypes /\ at \notin BitmaskTypes
      /\ at \in DOMAIN rule.parts \ PrefixTypes
      /\ Encodable(rule, at) /\ Appends(NumericComponent(at, items))
  BY DEF EncodeNumeric, Encoding, Appends, NumericTypes
<1>2. /\ items \in Seq(Range(items)) /\ items # << >>
      /\ \A item \in Range(items) : NumericItem(item)
  BY <1>1, RuleShape DEF IInv, States
<1>3. /\ \A i \in DOMAIN items : OneOperator(items[i])
      /\ at = FlowLabel => V6(rule)
  BY <1>1 DEF Encodable
<1>4. Written(rule, at) = NumericComponent(at, items)
  BY <1>1 DEF Written
<1> HIDE DEF items
<1>5. PICK part, m : Component(part, NumericComponent(at, items), m, V6(rule), at)
  BY <1>1, <1>2, <1>3, NumericLaidOut
<1>6. QED
  BY <1>1, <1>4, <1>5, ComponentAppended

LEMMA BitmaskInv ==
  ASSUME IInv, EncodeBitmask
  PROVE  IInv'
<1> DEFINE items == rule.parts[at]
<1>1. /\ Encoding(Types) /\ at \in BitmaskTypes
      /\ at \in DOMAIN rule.parts \ PrefixTypes
      /\ Appends(BitmaskComponent(at, items))
  BY DEF EncodeBitmask, Encoding, Appends, BitmaskTypes, PrefixTypes, Types
<1>2. /\ items \in Seq(Range(items)) /\ items # << >>
      /\ \A item \in Range(items) : BitmaskItem(item)
  BY <1>1, RuleShape DEF IInv, States
<1>3. Written(rule, at) = BitmaskComponent(at, items)
  BY <1>1 DEF Written, BitmaskTypes, PrefixTypes
<1> HIDE DEF items
<1>4. PICK part, m : Component(part, BitmaskComponent(at, items), m, V6(rule), at)
  BY <1>1, <1>2, BitmaskLaidOut
<1>5. QED
  BY <1>1, <1>3, <1>4, ComponentAppended
(* A step that leaves the components alone.                                *)
LEMMA ComponentsStay ==
  ASSUME rule' = rule, at' = at, comps' = comps
  PROVE  /\ Boundary' = Boundary /\ V6(rule)' = V6(rule)
         /\ RawBehind' <=> RawBehind
         /\ \A plan : Laid(plan)' <=> Laid(plan)
<1>1. Boundary' = Boundary
  BY DEF Boundary, Typed
<1>2. V6(rule)' = V6(rule)
  BY DEF V6, Given
<1>3. Passed' = Passed
  BY DEF Passed
<1>4. \A plan : Laid(plan)' <=> Laid(plan)
  <2>1. \A plan : Keeps(plan)' <=> Keeps(plan)
    BY <1>1, <1>3 DEF Keeps
  <2>2. QED
    BY <1>1, <1>2, <1>3, <2>1 DEF Laid
<1>5. RawBehind' <=> RawBehind
  BY <1>1 DEF RawBehind
<1>6. QED
  BY <1>1, <1>2, <1>4, <1>5

(* A refusal ends it.                                                      *)
LEMMA RefusalInv ==
  ASSUME IInv, phase' = "refused", UNCHANGED <<rule, encodeVars, readVars>>
  PROVE  IInv'
<1>1. /\ rule' = rule /\ at' = at /\ comps' = comps /\ nlri' = nlri
      /\ pos' = pos /\ last' = last /\ reading' = reading /\ found' = found
  BY DEF encodeVars, readVars
<1>2. RawBehind'
  BY <1>1, ComponentsStay DEF IInv
<1>3. ~ Framed'
  BY DEF Framed
<1>4. States' /\ BeforeReading' /\ FramedSo' /\ WellLaid' /\ OnlyRawViolates'
  BY <1>1, <1>3 DEF IInv, States, Phases, BeforeReading, FramedSo, WellLaid, OnlyRawViolates
<1>5. QED
  BY <1>2, <1>4 DEF IInv

LEMMA ValidateInv ==
  ASSUME IInv, Validate
  PROVE  IInv'
<1>1. /\ phase = "validate" /\ phase' = "encode"
      /\ rule' = rule /\ at' = at /\ comps' = comps /\ nlri' = nlri
      /\ pos' = pos /\ last' = last /\ reading' = reading /\ found' = found
  BY DEF Validate, encodeVars, readVars
<1>2. RawBehind' /\ \A plan : Laid(plan)' <=> Laid(plan)
  BY <1>1, ComponentsStay DEF IInv
<1>3. ~ Framed'
  BY <1>1 DEF Framed
<1>4. \E plan : Laid(plan)
  BY <1>1 DEF IInv, WellLaid
<1>5. WellLaid'
  BY <1>2, <1>3, <1>4 DEF WellLaid
<1>6. States' /\ BeforeReading' /\ FramedSo' /\ OnlyRawViolates'
  BY <1>1, <1>3 DEF IInv, States, Phases, BeforeReading, FramedSo, OnlyRawViolates
<1>7. QED
  BY <1>2, <1>5, <1>6 DEF IInv

(* A component that is not given.                                          *)
LEMMA NothingInv ==
  ASSUME IInv, EncodeNothing
  PROVE  IInv'
<1>1. /\ phase = "encode" /\ at \in 1 .. 13 /\ at \notin DOMAIN rule.parts
      /\ at' = at + 1 /\ comps' = comps
      /\ rule' = rule /\ phase' = phase /\ nlri' = nlri
      /\ pos' = pos /\ last' = last /\ reading' = reading /\ found' = found
  BY DEF EncodeNothing, Encoding, Types, readVars
<1>2. /\ States /\ BeforeReading /\ RawBehind
      /\ pos = 0 /\ last = 0 /\ reading = "type" /\ DOMAIN found = {}
      /\ ~ Framed
      /\ \E plan : Laid(plan)
  BY <1>1, WhileEncoding
<1>3. PICK plan : Laid(plan)
  BY <1>2
<1>4. Boundary = Len(comps) /\ Boundary' = Len(comps)
  BY <1>1 DEF Boundary
<1>5. Passed' = Passed
  <2>1. DOMAIN rule.parts \subseteq 1 .. 13
    BY <1>2, RuleShape DEF States, Types
  <2>2. \A u \in DOMAIN rule.parts : u < at + 1 <=> u < at
    BY <1>1, <2>1
  <2>3. QED
    BY <1>1, <2>2 DEF Passed
<1>6. V6(rule)' = V6(rule)
  BY <1>1 DEF V6, Given
<1>7. Laid(plan)'
  <2>1. Keeps(plan)'
    BY <1>1, <1>3, <1>4, <1>5 DEF Laid, Keeps
  <2>2. QED
    BY <1>1, <1>3, <1>4, <1>5, <1>6, <2>1 DEF Laid
<1>8. (~ Framed)' /\ OnlyRawViolates'
  BY <1>1 DEF Framed, OnlyRawViolates
<1>9. States'
  BY <1>1, <1>2 DEF States
<1>10. BeforeReading' /\ RawBehind' /\ FramedSo'
  BY <1>1, <1>2, <1>8 DEF BeforeReading, RawBehind, FramedSo
<1>11. WellLaid'
  BY <1>7, <1>8 DEF WellLaid
<1>12. QED
  BY <1>8, <1>9, <1>10, <1>11 DEF IInv

(* The raw octets come behind what is planned, and have no plan.           *)
LEMMA RawInv ==
  ASSUME IInv, AppendRaw
  PROVE  IInv'
<1>1. /\ phase = "encode" /\ at = 14 /\ at' = 15 /\ comps' = comps \o rule.raw
      /\ rule' = rule /\ phase' = phase /\ nlri' = nlri
      /\ pos' = pos /\ last' = last /\ reading' = reading /\ found' = found
  BY DEF AppendRaw, Encoding, readVars
<1>2. /\ States /\ BeforeReading /\ RawBehind
      /\ pos = 0 /\ last = 0 /\ reading = "type" /\ DOMAIN found = {}
      /\ ~ Framed
      /\ \E plan : Laid(plan)
  BY <1>1, WhileEncoding
<1>3. PICK plan : Laid(plan)
  BY <1>2
<1> DEFINE raw == rule.raw
           n == Len(comps)
<1>4. comps \in Seq(Octet) /\ n \in Nat /\ rule \in Rules
  BY <1>2 DEF States
<1>5. raw \in Seq(Octet) /\ Len(raw) \in Nat
  <2>1. raw \in Seq(Octet)
    BY <1>4, RuleShape
  <2> HIDE DEF raw
  <2>2. QED
    BY <2>1
<1>6. raw' = raw /\ comps' = comps \o raw
  BY <1>1
<1> HIDE DEF raw
<1>7. /\ comps' \in Seq(Octet) /\ Len(comps') = n + Len(raw)
      /\ \A i \in 1 .. n : comps'[i] = comps[i]
      /\ \A i \in 1 .. Len(raw) : comps'[n + i] = raw[i]
  <2> DEFINE y == comps \o raw
  <2>1. /\ y \in Seq(Octet) /\ Len(y) = n + Len(raw)
        /\ \A i \in 1 .. n : y[i] = comps[i]
        /\ \A i \in 1 .. Len(raw) : y[n + i] = raw[i]
    BY <1>4, <1>5
  <2>2. comps' = y
    BY <1>6
  <2> HIDE DEF y
  <2>3. QED
    BY <2>1, <2>2
<1>8. Boundary = n
  BY <1>1 DEF Boundary
<1>9. Boundary' = n
  <2>1. Boundary' = Len(comps') - Len(raw)
    BY <1>1 DEF Boundary, Typed, raw
  <2>2. QED
    BY <1>4, <1>5, <1>7, <2>1
<1>10. Passed' = Passed
  <2>1. DOMAIN rule.parts \subseteq 1 .. 13
    BY <1>4, RuleShape DEF Types
  <2>2. \A u \in DOMAIN rule.parts : u < 15 <=> u < 14
    BY <2>1
  <2>3. QED
    BY <1>1, <2>2 DEF Passed
<1>11. V6(rule)' = V6(rule)
  BY <1>1 DEF V6, Given
<1>12. Laid(plan)'
  <2> DEFINE six == V6(rule)
             y == comps'
             o == comps
  <2>1. /\ Plan(plan, o, n, six) /\ TypesBefore(plan, o, n) = Passed
        /\ \A u \in Passed : Encodable(rule, u) /\ Carries(plan, o, n, Written(rule, u))
    BY <1>3, <1>8 DEF Laid, Keeps
  <2>2. \A i \in 1 .. n : y[i] = o[i]
    BY <1>7
  <2>3. n \in Nat
    BY <1>4
  <2> HIDE DEF six, y, o, n
  <2>4. Plan(plan, y, n, six) /\ TypesBefore(plan, y, n) = Passed
    BY <2>1, <2>2, <2>3, PlanStays
  <2>5. \A u \in Passed : Carries(plan, y, n, Written(rule, u))
    <3>1. SUFFICES ASSUME NEW u \in Passed PROVE Carries(plan, y, n, Written(rule, u))
      OBVIOUS
    <3> DEFINE w == Written(rule, u)
    <3>2. Carries(plan, o, n, w)
      BY <2>1
    <3> HIDE DEF w
    <3>3. n <= n /\ \A p \in 0 .. n : plan[p] = plan[p]
      BY <2>3
    <3>4. Carries(plan, y, n, w)
      BY <2>2, <2>3, <3>2, <3>3, CarriesOn
    <3>5. QED
      BY <3>4 DEF w
  <2>6. Keeps(plan)'
    BY <1>1, <1>9, <1>10, <2>1, <2>5 DEF Keeps, y
  <2>7. QED
    BY <1>9, <1>10, <1>11, <2>4, <2>6 DEF Laid, y, six
<1>13. (~ Framed)' /\ OnlyRawViolates'
  BY <1>1 DEF Framed, OnlyRawViolates
<1>14. States'
  BY <1>1, <1>2, <1>4, <1>5, <1>7 DEF States
<1>15. RawBehind'
  <2>1. rule.raw' = raw
    BY <1>1 DEF raw
  <2>2. Len(raw) <= Len(comps')
    <3> DEFINE len == Len(raw)
               all == Len(comps')
    <3>1. len \in Nat /\ n \in Nat /\ all = n + len
      BY <1>4, <1>5, <1>7
    <3> HIDE DEF len, all, n
    <3>2. len <= all
      BY <3>1
    <3>3. QED
      BY <3>2 DEF len, all
  <2>3. \A i \in 1 .. Len(raw) : comps'[Boundary' + i] = raw[i]
    BY <1>7, <1>9, Zenon
  <2>4. QED
    BY <1>6, <2>2, <2>3 DEF RawBehind, raw
<1>16. BeforeReading' /\ FramedSo'
  BY <1>1, <1>2, <1>13 DEF BeforeReading, FramedSo
<1>17. WellLaid'
  BY <1>12, <1>13 DEF WellLaid
<1>18. QED
  BY <1>13, <1>14, <1>15, <1>16, <1>17 DEF IInv

LEMMA FrameInv ==
  ASSUME IInv, Frame
  PROVE  IInv'
<1>1. /\ phase = "encode" /\ phase' = "read" /\ at = 15 /\ Framable(Len(comps))
      /\ nlri' = LengthOctets(Len(comps)) \o comps
      /\ rule' = rule /\ at' = at /\ comps' = comps
      /\ pos' = pos /\ last' = last /\ reading' = reading /\ found' = found
  BY DEF Frame, Encoding, readVars
<1>2. /\ States /\ BeforeReading /\ RawBehind
      /\ pos = 0 /\ last = 0 /\ reading = "type" /\ DOMAIN found = {}
      /\ ~ Framed
      /\ \E plan : Laid(plan)
  BY <1>1, WhileEncoding
<1>3. PICK plan : Laid(plan)
  BY <1>2
<1>4. RawBehind' /\ Laid(plan)'
  BY <1>1, <1>2, <1>3, ComponentsStay
<1>5. Len(comps) \in Lengths
  <2> DEFINE n == Len(comps)
  <2>1. n \in Nat
    BY <1>2 DEF States
  <2>2. n < 4096
    BY <1>1 DEF Framable, MaxNlri
  <2> HIDE DEF n
  <2>3. n \in Lengths
    BY <2>1, <2>2 DEF Lengths, MaxNlri
  <2>4. QED
    BY <2>3 DEF n
<1>6. FramedSo'
  BY <1>1, <1>5 DEF FramedSo
<1>7. Follows(plan)'
  <2>1. plan[0] = "type"
    BY <1>3 DEF Laid, Plan
  <2>2. TypesBefore(plan, comps, 0) = {}
    BY DEF TypesBefore
  <2>3. QED
    BY <1>1, <1>2, <2>1, <2>2 DEF Follows, Located
<1>8. WellLaid'
  BY <1>4, <1>7 DEF WellLaid
<1>9. States' /\ BeforeReading' /\ OnlyRawViolates'
  BY <1>1, <1>2 DEF States, Phases, BeforeReading, OnlyRawViolates
<1>10. QED
  BY <1>4, <1>6, <1>8, <1>9 DEF IInv

LEMMA EncodeInv ==
  ASSUME IInv, EncodeNext
  PROVE  IInv'
<1>1. CASE Validate
  BY <1>1, ValidateInv
<1>2. CASE RefuseRule
  BY <1>2, RefusalInv DEF RefuseRule
<1>3. CASE EncodePrefix
  BY <1>3, PrefixInv
<1>4. CASE EncodeNumeric
  BY <1>4, NumericInv
<1>5. CASE EncodeBitmask
  BY <1>5, BitmaskInv
<1>6. CASE EncodeNothing
  BY <1>6, NothingInv
<1>7. CASE RefuseComponent
  BY <1>7, RefusalInv DEF RefuseComponent
<1>8. CASE AppendRaw
  BY <1>8, RawInv
<1>9. CASE RefuseRaw
  BY <1>9, RefusalInv DEF RefuseRaw
<1>10. CASE Frame
  BY <1>10, FrameInv
<1>11. CASE RefuseSize
  BY <1>11, RefusalInv DEF RefuseSize
<1>12. QED
  BY <1>1, <1>2, <1>3, <1>4, <1>5, <1>6, <1>7, <1>8, <1>9, <1>10, <1>11 DEF EncodeNext
-----------------------------------------------------------------------------
(* What the reader has: the components, and in front of the boundary what  *)
(* their plan says.                                                        *)
LEMMA WhileReading ==
  ASSUME IInv, Framed
  PROVE  /\ States /\ RawBehind /\ at = 15 /\ Data = comps
         /\ comps \in Seq(Octet) /\ Len(comps) \in Nat /\ pos \in 0 .. Len(comps)
         /\ Boundary = Typed /\ Boundary \in 0 .. Len(comps)
         /\ Len(comps) = Boundary + Len(rule.raw)
         /\ \E plan : Laid(plan) /\ Follows(plan)
<1>1. States /\ RawBehind /\ FramedSo /\ WellLaid
  BY DEF IInv
<1>2. at = 15 /\ Len(comps) \in Lengths /\ nlri = LengthOctets(Len(comps)) \o comps
  BY <1>1 DEF FramedSo
<1>3. comps \in Seq(Octet) /\ Len(comps) \in Nat /\ pos \in 0 .. Len(comps)
  BY <1>1 DEF States
<1>4. Data = comps
  <2> DEFINE S == Octet
             o == comps
             len == Len(comps)
  <2>1. o \in Seq(S) /\ len \in Lengths /\ Len(o) = len
    BY <1>2, <1>3
  <2> HIDE DEF S, o, len
  <2>2. SplitValue(LengthOctets(len) \o o) = o
    BY <2>1, SplitIsInverse
  <2>3. QED
    BY <1>2, <2>2 DEF Data, o, len
<1>5. Boundary = Typed /\ Typed = Len(comps) - Len(rule.raw)
  BY <1>2 DEF Boundary, Typed
<1>6. Len(rule.raw) \in Nat /\ Len(rule.raw) <= Len(comps)
  <2>1. rule.raw \in Seq(Octet)
    BY <1>1, RuleShape DEF States
  <2>2. QED
    BY <1>1, <1>2, <2>1 DEF RawBehind
<1>7. Boundary \in 0 .. Len(comps) /\ Len(comps) = Boundary + Len(rule.raw)
  BY <1>3, <1>5, <1>6
<1>8. phase # "refused"
  BY DEF Framed
<1>9. QED
  BY <1>1, <1>2, <1>3, <1>4, <1>5, <1>7, <1>8 DEF WellLaid

(* Behind the boundary there are octets, whatever else they are.           *)
LEMMA RawOctets ==
  ASSUME IInv, Framed, NEW p \in Nat, p >= Boundary, p < Len(comps)
  PROVE  comps[p + 1] \in Octet
<1>1. /\ RawBehind /\ at = 15 /\ Len(comps) = Boundary + Len(rule.raw)
      /\ Boundary \in Nat /\ Len(comps) \in Nat /\ rule \in Rules
  BY WhileReading DEF States
<1>2. rule.raw \in Seq(Octet)
  BY <1>1, RuleShape
<1> DEFINE i == p + 1 - Boundary
           raw == rule.raw
<1>3. i \in 1 .. Len(raw) /\ Boundary + i = p + 1
  BY <1>1, <1>2
<1>4. \A j \in 1 .. Len(raw) : comps[Boundary + j] = raw[j]
  BY <1>1 DEF RawBehind
<1> HIDE DEF i, raw
<1>5. comps[Boundary + i] = raw[i]
  BY <1>3, <1>4
<1>6. raw[i] \in Octet
  <2>1. raw \in Seq(Octet)
    BY <1>2 DEF raw
  <2>2. QED
    BY <1>3, <2>1
<1>7. QED
  BY <1>3, <1>5, <1>6

(* One more type comes before the place behind a type.                     *)
LEMMA TypeIsPassed ==
  ASSUME NEW plan, NEW o, NEW p \in Nat, plan[p] = "type"
  PROVE  TypesBefore(plan, o, p + 1) = TypesBefore(plan, o, p) \cup {o[p + 1]}
<1>1. \A i : i \in 0 .. (p + 1) - 1 <=> i \in 0 .. p - 1 \/ i = p
  OBVIOUS
<1>2. QED
  BY <1>1 DEF TypesBefore

(* None comes before the place to which a prefix or an operator leads.     *)
LEMMA NoTypeIsPassed ==
  ASSUME NEW plan, NEW o, NEW p \in Nat, NEW q \in Nat, p < q,
         plan[p] # "type", Skips(plan, p, q)
  PROVE  TypesBefore(plan, o, q) = TypesBefore(plan, o, p)
<1>1. \A i \in p .. q - 1 : plan[i] # "type"
  <2>1. \A i \in p .. q - 1 : i = p \/ i \in p + 1 .. q - 1
    OBVIOUS
  <2>2. QED
    BY <2>1 DEF Skips
<1>2. \A i : i \in 0 .. q - 1 <=> i \in 0 .. p - 1 \/ i \in p .. q - 1
  OBVIOUS
<1>3. QED
  BY <1>1, <1>2 DEF TypesBefore
(* What a reader that is where the plan says finds there.                  *)
LEMMA TypeAhead ==
  ASSUME NEW plan, NEW o, NEW n \in Nat, NEW six, Plan(plan, o, n, six),
         NEW p \in 0 .. n - 1, plan[p] = "type"
  PROVE  /\ o[p + 1] \in Types
         /\ o[p + 1] = FlowLabel => six
         /\ plan[p + 1] = IF o[p + 1] \in PrefixTypes THEN "prefix" ELSE "operators"
         /\ \A u \in TypesBefore(plan, o, p) : u < o[p + 1]
<1>1. Planned(plan, o, n, six, p) /\ Ascending(plan, o, n)
  BY DEF Plan
<1>2. TypeAt(plan, o, n, six, p) /\ p < n
  BY <1>1 DEF Planned
<1>3. QED
  BY <1>1, <1>2 DEF TypeAt, Ascending

LEMMA PrefixAhead ==
  ASSUME NEW plan, NEW o, NEW n \in Nat, NEW six, Plan(plan, o, n, six),
         NEW p \in 0 .. n, plan[p] = "prefix"
  PROVE  /\ PrefixAt(plan, o, n, six, p)
         /\ p + Head6(six) + Octets(o[p + 1]) \in 0 .. n
         /\ TypesBefore(plan, o, p + Head6(six) + Octets(o[p + 1])) = TypesBefore(plan, o, p)
<1> DEFINE code == o[p + 1]
           h == Head6(six)
           k == Octets(code)
           e == p + h + k
<1>1. PrefixAt(plan, o, n, six, p)
  BY DEF Plan, Planned
<1>2. code \in 0 .. Bits6(six) /\ e <= n /\ Skips(plan, p, e)
  BY <1>1 DEF PrefixAt
<1>3. h \in {1, 2}
  BY DEF Head6
<1>4. k \in Nat
  <2>1. Bits6(six) \in {32, 128}
    BY DEF Bits6
  <2>2. code \in Nat
    BY <1>2, <2>1
  <2> HIDE DEF code
  <2>3. QED
    BY <2>2 DEF Octets
<1> HIDE DEF h, k
<1>5. e \in 0 .. n /\ p < e
  BY <1>2, <1>3, <1>4
<1> HIDE DEF e
<1>6. TypesBefore(plan, o, e) = TypesBefore(plan, o, p)
  <2>1. plan[p] # "type" /\ e \in Nat /\ p \in Nat
    BY <1>5
  <2>2. QED
    BY <1>2, <1>5, <2>1, NoTypeIsPassed
<1>7. QED
  BY <1>1, <1>5, <1>6 DEF e, h, k

LEMMA OperatorAhead ==
  ASSUME NEW plan, NEW o, NEW n \in Nat, NEW six, Plan(plan, o, n, six),
         NEW p \in 0 .. n, plan[p] = "operators"
  PROVE  /\ OperatorAt(plan, o, n, p)
         /\ p + 1 + Width(o[p + 1]) \in 0 .. n
         /\ TypesBefore(plan, o, p + 1 + Width(o[p + 1])) = TypesBefore(plan, o, p)
<1> DEFINE w == Width(o[p + 1])
           e == p + 1 + w
<1>1. OperatorAt(plan, o, n, p)
  BY DEF Plan, Planned
<1>2. o[p + 1] \in Octet /\ e <= n /\ Skips(plan, p, e)
  BY <1>1 DEF OperatorAt
<1>3. w \in 1 .. 8
  BY <1>2, WidthOfOctet
<1> HIDE DEF w
<1>4. e \in 0 .. n /\ p < e
  BY <1>2, <1>3
<1> HIDE DEF e
<1>5. TypesBefore(plan, o, e) = TypesBefore(plan, o, p)
  <2>1. plan[p] # "type" /\ e \in Nat /\ p \in Nat
    BY <1>4
  <2>2. QED
    BY <1>2, <1>4, <2>1, NoTypeIsPassed
<1>6. QED
  BY <1>1, <1>4, <1>5 DEF e, w

(* The plan of the components as the reader meets it.                      *)
LEMMA InFront ==
  ASSUME IInv, Framed, NEW plan, Laid(plan), Follows(plan), pos <= Boundary
  PROVE  /\ Plan(plan, comps, Boundary, V6(rule))
         /\ Boundary \in Nat /\ pos \in 0 .. Boundary /\ Boundary <= Len(comps)
         /\ plan[pos] = reading
         /\ DOMAIN found = TypesBefore(plan, comps, pos)
         /\ last \in DOMAIN found \/ (last = 0 /\ DOMAIN found = {})
         /\ \A t \in DOMAIN found : t <= last
         /\ Located(plan)
         /\ Data = comps /\ Len(comps) \in Nat
BY WhileReading DEF Laid, Follows

(* In front of the boundary the reader never objects.                      *)
LEMMA IntactInFront ==
  ASSUME IInv, Framed, NEW plan, Laid(plan), Follows(plan), pos <= Boundary,
         pos < Boundary \/ reading # "type"
  PROVE  Intact
<1> DEFINE n == Boundary
           six == V6(rule)
<1>1. /\ Plan(plan, comps, n, six)
      /\ n \in Nat /\ pos \in 0 .. n /\ n <= Len(comps)
      /\ plan[pos] = reading
      /\ DOMAIN found = TypesBefore(plan, comps, pos)
      /\ last \in DOMAIN found \/ (last = 0 /\ DOMAIN found = {})
      /\ \A t \in DOMAIN found : t <= last
      /\ Data = comps /\ Len(comps) \in Nat
  BY InFront
<1>2. reading \in {"type", "prefix", "operators"}
  BY DEF IInv, States
<1>3. PrefixHead = Head6(six) /\ MaxBits = Bits6(six)
  BY DEF PrefixHead, Head6, MaxBits, Bits6
<1>4. CASE reading = "type"
  <2>1. pos \in 0 .. n - 1 /\ plan[pos] = "type"
    BY <1>1, <1>4
  <2> HIDE DEF n, six
  <2>2. /\ comps[pos + 1] \in Types
        /\ comps[pos + 1] = FlowLabel => six
        /\ \A u \in TypesBefore(plan, comps, pos) : u < comps[pos + 1]
    BY <1>1, <2>1, TypeAhead
  <2> DEFINE t == comps[pos + 1]
  <2>3. t \in 1 .. 13 /\ \A u \in DOMAIN found : u < t
    BY <1>1, <2>2 DEF Types
  <2> HIDE DEF t
  <2>4. t \notin DOMAIN found /\ t >= last
    BY <1>1, <2>3
  <2>5. TypeIntact
    BY <1>1, <2>2, <2>4 DEF TypeIntact, t, six
  <2>6. QED
    BY <1>4, <2>5 DEF Intact
<1>5. CASE reading = "prefix"
  <2> HIDE DEF n, six
  <2>1. PrefixAt(plan, comps, n, six, pos)
    BY <1>1, <1>5, PrefixAhead
  <2> DEFINE code == comps[pos + 1]
             h == Head6(six)
             k == Octets(code)
  <2>2. pos + h <= n /\ code \in 0 .. Bits6(six) /\ pos + h + k <= n
    BY <2>1 DEF PrefixAt
  <2>3. h \in Nat
    BY DEF Head6
  <2>4. Bits6(six) \in Nat
    BY DEF Bits6
  <2>5. k \in Int
    <3>1. code \in Int
      BY <2>2, <2>4
    <3> HIDE DEF code
    <3>2. QED
      BY <3>1 DEF Octets
  <2> HIDE DEF h, k
  <2>6. pos + h <= Len(comps) /\ code <= Bits6(six) /\ pos + h + k <= Len(comps)
    BY <1>1, <2>2, <2>3, <2>4, <2>5
  <2>7. PrefixIntact
    BY <1>1, <1>3, <2>6, Zenon DEF PrefixIntact, code, h, k
  <2>8. QED
    BY <1>5, <2>7 DEF Intact
<1>6. CASE reading = "operators"
  <2> HIDE DEF n, six
  <2>1. OperatorAt(plan, comps, n, pos)
    BY <1>1, <1>6, OperatorAhead
  <2> DEFINE w == Width(comps[pos + 1])
  <2>2. pos < n /\ pos + 1 + w <= n /\ comps[pos + 1] \in Octet
    BY <2>1 DEF OperatorAt
  <2>3. w \in Nat
    BY <2>2, WidthOfOctet
  <2> HIDE DEF w
  <2>4. pos < Len(comps) /\ pos + 1 + w <= Len(comps)
    BY <1>1, <2>2, <2>3
  <2>5. OperatorIntact
    BY <1>1, <2>4, Zenon DEF OperatorIntact, w
  <2>6. QED
    BY <1>6, <2>5 DEF Intact
<1>7. QED
  BY <1>2, <1>4, <1>5, <1>6

(* So an objection is to raw octets.                                       *)
LEMMA ObjectInv ==
  ASSUME IInv, Object
  PROVE  IInv'
<1>1. /\ phase = "read" /\ phase' = "violated" /\ ~ Intact
      /\ rule' = rule /\ at' = at /\ comps' = comps /\ nlri' = nlri
      /\ pos' = pos /\ last' = last /\ reading' = reading /\ found' = found
  BY DEF Object, encodeVars, readVars
<1>2. Framed /\ Framed'
  BY <1>1 DEF Framed
<1>3. /\ States /\ RawBehind /\ at = 15 /\ Data = comps
      /\ Len(comps) \in Nat /\ pos \in 0 .. Len(comps)
      /\ Boundary = Typed /\ Boundary \in 0 .. Len(comps)
      /\ Len(comps) = Boundary + Len(rule.raw)
  BY <1>2, WhileReading
<1>4. PICK plan : Laid(plan) /\ Follows(plan)
  BY <1>2, WhileReading
<1>5. pos >= Boundary /\ Boundary < Len(comps)
  <2>1. CASE pos <= Boundary
    <3>1. ~ (pos < Boundary \/ reading # "type")
      BY <1>1, <1>2, <1>4, <2>1, IntactInFront
    <3>2. pos = Boundary /\ reading = "type"
      BY <1>3, <2>1, <3>1
    <3>3. ~ (pos < Len(comps) => TypeIntact)
      BY <1>1, <1>3, <3>2 DEF Intact
    <3>4. QED
      BY <1>3, <3>2, <3>3
  <2>2. CASE ~ (pos <= Boundary)
    BY <1>3, <2>2
  <2>3. QED
    BY <2>1, <2>2
<1>6. rule.hex = "octets"
  <2>1. rule.raw # << >>
    BY <1>3, <1>5
  <2>2. QED
    BY <1>3, <2>1, RuleShape DEF States
<1>7. Boundary' = Boundary /\ RawBehind' /\ Laid(plan)'
  BY <1>1, <1>3, <1>4, ComponentsStay
<1>8. OnlyRawViolates'
  <2>1. Typed' = Typed /\ rule.hex' = rule.hex
    BY <1>1 DEF Typed
  <2>2. QED
    BY <1>1, <1>3, <1>5, <1>6, <2>1 DEF OnlyRawViolates
<1>9. Follows(plan)'
  BY <1>1, <1>4, <1>7 DEF Follows, Located
<1>10. WellLaid'
  BY <1>7, <1>9 DEF WellLaid
<1>11. FramedSo'
  BY <1>1, <1>2 DEF IInv, FramedSo
<1>12. States' /\ BeforeReading'
  BY <1>1, <1>3 DEF States, Phases, BeforeReading
<1>13. QED
  BY <1>7, <1>8, <1>10, <1>11, <1>12 DEF IInv

LEMMA ReadEndInv ==
  ASSUME IInv, ReadEnd
  PROVE  IInv'
<1>1. /\ phase = "read" /\ phase' = "wellformed"
      /\ rule' = rule /\ at' = at /\ comps' = comps /\ nlri' = nlri
      /\ pos' = pos /\ last' = last /\ reading' = reading /\ found' = found
  BY DEF ReadEnd, Reading, encodeVars, readVars
<1>2. Framed /\ Framed'
  BY <1>1 DEF Framed
<1>3. States /\ RawBehind
  BY DEF IInv
<1>4. PICK plan : Laid(plan) /\ Follows(plan)
  BY <1>2, WhileReading
<1>5. Boundary' = Boundary /\ RawBehind' /\ Laid(plan)'
  BY <1>1, <1>3, <1>4, ComponentsStay
<1>6. Follows(plan)'
  BY <1>1, <1>4, <1>5 DEF Follows, Located
<1>7. WellLaid'
  BY <1>5, <1>6 DEF WellLaid
<1>8. FramedSo' /\ OnlyRawViolates'
  BY <1>1, <1>2 DEF IInv, FramedSo, OnlyRawViolates
<1>9. States' /\ BeforeReading'
  BY <1>1, <1>3 DEF States, Phases, BeforeReading
<1>10. QED
  BY <1>5, <1>7, <1>8, <1>9 DEF IInv

(* A step of the reader over the components: the rest of the invariant     *)
(* stands when the reader is still where a plan says.                      *)
LEMMA StepOver ==
  ASSUME IInv, phase = "read", UNCHANGED <<rule, phase, encodeVars>>,
         reading' \in {"type", "prefix", "operators"}, pos' \in 0 .. Len(comps),
         NEW plan, Laid(plan), Follows(plan)'
  PROVE  IInv'
<1>1. /\ rule' = rule /\ at' = at /\ comps' = comps /\ nlri' = nlri /\ phase' = phase
      /\ phase' = "read"
  BY DEF encodeVars
<1>2. Framed /\ Framed'
  BY <1>1 DEF Framed
<1>3. States /\ RawBehind
  BY DEF IInv
<1>4. RawBehind' /\ Laid(plan)'
  BY <1>1, <1>3, ComponentsStay
<1>5. WellLaid'
  BY <1>4 DEF WellLaid
<1>6. FramedSo' /\ OnlyRawViolates'
  BY <1>1, <1>2 DEF IInv, FramedSo, OnlyRawViolates
<1>7. States' /\ BeforeReading'
  BY <1>1, <1>3 DEF States, Phases, BeforeReading
<1>8. QED
  BY <1>4, <1>5, <1>6, <1>7 DEF IInv

LEMMA ReadTypeInv ==
  ASSUME IInv, ReadType
  PROVE  IInv'
<1> DEFINE t == comps[pos + 1]
<1>1. phase = "read" /\ reading = "type" /\ UNCHANGED <<rule, phase, encodeVars>>
  BY DEF ReadType, Reading
<1>2. Framed
  BY <1>1 DEF Framed
<1>3. /\ Data = comps /\ Len(comps) \in Nat /\ pos \in 0 .. Len(comps)
      /\ Boundary \in 0 .. Len(comps)
  BY <1>2, WhileReading
<1>4. /\ pos < Len(comps) /\ pos' = pos + 1 /\ last' = t
      /\ found' = [u \in DOMAIN found \cup {t} |-> IF u = t THEN pos + 1 ELSE found[u]]
      /\ reading' = IF t \in PrefixTypes THEN "prefix" ELSE "operators"
  BY <1>3 DEF ReadType
<1> HIDE DEF t
<1>5. PICK plan : Laid(plan) /\ Follows(plan)
  BY <1>2, WhileReading
<1>6. Boundary' = Boundary /\ comps' = comps
  BY <1>1, ComponentsStay DEF encodeVars
<1>7. pos' \in 0 .. Len(comps) /\ reading' \in {"type", "prefix", "operators"}
  BY <1>3, <1>4
<1>8. DOMAIN found' = DOMAIN found \cup {t}
  BY <1>4
<1>9. Follows(plan)'
  <2>1. CASE pos < Boundary
    <3> DEFINE n == Boundary
               six == V6(rule)
    <3>1. pos <= Boundary
      BY <1>3, <2>1
    <3>2. /\ Plan(plan, comps, n, six) /\ n \in Nat
          /\ plan[pos] = reading /\ DOMAIN found = TypesBefore(plan, comps, pos)
          /\ last \in DOMAIN found \/ (last = 0 /\ DOMAIN found = {})
          /\ \A u \in DOMAIN found : u <= last
          /\ Located(plan)
      BY <1>2, <1>5, <3>1, InFront
    <3>3. pos \in 0 .. n - 1 /\ plan[pos] = "type" /\ pos \in Nat
      BY <1>1, <1>3, <2>1, <3>2
    <3> HIDE DEF n, six
    <3>4. /\ t \in Types
          /\ plan[pos + 1] = IF t \in PrefixTypes THEN "prefix" ELSE "operators"
          /\ \A u \in TypesBefore(plan, comps, pos) : u < t
      BY <3>2, <3>3, TypeAhead DEF t
    <3>5. TypesBefore(plan, comps, pos + 1) = TypesBefore(plan, comps, pos) \cup {t}
      BY <3>3, TypeIsPassed DEF t
    <3>6. plan[pos'] = reading'
      BY <1>4, <3>4
    <3>7. DOMAIN found' = TypesBefore(plan, comps', pos')
      BY <1>4, <1>6, <1>8, <3>2, <3>5
    <3>8. last' \in DOMAIN found'
      BY <1>4, <1>8
    <3>9. \A u \in DOMAIN found' : u <= last'
      <4>1. t \in Int
        BY <3>4 DEF Types
      <4>2. \A u \in DOMAIN found : u < t
        BY <3>2, <3>4
      <4>3. DOMAIN found \subseteq Int
        <5>1. \A i \in 0 .. pos - 1 : plan[i] = "type" => comps[i + 1] \in Types
          <6>1. SUFFICES ASSUME NEW i \in 0 .. pos - 1, plan[i] = "type"
                         PROVE  comps[i + 1] \in Types
            OBVIOUS
          <6>2. i \in 0 .. n - 1
            BY <3>2, <3>3
          <6>3. QED
            BY <3>2, <6>1, <6>2, TypeAhead
        <5>2. QED
          BY <3>2, <5>1 DEF TypesBefore, Types
      <4>4. QED
        BY <1>4, <1>8, <4>1, <4>2, <4>3
    <3>10. Located(plan)'
      <4>1. SUFFICES ASSUME NEW u \in DOMAIN found'
                     PROVE  /\ found'[u] \in 1 .. pos' /\ plan[found'[u] - 1] = "type"
                            /\ comps'[found'[u]] = u
        BY DEF Located
      <4>2. CASE u = t
        <5>1. found'[u] = pos + 1
          BY <1>4, <1>8, <4>2
        <5>2. pos + 1 \in 1 .. pos' /\ (pos + 1) - 1 = pos
          BY <1>4, <3>3
        <5>3. comps[pos + 1] = u
          BY <4>2 DEF t
        <5>4. QED
          BY <1>6, <3>3, <5>1, <5>2, <5>3
      <4>3. CASE u # t
        <5>1. u \in DOMAIN found /\ found'[u] = found[u]
          BY <1>4, <1>8, <4>1, <4>3
        <5>2. found[u] \in 1 .. pos /\ plan[found[u] - 1] = "type" /\ comps[found[u]] = u
          BY <3>2, <5>1 DEF Located
        <5>3. 1 .. pos \subseteq 1 .. pos'
          BY <1>4, <3>3
        <5>4. QED
          BY <1>6, <5>1, <5>2, <5>3
      <4>4. QED
        BY <4>2, <4>3
    <3>11. QED
      BY <3>6, <3>7, <3>8, <3>9, <3>10 DEF Follows
  <2>2. CASE ~ (pos < Boundary)
    <3>1. ~ (pos' <= Boundary')
      BY <1>3, <1>4, <1>6, <2>2
    <3>2. QED
      BY <3>1 DEF Follows
  <2>3. QED
    BY <2>1, <2>2
<1>10. QED
  BY <1>1, <1>5, <1>7, <1>9, StepOver

(* A step past a prefix or an operator forgets no type.                    *)
LEMMA FoundStays ==
  ASSUME NEW plan, Located(plan), found' = found, comps' = comps,
         pos \in Nat, pos' \in Nat, pos <= pos'
  PROVE  Located(plan)'
<1>1. 1 .. pos \subseteq 1 .. pos'
  OBVIOUS
<1>2. QED
  BY <1>1 DEF Located

LEMMA ReadPrefixInv ==
  ASSUME IInv, ReadPrefix
  PROVE  IInv'
<1> DEFINE code == comps[pos + 1]
           h == Head6(V6(rule))
           k == Octets(code)
<1>1. phase = "read" /\ reading = "prefix" /\ UNCHANGED <<rule, phase, encodeVars>>
  BY DEF ReadPrefix, Reading
<1>2. Framed
  BY <1>1 DEF Framed
<1>3. /\ Data = comps /\ Len(comps) \in Nat /\ pos \in 0 .. Len(comps)
      /\ Boundary \in 0 .. Len(comps)
  BY <1>2, WhileReading
<1>4. PrefixHead = h
  BY DEF PrefixHead, Head6
<1>5. /\ pos + h <= Len(comps) /\ pos + h + k <= Len(comps)
      /\ pos' = pos + h + k /\ reading' = "type" /\ last' = last /\ found' = found
  <2>1. PrefixIntact
    BY DEF ReadPrefix, Reading, Intact
  <2>2. QED
    BY <1>3, <1>4, <2>1, Zenon DEF ReadPrefix, PrefixIntact
<1>6. PICK plan : Laid(plan) /\ Follows(plan)
  BY <1>2, WhileReading
<1>7. Boundary' = Boundary /\ comps' = comps
  BY <1>1, ComponentsStay DEF encodeVars
<1>8. CASE pos <= Boundary
  <2> DEFINE n == Boundary
             six == V6(rule)
             e == pos + h + k
  <2>1. /\ Plan(plan, comps, n, six) /\ n \in Nat /\ pos \in 0 .. n /\ n <= Len(comps)
        /\ plan[pos] = "prefix" /\ DOMAIN found = TypesBefore(plan, comps, pos)
        /\ last \in DOMAIN found \/ (last = 0 /\ DOMAIN found = {})
        /\ \A u \in DOMAIN found : u <= last
        /\ Located(plan)
    BY <1>1, <1>2, <1>6, <1>8, InFront
  <2>2. PrefixAt(plan, comps, n, six, pos) /\ e \in 0 .. n
        /\ TypesBefore(plan, comps, e) = TypesBefore(plan, comps, pos)
    <3> HIDE DEF n, six
    <3>1. QED
      BY <2>1, PrefixAhead DEF six
  <2>3. plan[e] = "type"
    BY <2>2 DEF PrefixAt
  <2>4. pos' = e /\ pos <= e
    <3>1. h \in Nat
      BY DEF Head6
    <3>2. k \in Nat
      <4>1. code \in 0 .. Bits6(six) /\ Bits6(six) \in {32, 128}
        BY <2>2 DEF PrefixAt, Bits6
      <4>2. code \in Nat
        BY <4>1
      <4> HIDE DEF code
      <4>3. QED
        BY <4>2 DEF Octets
    <3> HIDE DEF h, k
    <3>3. QED
      BY <1>5, <2>1, <3>1, <3>2
  <2> HIDE DEF e, n
  <2>5. Located(plan)'
    BY <1>5, <1>7, <2>1, <2>2, <2>4, FoundStays
  <2>6. Follows(plan)'
    BY <1>5, <1>7, <2>1, <2>2, <2>3, <2>4, <2>5 DEF Follows
  <2>7. pos' \in 0 .. Len(comps)
    BY <1>3, <2>1, <2>2, <2>4
  <2>8. QED
    BY <1>1, <1>5, <1>6, <2>6, <2>7, StepOver
<1>9. CASE ~ (pos <= Boundary)
  <2>1. h \in {1, 2}
    BY DEF Head6
  <2> HIDE DEF h
  <2>2. pos < Len(comps) /\ pos \in Nat /\ pos >= Boundary
    BY <1>3, <1>5, <1>9, <2>1
  <2>3. code \in Octet
    BY <1>2, <2>2, RawOctets
  <2>4. k \in Nat
    <3> HIDE DEF code
    <3>1. QED
      BY <2>3 DEF Octets, Octet
  <2> HIDE DEF k
  <2>5. pos' \in 0 .. Len(comps) /\ ~ (pos' <= Boundary)
    BY <1>3, <1>5, <1>9, <2>1, <2>4
  <2>6. Follows(plan)'
    BY <1>7, <2>5 DEF Follows
  <2>7. QED
    BY <1>1, <1>5, <1>6, <2>5, <2>6, StepOver
<1>10. QED
  BY <1>8, <1>9

LEMMA ReadOperatorInv ==
  ASSUME IInv, ReadOperator
  PROVE  IInv'
<1> DEFINE code == comps[pos + 1]
           w == Width(code)
<1>1. phase = "read" /\ reading = "operators" /\ UNCHANGED <<rule, phase, encodeVars>>
  BY DEF ReadOperator, Reading
<1>2. Framed
  BY <1>1 DEF Framed
<1>3. /\ Data = comps /\ Len(comps) \in Nat /\ pos \in 0 .. Len(comps)
      /\ Boundary \in 0 .. Len(comps)
  BY <1>2, WhileReading
<1>4. /\ pos < Len(comps) /\ pos + 1 + w <= Len(comps)
      /\ pos' = pos + 1 + w /\ reading' = (IF code >= OpEnd THEN "type" ELSE "operators")
      /\ last' = last /\ found' = found
  <2>1. OperatorIntact
    BY DEF ReadOperator, Reading, Intact
  <2>2. QED
    BY <1>3, <2>1, Zenon DEF ReadOperator, OperatorIntact
<1>5. PICK plan : Laid(plan) /\ Follows(plan)
  BY <1>2, WhileReading
<1>6. Boundary' = Boundary /\ comps' = comps
  BY <1>1, ComponentsStay DEF encodeVars
<1>7. reading' \in {"type", "prefix", "operators"}
  BY <1>4
<1>8. CASE pos <= Boundary
  <2> DEFINE n == Boundary
             six == V6(rule)
             e == pos + 1 + w
  <2>1. /\ Plan(plan, comps, n, six) /\ n \in Nat /\ pos \in 0 .. n /\ n <= Len(comps)
        /\ plan[pos] = "operators" /\ DOMAIN found = TypesBefore(plan, comps, pos)
        /\ last \in DOMAIN found \/ (last = 0 /\ DOMAIN found = {})
        /\ \A u \in DOMAIN found : u <= last
        /\ Located(plan)
    BY <1>1, <1>2, <1>5, <1>8, InFront
  <2>2. OperatorAt(plan, comps, n, pos) /\ e \in 0 .. n
        /\ TypesBefore(plan, comps, e) = TypesBefore(plan, comps, pos)
    <3> HIDE DEF n, six
    <3>1. QED
      BY <2>1, OperatorAhead
  <2>3. plan[e] = reading'
    BY <1>4, <2>2 DEF OperatorAt
  <2>4. pos' = e /\ pos <= e
    <3>1. w \in 1 .. 8
      BY <2>2, WidthOfOctet DEF OperatorAt
    <3> HIDE DEF w
    <3>2. QED
      BY <1>4, <2>1, <3>1
  <2> HIDE DEF e, n
  <2>5. Located(plan)'
    BY <1>4, <1>6, <2>1, <2>2, <2>4, FoundStays
  <2>6. Follows(plan)'
    BY <1>4, <1>6, <2>1, <2>2, <2>3, <2>4, <2>5 DEF Follows
  <2>7. pos' \in 0 .. Len(comps)
    BY <1>3, <2>1, <2>2, <2>4
  <2>8. QED
    BY <1>1, <1>5, <1>7, <2>6, <2>7, StepOver
<1>9. CASE ~ (pos <= Boundary)
  <2>1. pos \in Nat /\ pos >= Boundary
    BY <1>3, <1>9
  <2>2. code \in Octet
    BY <1>2, <1>4, <2>1, RawOctets
  <2>3. w \in 1 .. 8
    BY <2>2, WidthOfOctet
  <2> HIDE DEF w
  <2>4. pos' \in 0 .. Len(comps) /\ ~ (pos' <= Boundary)
    BY <1>3, <1>4, <1>9, <2>3
  <2>5. Follows(plan)'
    BY <1>6, <2>4 DEF Follows
  <2>6. QED
    BY <1>1, <1>5, <1>7, <2>4, <2>5, StepOver
<1>10. QED
  BY <1>8, <1>9

LEMMA ReadInv ==
  ASSUME IInv, ReadNext
  PROVE  IInv'
BY ReadTypeInv, ReadPrefixInv, ReadOperatorInv, ObjectInv, ReadEndInv DEF ReadNext

LEMMA StutterInv ==
  ASSUME IInv, UNCHANGED vars
  PROVE  IInv'
<1>1. /\ rule' = rule /\ phase' = phase /\ at' = at /\ comps' = comps /\ nlri' = nlri
      /\ pos' = pos /\ last' = last /\ reading' = reading /\ found' = found
  BY DEF vars, encodeVars, readVars
<1>2. Boundary' = Boundary /\ (RawBehind' <=> RawBehind) /\ \A plan : Laid(plan)' <=> Laid(plan)
  BY <1>1, ComponentsStay
<1>3. \A plan : Follows(plan)' <=> Follows(plan)
  BY <1>1, <1>2 DEF Follows, Located
<1>4. Framed' <=> Framed
  BY <1>1 DEF Framed
<1>5. WellLaid'
  BY <1>1, <1>2, <1>3, <1>4 DEF IInv, WellLaid
<1>6. States' /\ BeforeReading' /\ RawBehind' /\ FramedSo' /\ OnlyRawViolates'
  BY <1>1, <1>2, <1>4 DEF IInv, States, BeforeReading, FramedSo, OnlyRawViolates, Typed
<1>7. QED
  BY <1>5, <1>6 DEF IInv
-----------------------------------------------------------------------------
(* Every state of a rule on its way through encode_nlri and back satisfies *)
(* the inductive invariant: whatever the rule, its components are laid out *)
(* as first_violation (runners/fastnetmon_flowspec_check.py) walks them,   *)
(* up to where the raw octets begin.                                       *)
THEOREM SpecInv == Spec => []IInv
<1>1. Init => IInv
  BY InitInv
<1>2. IInv /\ [Next]_vars => IInv'
  BY EncodeInv, ReadInv, StutterInv DEF Next
<1>3. QED
  BY <1>1, <1>2, PTL DEF Spec

(* split_nlri takes off what encode_nlri puts in front, for every number   *)
(* of octets that the encoder frames.                                      *)
THEOREM SplittingUndoesFraming == Spec => []SplitUndoesFraming
<1>1. IInv => SplitUndoesFraming
  <2>1. SUFFICES ASSUME IInv, Framed PROVE SplitLength(nlri) = Len(Data) /\ Data = comps
    BY DEF SplitUndoesFraming
  <2>2. /\ comps \in Seq(Octet) /\ Len(comps) \in Lengths
        /\ nlri = LengthOctets(Len(comps)) \o comps
    BY <2>1 DEF IInv, States, FramedSo
  <2>3. Data = comps
    BY <2>1, WhileReading
  <2> DEFINE o == comps
             len == Len(comps)
  <2>4. o \in Seq(Octet) /\ len \in Lengths /\ Len(o) = len
    BY <2>2
  <2> HIDE DEF o, len
  <2>5. SplitLength(LengthOctets(len) \o o) = len
    BY <2>4, SplitIsInverse
  <2>6. QED
    BY <2>2, <2>3, <2>5 DEF o, len
<1>2. QED
  BY <1>1, SpecInv, PTL

(* Whatever the typed fields of a rule, first_violation never objects to   *)
(* the octets that encode_nlri makes of them: an objection is to raw       *)
(* octets.                                                                 *)
THEOREM OnlyRawIsAtFault == Spec => []OnlyRawViolates
<1>1. IInv => OnlyRawViolates
  BY DEF IInv
<1>2. QED
  BY <1>1, SpecInv, PTL

(* The types that the reader has met, between any two components in front  *)
(* of the raw octets, are those of the rule up to the last one met, and    *)
(* all of them where the raw octets begin.                                 *)
THEOREM RuleIsRecovered == Spec => []ComponentsAreRecovered
<1>1. IInv => ComponentsAreRecovered
  <2>1. SUFFICES ASSUME IInv, Framed, reading = "type", pos <= Typed
                 PROVE  /\ DOMAIN found = {t \in DOMAIN rule.parts : t <= last}
                        /\ pos = Typed => DOMAIN found = DOMAIN rule.parts
    BY DEF ComponentsAreRecovered
  <2>2. at = 15 /\ Boundary = Typed /\ rule \in Rules
    BY <2>1, WhileReading DEF States
  <2>3. PICK plan : Laid(plan) /\ Follows(plan)
    BY <2>1, WhileReading
  <2> DEFINE n == Boundary
             six == V6(rule)
             given == DOMAIN rule.parts
  <2>4. /\ Plan(plan, comps, n, six) /\ n \in Nat /\ pos \in 0 .. n
        /\ DOMAIN found = TypesBefore(plan, comps, pos)
        /\ last \in DOMAIN found \/ (last = 0 /\ DOMAIN found = {})
        /\ \A u \in DOMAIN found : u <= last
    BY <2>1, <2>2, <2>3, InFront
  <2>5. given \subseteq 1 .. 13
    BY <2>2, RuleShape DEF Types
  <2>6. TypesBefore(plan, comps, n) = given
    <3>1. Passed = given
      BY <2>2, <2>5 DEF Passed
    <3>2. QED
      BY <2>3, <3>1 DEF Laid
  <2>7. pos = n => DOMAIN found = given
    BY <2>4, <2>6
  <2> HIDE DEF n, six, given
  <2>8. DOMAIN found \subseteq given
    <3>1. \A i \in 0 .. pos - 1 : i \in 0 .. n - 1
      BY <2>4
    <3>2. QED
      BY <2>4, <2>6, <3>1 DEF TypesBefore
  <2>9. ASSUME NEW t \in given, t <= last PROVE t \in DOMAIN found
    <3>1. PICK q \in 0 .. n - 1 : plan[q] = "type" /\ comps[q + 1] = t
      BY <2>6 DEF TypesBefore
    <3>2. CASE q < pos
      <4>1. q \in 0 .. pos - 1
        BY <2>4, <3>1, <3>2
      <4>2. QED
        BY <2>4, <3>1, <4>1 DEF TypesBefore
    <3>3. CASE ~ (q < pos)
      <4>1. \A u \in TypesBefore(plan, comps, q) : u < t
        BY <2>4, <3>1, TypeAhead
      <4>2. DOMAIN found \subseteq TypesBefore(plan, comps, q)
        <5>1. \A i \in 0 .. pos - 1 : i \in 0 .. q - 1
          BY <2>4, <3>1, <3>3
        <5>2. QED
          BY <2>4, <5>1 DEF TypesBefore
      <4>3. last < t
        BY <2>4, <2>5, <4>1, <4>2
      <4>4. t \in Int /\ last \in Int
        <5>1. last \in 1 .. 13 \/ last = 0
          BY <2>4, <2>5, <2>8
        <5>2. QED
          BY <2>5, <2>9, <5>1
      <4>5. QED
        BY <2>9, <4>3, <4>4
    <3>4. QED
      BY <3>2, <3>3
  <2>10. DOMAIN found = {t \in given : t <= last}
    BY <2>4, <2>8, <2>9
  <2>11. QED
    BY <2>2, <2>7, <2>10 DEF n, given
<1>2. QED
  BY <1>1, SpecInv, PTL
-----------------------------------------------------------------------------
(* The bits of an operation are those that it was given: neither the width *)
(* code nor the end bit has one of them.                                   *)
SameBits(code, bits) ==
  /\ HasBit(code, 1) <=> HasBit(bits, 1)
  /\ HasBit(code, 2) <=> HasBit(bits, 2)
  /\ HasBit(code, 4) <=> HasBit(bits, 4)
  /\ HasBit(code, 64) <=> HasBit(bits, 64)

LEMMA BitsAreKept ==
  ASSUME NEW bits \in Codes, NEW c \in 0 .. 3, NEW e \in {0, 128}
  PROVE  SameBits(e + bits + 16 * c, bits)
<1> DEFINE code == e + bits + 16 * c
<1>1. PICK h \in {0, 1} : e = 128 * h
  OBVIOUS
<1>2. PICK a \in {0, 1}, low \in 0 .. 15 : bits = 64 * a + low
  <2>1. CASE bits \in 0 .. 15
    <3>1. bits = 64 * 0 + bits /\ bits \in 0 .. 15
      BY <2>1
    <3>2. QED
      BY <3>1
  <2>2. CASE bits \in 64 .. 79
    <3>1. bits = 64 * 1 + (bits - 64) /\ bits - 64 \in 0 .. 15
      BY <2>2
    <3>2. QED
      BY <3>1
  <2>3. QED
    BY <2>1, <2>2 DEF Codes
<1>3. code = 128 * h + 64 * a + 16 * c + low
  BY <1>1, <1>2
<1> HIDE DEF code
<1>4. /\ (code \div 1) % 2 = (bits \div 1) % 2
      /\ (code \div 2) % 2 = (bits \div 2) % 2
  BY <1>2, <1>3
<1>5. (code \div 4) % 2 = (bits \div 4) % 2
  BY <1>2, <1>3
<1>6. (code \div 64) % 2 = a /\ (bits \div 64) % 2 = a
  BY <1>2, <1>3
<1>7. SameBits(code, bits)
  BY <1>4, <1>5, <1>6, Zenon DEF SameBits, HasBit
<1>8. QED
  BY <1>7 DEF code

-----------------------------------------------------------------------------
(* Of two values one is the less, or they are the same.                    *)
LEMMA LessOrSame ==
  ASSUME NEW a \in Seq(Octet), NEW b \in Seq(Octet)
  PROVE  Less(a, b) \/ Less(b, a) \/ a = b
<1>1. CASE Len(a) # Len(b)
  <2>1. Len(a) \in Nat /\ Len(b) \in Nat
    OBVIOUS
  <2>2. QED
    BY <1>1, <2>1 DEF Less
<1>2. CASE Len(a) = Len(b) /\ a # b
  <2> DEFINE T == {i \in 1 .. Len(a) : a[i] # b[i]}
  <2>1. T \subseteq Nat /\ T # {}
    BY <1>2
  <2> HIDE DEF T
  <2>2. PICK i \in T : \A k \in T : i <= k
    BY <2>1, LeastNumber
  <2>3. i \in 1 .. Len(a) /\ a[i] # b[i] /\ \A j \in 1 .. i - 1 : a[j] = b[j]
    BY <1>2, <2>2 DEF T
  <2>4. a[i] < b[i] \/ b[i] < a[i]
    <3>1. a[i] \in Octet /\ b[i] \in Octet
      BY <1>2, <2>3
    <3>2. QED
      BY <2>3, <3>1, OctetsAreNumbers
  <2>5. i \in DOMAIN a /\ i \in DOMAIN b
    BY <1>2, <2>3
  <2>6. QED
    BY <1>2, <2>3, <2>4, <2>5, Zenon DEF Less
<1>3. QED
  BY <1>1, <1>2

LEMMA LessIsStrict ==
  ASSUME NEW a \in Seq(Octet), NEW b \in Seq(Octet), Less(a, b)
  PROVE  ~ Less(b, a) /\ a # b
<1>1. Len(a) \in Nat /\ Len(b) \in Nat
  OBVIOUS
<1>2. CASE Len(a) < Len(b)
  BY <1>1, <1>2 DEF Less
<1>3. CASE /\ Len(a) = Len(b)
           /\ \E i \in DOMAIN a : a[i] < b[i] /\ \A j \in 1 .. i - 1 : a[j] = b[j]
  <2>1. PICK i \in 1 .. Len(a) : a[i] < b[i] /\ \A j \in 1 .. i - 1 : a[j] = b[j]
    BY <1>3
  <2>2. \A j \in 1 .. Len(a) : a[j] \in Int /\ b[j] \in Int
    <3>1. \A j \in 1 .. Len(a) : a[j] \in Octet /\ b[j] \in Octet
      BY <1>3
    <3>2. QED
      BY <3>1, OctetsAreNumbers
  <2>3. a # b
    BY <2>1, <2>2
  <2>4. ASSUME NEW k \in 1 .. Len(a), b[k] < a[k], \A j \in 1 .. k - 1 : b[j] = a[j]
        PROVE  FALSE
    <3>1. CASE k < i
      <4>1. k \in 1 .. i - 1
        BY <2>1, <2>4, <3>1
      <4>2. QED
        BY <2>1, <2>2, <2>4, <4>1
    <3>2. CASE i < k
      <4>1. i \in 1 .. k - 1
        BY <2>1, <2>4, <3>2
      <4>2. QED
        BY <2>1, <2>2, <2>4, <4>1
    <3>3. CASE i = k
      BY <2>1, <2>2, <2>4, <3>3
    <3>4. QED
      BY <3>1, <3>2, <3>3
  <2>5. ~ (\E k \in DOMAIN b : b[k] < a[k] /\ \A j \in 1 .. k - 1 : b[j] = a[j])
    <3>1. DOMAIN b = 1 .. Len(a)
      BY <1>3
    <3>2. QED
      BY <2>4, <3>1
  <2>6. ~ (Len(b) < Len(a))
    BY <1>1, <1>3
  <2>7. QED
    BY <2>3, <2>5, <2>6, Zenon DEF Less
<1>4. QED
  BY <1>2, <1>3, Zenon DEF Less

-----------------------------------------------------------------------------
(* The zeros in front of a value are not significant.                      *)
LEMMA SignificantIsValue ==
  ASSUME NEW v, Value(v)
  PROVE  Significant(ValueBytes(v)) = v
<1> DEFINE k == Len(v)
           w == 2 ^ LenCode(v)
           z == w - k
           zeros == [i \in 1 .. z |-> 0]
           o == zeros \o v
           rest == {i \in DOMAIN o : o[i] # 0}
<1>1. v \in Seq(Octet) /\ k \in 1 .. 8 /\ (v[1] # 0 \/ k = 1)
  BY DEF Value
<1>2. ValueBytes(v) = o
  BY DEF ValueBytes
<1>3. z \in Nat /\ (k = 1 => z = 0)
  <2>1. w \in {1, 2, 4, 8} /\ k <= w
    BY <1>1, CodeOfWidth
  <2>2. ASSUME k = 1 PROVE w = 1
    <3>1. LenCode(v) = 0
      BY <2>2 DEF LenCode
    <3>2. 2 ^ 0 = 1
      OBVIOUS
    <3>3. QED
      BY <3>1, <3>2, Zenon
  <2> HIDE DEF w
  <2>3. QED
    BY <1>1, <2>1, <2>2
<1> HIDE DEF z
<1>4. zeros \in Seq(Octet) /\ Len(zeros) = z
  <2>1. 0 \in Octet
    BY DEF Octet
  <2>2. QED
    BY <1>3, <2>1
<1>5. \A i \in 1 .. z : zeros[i] = 0
  OBVIOUS
<1> HIDE DEF zeros
<1>6. /\ o \in Seq(Octet) /\ Len(o) = z + k
      /\ \A i \in 1 .. z : o[i] = 0
      /\ \A i \in 1 .. k : o[z + i] = v[i]
  BY <1>1, <1>3, <1>4, <1>5
<1> HIDE DEF o
<1>7. CASE v[1] # 0
  <2>1. z + 1 \in DOMAIN o /\ o[z + 1] # 0
    BY <1>1, <1>3, <1>6, <1>7
  <2>2. \A i \in rest : z + 1 <= i
    BY <1>3, <1>6
  <2>3. z + 1 \in rest /\ rest \subseteq Int
    BY <1>6, <2>1
  <2> HIDE DEF rest
  <2>4. Min(rest) = z + 1
    <3>1. \E x \in rest : \A y \in rest : x <= y
      BY <2>2, <2>3
    <3>2. Min(rest) \in rest /\ \A y \in rest : Min(rest) <= y
      BY <3>1, Zenon DEF Min
    <3>3. Min(rest) <= z + 1 /\ z + 1 <= Min(rest) /\ Min(rest) \in Int
      BY <2>2, <2>3, <3>2
    <3>4. QED
      BY <1>3, <3>3
  <2>5. Significant(o) = SubSeq(o, z + 1, Len(o))
    BY <2>3, <2>4 DEF Significant, rest
  <2>6. SubSeq(o, z + 1, Len(o)) = v
    BY <1>1, <1>3, <1>6
  <2>7. QED
    BY <1>2, <2>5, <2>6
<1>8. CASE v[1] = 0
  <2>1. k = 1 /\ z = 0
    BY <1>1, <1>3, <1>8
  <2>2. o[1] = 0 /\ Len(o) = 1
    BY <1>6, <1>8, <2>1
  <2>3. rest = {}
    <3>1. DOMAIN o = {1}
      <4>1. DOMAIN o = 1 .. Len(o) /\ 1 .. 1 = {1}
        BY <1>6
      <4>2. QED
        BY <2>2, <4>1
    <3>2. QED
      BY <2>2, <3>1
  <2>4. Significant(o) = <<0>>
    BY <2>3 DEF Significant
  <2>5. v = <<0>>
    BY <1>1, <1>8, <2>1
  <2>6. QED
    BY <1>2, <2>4, <2>5
<1>9. QED
  BY <1>7, <1>8

-----------------------------------------------------------------------------
(* Where in one sequence the first n of others are found again: behind     *)
(* len[i - 1] of its elements the i-th begins, and there is nothing else.  *)
Places(len, s, n, flat) ==
  /\ len[0] = 0 /\ Len(flat) = len[n]
  /\ \A i \in 1 .. n :
       /\ len[i - 1] \in Nat /\ len[i] = len[i - 1] + Len(s[i])
       /\ \A j \in 1 .. Len(s[i]) :
            len[i - 1] + j \in 1 .. Len(flat) /\ flat[len[i - 1] + j] = s[i][j]
  /\ \A p \in 1 .. Len(flat) : \E i \in 1 .. n : \E j \in 1 .. Len(s[i]) : p = len[i - 1] + j

LEMMA PlacesGrow ==
  ASSUME NEW S, NEW s, NEW n \in Nat, NEW len, NEW flat \in Seq(S), Places(len, s, n, flat),
         s[n + 1] \in Seq(S), len[n + 1] = len[n] + Len(s[n + 1])
  PROVE  Places(len, s, n + 1, Joined(flat, s[n + 1]))
<1> DEFINE w == s[n + 1]
           l == Len(flat)
           m == Len(w)
           f == Joined(flat, w)
<1>1. l \in Nat /\ m \in Nat /\ len[0] = 0 /\ len[n] = l
  BY DEF Places
<1>2. /\ f \in Seq(S) /\ Len(f) = l + m
      /\ \A j \in 1 .. l : f[j] = flat[j]
      /\ \A j \in 1 .. m : f[l + j] = w[j]
  BY DEF Joined
<1>3. len[n + 1] = l + m
  BY <1>1
<1> HIDE DEF f, m
<1>4. ASSUME NEW i \in 1 .. n + 1
      PROVE  /\ len[i - 1] \in Nat /\ len[i] = len[i - 1] + Len(s[i])
             /\ \A j \in 1 .. Len(s[i]) :
                  len[i - 1] + j \in 1 .. Len(f) /\ f[len[i - 1] + j] = s[i][j]
  <2>1. CASE i \in 1 .. n
    <3> DEFINE k == len[i - 1]
    <3>1. /\ k \in Nat /\ len[i] = k + Len(s[i])
          /\ \A j \in 1 .. Len(s[i]) : k + j \in 1 .. l /\ flat[k + j] = s[i][j]
      BY <2>1 DEF Places
    <3> HIDE DEF k, l
    <3>2. \A j \in 1 .. Len(s[i]) : k + j \in 1 .. Len(f) /\ f[k + j] = s[i][j]
      <4>1. SUFFICES ASSUME NEW j \in 1 .. Len(s[i])
                     PROVE  k + j \in 1 .. Len(f) /\ f[k + j] = s[i][j]
        OBVIOUS
      <4>2. k + j \in 1 .. l /\ flat[k + j] = s[i][j]
        BY <3>1
      <4>3. f[k + j] = flat[k + j]
        BY <1>2, <4>2
      <4>4. k + j \in 1 .. l + m
        BY <1>1, <4>2
      <4>5. QED
        BY <1>2, <4>2, <4>3, <4>4
    <3>3. QED
      BY <3>1, <3>2 DEF k
  <2>2. CASE i = n + 1
    <3>1. i - 1 = n /\ s[i] = w
      BY <2>2
    <3>2. len[i - 1] = l /\ Len(s[i]) = m
      BY <1>1, <3>1 DEF m
    <3> HIDE DEF l, w
    <3>3. \A j \in 1 .. m : l + j \in 1 .. Len(f) /\ f[l + j] = w[j]
      BY <1>1, <1>2
    <3>4. QED
      BY <1>1, <1>3, <2>2, <3>1, <3>2, <3>3
  <2>3. i \in 1 .. n \/ i = n + 1
    OBVIOUS
  <2>4. QED
    BY <2>1, <2>2, <2>3
<1>5. ASSUME NEW p \in 1 .. Len(f)
      PROVE  \E i \in 1 .. n + 1 : \E j \in 1 .. Len(s[i]) : p = len[i - 1] + j
  <2>1. CASE p \in 1 .. l
    <3>1. PICK i \in 1 .. n : \E j \in 1 .. Len(s[i]) : p = len[i - 1] + j
      BY <2>1 DEF Places
    <3>2. i \in 1 .. n + 1
      OBVIOUS
    <3>3. QED
      BY <3>1, <3>2
  <2>2. CASE p \notin 1 .. l
    <3>1. p - l \in 1 .. m /\ p = l + (p - l)
      BY <1>1, <1>2, <2>2
    <3>2. n + 1 \in 1 .. n + 1 /\ (n + 1) - 1 = n /\ Len(s[n + 1]) = m
      BY DEF m
    <3>3. QED
      BY <1>1, <3>1, <3>2
  <2>3. QED
    BY <2>1, <2>2
<1>6. Places(len, s, n + 1, f)
  BY <1>1, <1>2, <1>3, <1>4, <1>5 DEF Places
<1>7. QED
  BY <1>6 DEF f

LEMMA FlatPlaces ==
  ASSUME NEW S, NEW s \in Seq(Seq(S)), s # << >>
  PROVE  \E len : Places(len, s, Len(s), FlattenSeq(s))
<1>1. Len(s) \in Nat /\ Len(s) >= 1
  OBVIOUS
<1>2. PICK f : /\ FlattenSeq(s) = f[Len(s)]
               /\ \A i \in 1 .. Len(s) : f[i] = IF i = 1 THEN s[i] ELSE Joined(f[i - 1], s[i])
  BY FlatParts
<1> DEFINE v == [i \in 1 .. Len(s) |-> Len(s[i])]
           g(k) == IF k = 0 THEN << >> ELSE f[k]
<1>3. v \in Seq(Nat) /\ Len(v) = Len(s) /\ \A i \in 1 .. Len(s) : v[i] = Len(s[i])
  <2>1. v \in [1 .. Len(s) -> Nat]
    OBVIOUS
  <2>2. QED
    BY <1>1, <2>1
<1> HIDE DEF v
<1>4. PICK len : IsSumOf(len, v)
  BY <1>3, SumExists
<1>5. len[0] = 0 /\ \A i \in 1 .. Len(s) : len[i] = len[i - 1] + Len(s[i])
  <2>1. \A i \in 0 .. Len(s) : len[i] = IF i = 0 THEN 0 ELSE len[i - 1] + v[i]
    BY <1>3, <1>4 DEF IsSumOf
  <2>2. QED
    BY <1>1, <1>3, <2>1
<1> DEFINE P == {k \in Nat : k <= Len(s) => g(k) \in Seq(S) /\ Places(len, s, k, g(k))}
<1>6. 0 \in P
  <2>1. g(0) = << >> /\ << >> \in Seq(S) /\ Len(<< >>) = 0
    OBVIOUS
  <2>2. Places(len, s, 0, << >>)
    BY <1>5, <2>1 DEF Places
  <2>3. QED
    BY <2>1, <2>2
<1>7. ASSUME NEW k \in Nat, k \in P PROVE k + 1 \in P
  <2>1. SUFFICES ASSUME k + 1 <= Len(s)
                 PROVE  g(k + 1) \in Seq(S) /\ Places(len, s, k + 1, g(k + 1))
    BY DEF P
  <2> DEFINE a == g(k)
             w == s[k + 1]
  <2>2. a \in Seq(S) /\ Places(len, s, k, a)
    <3>1. k <= Len(s)
      BY <1>1, <2>1
    <3> HIDE DEF g
    <3>2. QED
      BY <1>7, <3>1 DEF P
  <2>3. k + 1 \in 1 .. Len(s) /\ (k + 1) - 1 = k
    BY <1>1, <2>1
  <2>4. w \in Seq(S) /\ len[k + 1] = len[k] + Len(w)
    BY <1>5, <2>3
  <2>5. g(k + 1) = Joined(a, w)
    <3>1. g(k + 1) = f[k + 1]
      OBVIOUS
    <3>2. CASE k = 0
      <4>1. a = << >> /\ f[k + 1] = w
        BY <1>2, <2>3, <3>2
      <4>2. << >> \o w = w
        BY <2>4
      <4> HIDE DEF a, w, g
      <4>3. QED
        BY <3>1, <4>1, <4>2 DEF Joined
    <3>3. CASE k # 0
      <4>1. a = f[k] /\ f[k + 1] = Joined(f[k], w)
        BY <1>2, <2>3, <3>3
      <4>2. QED
        BY <3>1, <4>1
    <3>4. QED
      BY <3>2, <3>3
  <2> HIDE DEF a, g
  <2>6. Places(len, s, k + 1, Joined(a, w))
    BY <2>2, <2>4, PlacesGrow
  <2>7. Joined(a, w) \in Seq(S)
    BY <2>2, <2>4 DEF Joined
  <2>8. QED
    BY <2>5, <2>6, <2>7
<1> HIDE DEF P
<1>8. \A k \in Nat : k \in P
  BY <1>6, <1>7, SetInduction
<1>9. Places(len, s, Len(s), g(Len(s)))
  <2>1. Len(s) \in P
    BY <1>1, <1>8
  <2> HIDE DEF g
  <2>2. QED
    BY <1>1, <2>1 DEF P
<1>10. g(Len(s)) = FlattenSeq(s)
  BY <1>1, <1>2
<1> HIDE DEF g
<1>11. QED
  BY <1>9, <1>10
-----------------------------------------------------------------------------
(* Where the operators of a list begin, as OperatorsFrom finds them.       *)
NextFrom(o, from) == [p \in from .. Len(o) |-> p + 1 + Width(o[p + 1])]

IsStarts(f, o, from) ==
  f = [i \in 0 .. Len(o) |-> IF i = 0 THEN from ELSE NextFrom(o, from)[f[i - 1]]]

IsCount(n, f, o) ==
  n \in 1 .. Len(o) /\ o[f[n - 1] + 1] >= OpEnd /\ \A m \in 1 .. n - 1 : o[f[m - 1] + 1] < OpEnd

LEMMA StartsExist ==
  ASSUME NEW o, NEW from, Len(o) \in Nat
  PROVE  \E f : IsStarts(f, o, from)
<1> DEFINE G(p) == NextFrom(o, from)[p]
           Eq(f, n) == f = [i \in 0 .. n |-> IF i = 0 THEN from ELSE G(f[i - 1])]
           P == {n \in Nat : \E f : Eq(f, n)}
<1> HIDE DEF G
<1>1. 0 \in P
  <2>1. Eq([i \in 0 .. 0 |-> from], 0)
    OBVIOUS
  <2>2. QED
    BY <2>1
<1>2. ASSUME NEW n \in Nat, n \in P PROVE n + 1 \in P
  <2>1. PICK f : Eq(f, n)
    BY <1>2
  <2> DEFINE g == [i \in 0 .. n + 1 |-> IF i <= n THEN f[i] ELSE G(f[n])]
  <2>2. ASSUME NEW i \in 0 .. n + 1
        PROVE  g[i] = IF i = 0 THEN from ELSE G(g[i - 1])
    <3>1. CASE i = 0
      <4>1. f[0] = from
        BY <2>1
      <4>2. QED
        BY <3>1, <4>1
    <3>2. CASE i \in 1 .. n
      <4>1. f[i] = G(f[i - 1])
        BY <2>1, <3>2
      <4>2. g[i] = f[i] /\ g[i - 1] = f[i - 1]
        BY <3>2
      <4>3. QED
        BY <3>2, <4>1, <4>2
    <3>3. CASE i = n + 1
      <4>1. g[i] = G(f[n]) /\ g[i - 1] = f[n] /\ i # 0
        BY <3>3
      <4>2. QED
        BY <4>1
    <3>4. QED
      BY <3>1, <3>2, <3>3
  <2>3. DOMAIN g = 0 .. n + 1
    OBVIOUS
  <2>4. g = [i \in 0 .. n + 1 |-> g[i]]
    OBVIOUS
  <2> HIDE DEF g
  <2>5. Eq(g, n + 1)
    BY <2>2, <2>4
  <2>6. QED
    BY <2>5
<1> HIDE DEF P
<1>3. Len(o) \in P
  BY <1>1, <1>2, SetInduction
<1>4. PICK f : Eq(f, Len(o))
  BY <1>3 DEF P
<1>5. IsStarts(f, o, from)
  BY <1>4 DEF IsStarts, G
<1>6. QED
  BY <1>5

(* What OperatorsFrom is, then.                                            *)
FoundBy(f, o, from) ==
  [i \in 1 .. (CHOOSE n : IsCount(n, f, o)) |->
     [op |-> o[f[i - 1] + 1],
      value |-> Significant(SubSeq(o, f[i - 1] + 2, NextFrom(o, from)[f[i - 1]]))]]

LEMMA OperatorsFound ==
  ASSUME NEW o, NEW from, Len(o) \in Nat
  PROVE  \E f : IsStarts(f, o, from) /\ OperatorsFrom(o, from) = FoundBy(f, o, from)
<1> DEFINE f == CHOOSE g : IsStarts(g, o, from)
<1>1. IsStarts(f, o, from)
  BY StartsExist
<1>2. OperatorsFrom(o, from) = FoundBy(f, o, from)
  BY DEF OperatorsFrom, IsStarts, NextFrom, FoundBy, IsCount
<1>3. QED
  BY <1>1, <1>2

(* A list of operations that stands in some octets behind a place.         *)
StandsAt(o, from, ops) ==
  /\ Operations(ops) /\ from \in Nat /\ o \in Seq(Octet)
  /\ from + Len(FlattenSeq(ops)) <= Len(o)
  /\ \A j \in 1 .. Len(FlattenSeq(ops)) : o[from + j] = FlattenSeq(ops)[j]

(* From there the operators begin where its operations do.                 *)
LEMMA StartsArePlaces ==
  ASSUME NEW o, NEW from, NEW ops, StandsAt(o, from, ops),
         NEW len, Places(len, ops, Len(ops), FlattenSeq(ops)),
         NEW f, IsStarts(f, o, from)
  PROVE  \A i \in 1 .. Len(ops) :
           /\ Len(ops) <= Len(o)
           /\ f[i - 1] = from + len[i - 1] /\ len[i - 1] \in Nat
           /\ NextFrom(o, from)[f[i - 1]] = from + len[i]
           /\ len[i] = len[i - 1] + Len(ops[i]) /\ from + len[i] <= Len(o)
           /\ \A j \in 1 .. Len(ops[i]) : o[f[i - 1] + j] = ops[i][j]
<1> DEFINE count == Len(ops)
           flat == FlattenSeq(ops)
           l == Len(o)
           G(p) == NextFrom(o, from)[p]
<1>1. /\ ops \in Seq(Seq(Octet)) /\ count \in Nat /\ count >= 1
      /\ \A i \in 1 .. count : IsOperation(ops[i], i = count)
      /\ from \in Nat /\ l \in Nat /\ from + Len(flat) <= l
      /\ \A j \in 1 .. Len(flat) : o[from + j] = flat[j]
  BY DEF StandsAt, Operations
<1>2. /\ len[0] = 0 /\ Len(flat) = len[count]
      /\ \A i \in 1 .. count :
           /\ len[i - 1] \in Nat /\ len[i] = len[i - 1] + Len(ops[i])
           /\ \A j \in 1 .. Len(ops[i]) :
                len[i - 1] + j \in 1 .. Len(flat) /\ flat[len[i - 1] + j] = ops[i][j]
  BY DEF Places
<1>3. f[0] = from /\ \A i \in 1 .. l : f[i] = G(f[i - 1])
  <2> HIDE DEF G
  <2>1. f = [i \in 0 .. l |-> IF i = 0 THEN from ELSE G(f[i - 1])]
    BY DEF IsStarts, G
  <2>2. \A i \in 0 .. l : f[i] = IF i = 0 THEN from ELSE G(f[i - 1])
    BY <2>1
  <2> HIDE DEF l
  <2>3. QED
    BY <1>1, <2>2
<1> HIDE DEF count, flat, l, G
<1>4. ASSUME NEW i \in 1 .. count
      PROVE  /\ ops[i] \in Seq(Octet) /\ Len(ops[i]) \in Nat /\ Len(ops[i]) >= 2
             /\ Len(ops[i]) = 1 + Width(ops[i][1])
             /\ len[i - 1] \in Nat /\ len[i] = len[i - 1] + Len(ops[i])
             /\ from + len[i] <= l /\ len[i] \in Nat
             /\ \A j \in 1 .. Len(ops[i]) : o[from + len[i - 1] + j] = ops[i][j]
  <2> DEFINE w == ops[i]
             k == len[i - 1]
             m == Len(w)
  <2>1. IsOperation(w, i = count)
    BY <1>1
  <2>2. w \in Seq(Octet) /\ m = 1 + Width(w[1]) /\ Width(w[1]) \in 1 .. 8
    BY <2>1 DEF IsOperation
  <2>3. /\ k \in Nat /\ len[i] = k + m
        /\ \A j \in 1 .. m : k + j \in 1 .. Len(flat) /\ flat[k + j] = w[j]
    BY <1>2
  <2>4. m \in Nat /\ m >= 2
    BY <2>2
  <2> HIDE DEF w, k, m
  <2>5. m \in 1 .. m /\ Len(flat) \in Int
    <3>1. m \in 1 .. m
      BY <2>4
    <3>2. flat \in Seq(Octet)
      BY <1>1, SequencesFlatten DEF flat
    <3>3. QED
      BY <3>1, <3>2
  <2>6. k + m <= Len(flat)
    BY <2>3, <2>5
  <2>7. from + len[i] <= l
    BY <1>1, <2>3, <2>4, <2>5, <2>6
  <2>8. ASSUME NEW j \in 1 .. m PROVE o[from + k + j] = w[j]
    <3>1. k + j \in 1 .. Len(flat) /\ flat[k + j] = w[j]
      BY <2>3
    <3>2. o[from + (k + j)] = flat[k + j]
      BY <1>1, <3>1
    <3>3. from + (k + j) = from + k + j
      BY <1>1, <2>3
    <3>4. QED
      BY <3>1, <3>2, <3>3
  <2>9. len[i] \in Nat
    BY <2>3, <2>4
  <2>10. QED
    BY <2>2, <2>3, <2>4, <2>7, <2>8, <2>9 DEF w, k, m
<1>5. ASSUME NEW i \in 1 .. count
      PROVE  G(from + len[i - 1]) = from + len[i]
  <2> DEFINE p == from + len[i - 1]
             m == Len(ops[i])
  <2>1. 1 \in 1 .. m /\ m \in Nat
    BY <1>4
  <2>2. o[p + 1] = ops[i][1]
    BY <1>4, <2>1
  <2>3. p \in from .. l
    <3>1. len[i - 1] \in Nat /\ len[i] = len[i - 1] + m /\ from + len[i] <= l /\ m \in Nat
      BY <1>4
    <3> HIDE DEF m
    <3>2. QED
      BY <1>1, <3>1
  <2>4. m = 1 + Width(ops[i][1])
    BY <1>4
  <2>5. len[i] = len[i - 1] + m /\ len[i - 1] \in Nat
    BY <1>4
  <2>6. G(p) = p + 1 + Width(o[p + 1])
    <3> HIDE DEF p
    <3>1. QED
      BY <2>3 DEF G, NextFrom, l
  <2>7. Width(ops[i][1]) = m - 1
    <3> DEFINE w == Width(ops[i][1])
    <3>1. m = 1 + w /\ w \in Int
      <4>1. IsOperation(ops[i], i = count)
        BY <1>1
      <4>2. w \in 1 .. 8
        BY <4>1 DEF IsOperation
      <4>3. QED
        BY <2>4, <4>2
    <3> HIDE DEF w
    <3>2. w = m - 1
      BY <2>1, <3>1
    <3>3. QED
      BY <3>2 DEF w
  <2>8. G(p) = p + 1 + (m - 1)
    BY <2>2, <2>6, <2>7
  <2>9. p + 1 + (m - 1) = from + len[i]
    <3> HIDE DEF m
    <3>1. QED
      BY <1>1, <2>1, <2>5
  <2>10. QED
    BY <2>8, <2>9
<1>6. count <= l
  <2> DEFINE P == {k \in Nat : k <= count => len[k] >= k /\ len[k] \in Nat}
  <2>1. 0 \in P
    BY <1>2
  <2>2. ASSUME NEW k \in Nat, k \in P PROVE k + 1 \in P
    <3>1. SUFFICES ASSUME k + 1 <= count PROVE len[k + 1] >= k + 1 /\ len[k + 1] \in Nat
      OBVIOUS
    <3>2. k + 1 \in 1 .. count /\ k <= count /\ (k + 1) - 1 = k
      BY <1>1, <3>1
    <3>3. len[k + 1] = len[k] + Len(ops[k + 1]) /\ Len(ops[k + 1]) \in Nat /\ Len(ops[k + 1]) >= 2
      BY <1>4, <3>2
    <3>4. len[k] >= k /\ len[k] \in Nat
      BY <2>2, <3>2
    <3>5. QED
      BY <3>3, <3>4
  <2> HIDE DEF P
  <2>3. count \in P
    BY <1>1, <2>1, <2>2, SetInduction
  <2>4. len[count] >= count /\ len[count] \in Nat
    BY <1>1, <2>3 DEF P
  <2>5. QED
    BY <1>1, <1>2, <2>4
<1>7. \A k \in Nat : k < count => f[k] = from + len[k]
  <2> DEFINE P == {k \in Nat : k < count => f[k] = from + len[k]}
  <2>1. 0 \in P
    BY <1>1, <1>2, <1>3
  <2>2. ASSUME NEW k \in Nat, k \in P PROVE k + 1 \in P
    <3>1. SUFFICES ASSUME k + 1 < count PROVE f[k + 1] = from + len[k + 1]
      OBVIOUS
    <3>2. k + 1 \in 1 .. count /\ k < count /\ (k + 1) - 1 = k /\ k + 1 \in 1 .. l
      BY <1>1, <1>6, <3>1
    <3>3. f[k] = from + len[k]
      BY <2>2, <3>2
    <3>4. f[k + 1] = G(f[k])
      BY <1>3, <3>2
    <3>5. G(from + len[k]) = from + len[k + 1]
      BY <1>5, <3>2
    <3>6. QED
      BY <3>3, <3>4, <3>5
  <2> HIDE DEF P
  <2>3. \A k \in Nat : k \in P
    BY <2>1, <2>2, SetInduction
  <2>4. QED
    BY <2>3 DEF P
<1>8. ASSUME NEW i \in 1 .. count
      PROVE  /\ count <= l
             /\ f[i - 1] = from + len[i - 1] /\ len[i - 1] \in Nat
             /\ G(f[i - 1]) = from + len[i]
             /\ len[i] = len[i - 1] + Len(ops[i]) /\ from + len[i] <= l
             /\ \A j \in 1 .. Len(ops[i]) : o[f[i - 1] + j] = ops[i][j]
  <2>1. i - 1 \in Nat /\ i - 1 < count
    BY <1>1
  <2>2. f[i - 1] = from + len[i - 1]
    BY <1>7, <2>1
  <2>3. QED
    BY <1>4, <1>5, <1>6, <2>2
<1>9. QED
  BY <1>8 DEF count, l, G

(* What an operation says of its bits and its operand.                     *)
LEMMA OperationSays ==
  ASSUME NEW bits \in Codes, NEW v \in Operand, NEW i \in Nat, NEW count \in Nat
  PROVE  /\ SameBits(Operation(bits, v, i, count)[1], bits)
         /\ SubSeq(Operation(bits, v, i, count), 2, Len(Operation(bits, v, i, count))) = ValueBytes(v)
<1> DEFINE c == LenCode(v)
           e == IF i = count THEN OpEnd ELSE 0
           code == e + bits + 16 * c
           tail == ValueBytes(v)
<1>1. Value(v) /\ v \in Seq(Octet) /\ Len(v) \in 1 .. 8
  BY DEF Operand, Value
<1>2. c \in 0 .. 3 /\ 2 ^ c \in {1, 2, 4, 8} /\ Len(v) <= 2 ^ c
  BY <1>1, CodeOfWidth, Zenon
<1>3. e \in {0, 128}
  BY DEF OpEnd
<1>4. Operation(bits, v, i, count) = <<code>> \o tail
  BY DEF Operation
<1>5. tail \in Seq(Octet)
  <2> DEFINE zeros == [j \in 1 .. 2 ^ c - Len(v) |-> 0]
  <2>1. 2 ^ c - Len(v) \in Nat /\ 0 \in Octet
    BY <1>1, <1>2 DEF Octet
  <2>2. zeros \in Seq(Octet)
    BY <2>1
  <2>3. tail = zeros \o v
    BY DEF ValueBytes
  <2> HIDE DEF zeros, tail
  <2>4. QED
    BY <1>1, <2>2, <2>3
<1> HIDE DEF c, e
<1>6. SameBits(code, bits)
  BY <1>2, <1>3, BitsAreKept
<1> HIDE DEF code, tail
<1> DEFINE w == <<code>> \o tail
<1>7. w[1] = code /\ SubSeq(w, 2, Len(w)) = tail
  <2> DEFINE S == Octet \cup {code}
  <2>1. tail \in Seq(S) /\ <<code>> \in Seq(S)
    BY <1>5
  <2> HIDE DEF S
  <2>2. /\ w \in Seq(S) /\ Len(w) = 1 + Len(tail) /\ w[1] = code
        /\ \A j \in 1 .. Len(tail) : w[1 + j] = tail[j]
    BY <2>1
  <2>3. SubSeq(w, 2, Len(w)) = tail
    BY <2>1, <2>2
  <2>4. QED
    BY <2>2, <2>3
<1> HIDE DEF w
<1>8. QED
  BY <1>4, <1>6, <1>7 DEF w, tail

(* Operators with the bits and the operands of some pairs.                 *)
ReadAs(operators, pairs) ==
  /\ DOMAIN operators = 1 .. Len(pairs) /\ Len(operators) = Len(pairs)
  /\ \A i \in 1 .. Len(pairs) :
       SameBits(operators[i].op, pairs[i][1]) /\ operators[i].value = pairs[i][2]

LEMMA CountIsFound ==
  ASSUME NEW count, NEW f, NEW o, IsCount(count, f, o),
         \A m \in 1 .. count : o[f[m - 1] + 1] \in Int
  PROVE  (CHOOSE n : IsCount(n, f, o)) = count
<1>1. ASSUME NEW n, IsCount(n, f, o) PROVE n = count
  <2>1. n \in Int /\ count \in Int /\ n >= 1 /\ count >= 1
    BY <1>1 DEF IsCount
  <2>2. CASE n < count
    <3>1. n \in 1 .. count - 1 /\ n \in 1 .. count
      BY <2>1, <2>2
    <3> DEFINE code == o[f[n - 1] + 1]
    <3>2. code < OpEnd /\ code >= OpEnd /\ code \in Int
      BY <1>1, <3>1 DEF IsCount
    <3> HIDE DEF code
    <3>3. QED
      BY <3>2 DEF OpEnd
  <2>3. CASE count < n
    <3>1. count \in 1 .. n - 1 /\ count \in 1 .. count
      BY <2>1, <2>3
    <3> DEFINE code == o[f[count - 1] + 1]
    <3>2. code < OpEnd /\ code >= OpEnd /\ code \in Int
      BY <1>1, <3>1 DEF IsCount
    <3> HIDE DEF code
    <3>3. QED
      BY <3>2 DEF OpEnd
  <2>4. QED
    BY <2>1, <2>2, <2>3
<1>2. QED
  BY <1>1, Zenon

(* Behind their first elements the same stretch.                           *)
LEMMA SameStretch ==
  ASSUME NEW S, NEW o \in Seq(S), NEW w \in Seq(S), NEW a \in Nat, NEW m \in Nat, m >= 1,
         a + m <= Len(o), Len(w) = m, \A j \in 1 .. m : o[a + j] = w[j]
  PROVE  SubSeq(o, a + 2, a + m) = SubSeq(w, 2, m)
<1> DEFINE x == SubSeq(o, a + 2, a + m)
           y == SubSeq(w, 2, m)
<1>1. x \in Seq(S) /\ Len(x) = m - 1
      /\ \A j \in 1 .. m - 1 : x[j] = o[a + (j + 1)]
  OBVIOUS
<1>2. y \in Seq(S) /\ Len(y) = m - 1
      /\ \A j \in 1 .. m - 1 : y[j] = w[j + 1]
  OBVIOUS
<1> HIDE DEF x, y
<1>3. \A j \in 1 .. m - 1 : x[j] = y[j]
  <2>1. \A j \in 1 .. m - 1 : j + 1 \in 1 .. m
    OBVIOUS
  <2>2. QED
    BY <1>1, <1>2, <2>1
<1>4. x = y
  BY <1>1, <1>2, <1>3
<1>5. QED
  BY <1>4 DEF x, y

(* What is laid out as a list is read back as it.                          *)
LEMMA ReadsBack ==
  ASSUME NEW pairs \in Seq(Operated), pairs # << >>, NEW o, NEW from,
         StandsAt(o, from, OperationsOf(pairs))
  PROVE  ReadAs(OperatorsFrom(o, from), pairs)
<1> DEFINE ops == OperationsOf(pairs)
           count == Len(pairs)
<1>1. /\ Operations(ops) /\ Len(ops) = count
      /\ \A i \in 1 .. count : ops[i] = Operation(pairs[i][1], pairs[i][2], i, count)
  BY OperationsOfPairs
<1>2. count \in Nat /\ count >= 1
  OBVIOUS
<1> HIDE DEF ops, count
<1>3. /\ ops \in Seq(Seq(Octet)) /\ ops # << >>
      /\ \A i \in 1 .. count : IsOperation(ops[i], i = count)
  BY <1>1 DEF Operations
<1>4. PICK len : Places(len, ops, count, FlattenSeq(ops))
  BY <1>1, <1>3, FlatPlaces
<1>5. StandsAt(o, from, ops) /\ from \in Nat /\ o \in Seq(Octet) /\ Len(o) \in Nat
  BY DEF StandsAt, ops
<1>6. PICK f : IsStarts(f, o, from) /\ OperatorsFrom(o, from) = FoundBy(f, o, from)
  BY <1>5, OperatorsFound
<1>7. \A i \in 1 .. count :
        /\ count <= Len(o)
        /\ f[i - 1] = from + len[i - 1] /\ len[i - 1] \in Nat
        /\ NextFrom(o, from)[f[i - 1]] = from + len[i]
        /\ len[i] = len[i - 1] + Len(ops[i]) /\ from + len[i] <= Len(o)
        /\ \A j \in 1 .. Len(ops[i]) : o[f[i - 1] + j] = ops[i][j]
  BY <1>1, <1>4, <1>5, <1>6, StartsArePlaces
<1>8. ASSUME NEW i \in 1 .. count
      PROVE  /\ o[f[i - 1] + 1] = ops[i][1]
             /\ (o[f[i - 1] + 1] >= OpEnd) <=> i = count
             /\ o[f[i - 1] + 1] \in Int
             /\ ops[i] \in Seq(Octet) /\ Len(ops[i]) \in Nat /\ Len(ops[i]) >= 2
  <2>1. IsOperation(ops[i], i = count)
    BY <1>3
  <2>2. /\ ops[i] \in Seq(Octet) /\ (ops[i][1] >= OpEnd <=> i = count)
        /\ Len(ops[i]) = 1 + Width(ops[i][1]) /\ Width(ops[i][1]) \in 1 .. 8
    BY <2>1 DEF IsOperation
  <2>3. Len(ops[i]) \in Nat /\ Len(ops[i]) >= 2
    BY <2>2
  <2>4. 1 \in 1 .. Len(ops[i])
    BY <2>3
  <2>5. o[f[i - 1] + 1] = ops[i][1]
    BY <1>7, <2>4
  <2>6. ops[i][1] \in Int
    <3>1. ops[i][1] \in Octet
      BY <2>2, <2>4
    <3>2. QED
      BY <3>1, OctetsAreNumbers
  <2>7. QED
    BY <2>2, <2>3, <2>5, <2>6
<1>9. IsCount(count, f, o)
  <2>1. count \in 1 .. Len(o)
    BY <1>2, <1>5, <1>7
  <2>2. \A m \in 1 .. count - 1 : m \in 1 .. count /\ m # count
    BY <1>2
  <2>3. o[f[count - 1] + 1] >= OpEnd
    <3>1. count \in 1 .. count
      BY <1>2
    <3>2. QED
      BY <1>8, <3>1
  <2>4. ASSUME NEW m \in 1 .. count - 1 PROVE o[f[m - 1] + 1] < OpEnd
    <3> DEFINE code == o[f[m - 1] + 1]
    <3>1. ~ (code >= OpEnd) /\ code \in Int
      BY <1>8, <2>2
    <3> HIDE DEF code
    <3>2. code < OpEnd
      BY <3>1 DEF OpEnd
    <3>3. QED
      BY <3>2 DEF code
  <2>5. QED
    BY <2>1, <2>3, <2>4 DEF IsCount
<1>10. (CHOOSE n : IsCount(n, f, o)) = count
  BY <1>8, <1>9, CountIsFound
<1>11. ASSUME NEW i \in 1 .. count
       PROVE  /\ SameBits(o[f[i - 1] + 1], pairs[i][1])
              /\ Significant(SubSeq(o, f[i - 1] + 2, NextFrom(o, from)[f[i - 1]])) = pairs[i][2]
  <2> DEFINE a == f[i - 1]
             b == NextFrom(o, from)[a]
             w == ops[i]
             bits == pairs[i][1]
             v == pairs[i][2]
  <2>1. bits \in Codes /\ v \in Operand /\ i \in Nat
    <3>1. pairs[i] \in Operated
      BY DEF count
    <3>2. QED
      BY <3>1 DEF Operated
  <2>2. w = Operation(bits, v, i, count)
    BY <1>1
  <2>3. /\ a \in Nat /\ b = a + Len(w) /\ b <= Len(o)
        /\ \A j \in 1 .. Len(w) : o[a + j] = w[j]
        /\ w \in Seq(Octet) /\ Len(w) \in Nat /\ Len(w) >= 2
    <3>1. /\ a = from + len[i - 1] /\ len[i - 1] \in Nat /\ b = from + len[i]
          /\ len[i] = len[i - 1] + Len(w) /\ from + len[i] <= Len(o)
          /\ \A j \in 1 .. Len(w) : o[a + j] = w[j]
      BY <1>7
    <3>2. w \in Seq(Octet) /\ Len(w) \in Nat /\ Len(w) >= 2
      BY <1>8
    <3> HIDE DEF a, b, w
    <3>3. QED
      BY <1>5, <3>1, <3>2
  <2> HIDE DEF bits, v
  <2>4. SameBits(w[1], bits) /\ SubSeq(w, 2, Len(w)) = ValueBytes(v)
    BY <1>2, <2>1, <2>2, OperationSays
  <2> HIDE DEF a, b, w
  <2>5. SubSeq(o, a + 2, b) = SubSeq(w, 2, Len(w))
    <3> DEFINE m == Len(w)
    <3>1. m \in Nat /\ m >= 1 /\ b = a + m /\ a + m <= Len(o) /\ Len(w) = m
      BY <2>3
    <3>2. \A j \in 1 .. m : o[a + j] = w[j]
      BY <2>3
    <3>3. o \in Seq(Octet) /\ w \in Seq(Octet) /\ a \in Nat
      BY <2>3 DEF StandsAt
    <3> HIDE DEF m
    <3>4. SubSeq(o, a + 2, a + m) = SubSeq(w, 2, m)
      BY <3>1, <3>2, <3>3, SameStretch
    <3>5. QED
      BY <3>1, <3>4
  <2>6. Significant(ValueBytes(v)) = v
    BY <2>1, SignificantIsValue DEF Operand
  <2>7. o[a + 1] = w[1]
    BY <1>8 DEF a, w
  <2>8. SameBits(o[a + 1], bits) /\ Significant(SubSeq(o, a + 2, b)) = v
    BY <2>4, <2>5, <2>6, <2>7
  <2>9. QED
    BY <2>8 DEF a, b, bits, v
<1> DEFINE read == FoundBy(f, o, from)
<1>12. read = [i \in 1 .. count |->
                 [op |-> o[f[i - 1] + 1],
                  value |-> Significant(SubSeq(o, f[i - 1] + 2, NextFrom(o, from)[f[i - 1]]))]]
  BY <1>10, Zenon DEF FoundBy
<1>13. /\ DOMAIN read = 1 .. count
       /\ \A i \in 1 .. count :
            SameBits(read[i].op, pairs[i][1]) /\ read[i].value = pairs[i][2]
  BY <1>11, <1>12
<1> HIDE DEF read
<1>14. Len(read) = count
  BY <1>2, <1>12, <1>13
<1>15. ReadAs(read, pairs)
  BY <1>13, <1>14 DEF ReadAs, count
<1>16. QED
  BY <1>6, <1>15 DEF read
-----------------------------------------------------------------------------
(* What a pair asks of a field.                                            *)
Condition(pair) == [op |-> pair[1], value |-> pair[2]]

LEMMA ConditionIsRead ==
  ASSUME NEW operator, NEW pair, SameBits(operator.op, pair[1]), operator.value = pair[2], NEW x
  PROVE  /\ Holds(operator, x) <=> Holds(Condition(pair), x)
         /\ BitsHold(operator, x) <=> BitsHold(Condition(pair), x)
         /\ HasBit(operator.op, OpAnd) <=> HasBit(pair[1], OpAnd)
<1>1. Condition(pair).op = pair[1] /\ Condition(pair).value = pair[2]
  BY DEF Condition
<1>2. /\ HasBit(operator.op, 1) <=> HasBit(pair[1], 1)
      /\ HasBit(operator.op, 2) <=> HasBit(pair[1], 2)
      /\ HasBit(operator.op, 4) <=> HasBit(pair[1], 4)
      /\ HasBit(operator.op, 64) <=> HasBit(pair[1], 64)
  BY DEF SameBits
<1>3. Holds(operator, x) <=> Holds(Condition(pair), x)
  BY <1>1, <1>2, Zenon DEF Holds, OpLt, OpGt, OpEq
<1>4. BitsHold(operator, x) <=> BitsHold(Condition(pair), x)
  BY <1>1, <1>2, Zenon DEF BitsHold
<1>5. QED
  BY <1>2, <1>3, <1>4 DEF OpAnd

(* Without an AND, every operator is a run of its own.                     *)
LEMMA EachOnItsOwn ==
  ASSUME NEW pairs, Len(pairs) \in Nat, NEW operators, ReadAs(operators, pairs), NEW x,
         \A i \in 1 .. Len(pairs) : ~ HasBit(pairs[i][1], OpAnd)
  PROVE  Satisfies(operators, x, BitsHold) <=>
           \E i \in 1 .. Len(pairs) : BitsHold(Condition(pairs[i]), x)
<1> DEFINE n == Len(pairs)
<1>1. DOMAIN operators = 1 .. n /\ Len(operators) = n
  BY DEF ReadAs
<1>2. \A i \in 1 .. n : /\ BitsHold(operators[i], x) <=> BitsHold(Condition(pairs[i]), x)
                        /\ ~ HasBit(operators[i].op, OpAnd)
  BY ConditionIsRead DEF ReadAs
<1> HIDE DEF n
<1>3. ASSUME NEW i \in 1 .. n, NEW j \in i + 1 .. n
      PROVE  ~ (\A k \in i + 1 .. j : HasBit(operators[k].op, OpAnd))
  <2>1. j \in i + 1 .. j /\ j \in 1 .. n
    OBVIOUS
  <2>2. QED
    BY <1>2, <2>1
<1>4. Satisfies(operators, x, BitsHold) <=> \E i \in 1 .. n : BitsHold(operators[i], x)
  BY <1>1, <1>2, <1>3, Zenon DEF Satisfies
<1>5. QED
  BY <1>2, <1>4 DEF n

(* What an item contributes: one operator, or two of which the second is   *)
(* an AND.                                                                 *)
Run(part) ==
  /\ part \in Seq(Operated) /\ Len(part) \in {1, 2}
  /\ ~ HasBit(part[1][1], OpAnd)
  /\ Len(part) = 2 => HasBit(part[2][1], OpAnd)

(* A list of operators that is one of runs is satisfied when one of them   *)
(* is.                                                                     *)
LEMMA OneRunIsEnough ==
  ASSUME NEW parts \in Seq(Seq(Operated)), parts # << >>, \A k \in 1 .. Len(parts) : Run(parts[k]),
         NEW operators, ReadAs(operators, FlattenSeq(parts)), NEW x
  PROVE  Satisfies(operators, x, Holds) <=>
           \E k \in 1 .. Len(parts) :
             \A j \in 1 .. Len(parts[k]) : Holds(Condition(parts[k][j]), x)
<1> DEFINE pairs == FlattenSeq(parts)
           n == Len(pairs)
           And(i) == HasBit(operators[i].op, OpAnd)
           T(i) == Holds(operators[i], x)
           U(p) == Holds(Condition(p), x)
           A(p) == HasBit(p[1], OpAnd)
<1>1. PICK len : Places(len, parts, Len(parts), pairs)
  BY FlatPlaces
<1>2. DOMAIN operators = 1 .. n /\ Len(operators) = n
  BY DEF ReadAs
<1>3. \A i \in 1 .. n : (T(i) <=> U(pairs[i])) /\ (And(i) <=> A(pairs[i]))
  BY ConditionIsRead DEF ReadAs
<1>4. n \in Nat /\ Len(parts) \in Nat
  <2>1. pairs \in Seq(Operated)
    BY SequencesFlatten
  <2> HIDE DEF pairs
  <2>2. QED
    BY <2>1
<1> HIDE DEF pairs, n, And, T, U, A
<1>5. ASSUME NEW k \in 1 .. Len(parts)
      PROVE  /\ len[k - 1] \in Nat /\ len[k] = len[k - 1] + Len(parts[k])
             /\ Len(parts[k]) \in {1, 2}
             /\ len[k - 1] + 1 \in 1 .. n
             /\ ~ And(len[k - 1] + 1) /\ (T(len[k - 1] + 1) <=> U(parts[k][1]))
             /\ Len(parts[k]) = 2 => /\ len[k - 1] + 2 \in 1 .. n
                                     /\ And(len[k - 1] + 2)
                                     /\ T(len[k - 1] + 2) <=> U(parts[k][2])
  <2> DEFINE m == Len(parts[k])
             l == len[k - 1]
  <2>1. /\ l \in Nat /\ len[k] = l + m
        /\ \A j \in 1 .. m : l + j \in 1 .. n /\ pairs[l + j] = parts[k][j]
    BY <1>1 DEF Places, n
  <2>2. Run(parts[k])
    OBVIOUS
  <2>3. m \in {1, 2} /\ ~ A(parts[k][1]) /\ (m = 2 => A(parts[k][2]))
    BY <2>2 DEF Run, A
  <2> HIDE DEF m, l
  <2>4. 1 \in 1 .. m /\ (m = 2 => 2 \in 1 .. m)
    BY <2>3
  <2>5. l + 1 \in 1 .. n /\ ~ And(l + 1) /\ (T(l + 1) <=> U(parts[k][1]))
    BY <1>3, <2>1, <2>3, <2>4
  <2>6. m = 2 => l + 2 \in 1 .. n /\ And(l + 2) /\ (T(l + 2) <=> U(parts[k][2]))
    BY <1>3, <2>1, <2>3, <2>4
  <2>7. QED
    BY <2>1, <2>3, <2>5, <2>6 DEF m, l
<1>6. ASSUME NEW p \in 1 .. n
      PROVE  \E k \in 1 .. Len(parts) :
               p = len[k - 1] + 1 \/ (p = len[k - 1] + 2 /\ Len(parts[k]) = 2)
  <2>1. PICK k \in 1 .. Len(parts) : \E j \in 1 .. Len(parts[k]) : p = len[k - 1] + j
    BY <1>1 DEF Places, n
  <2>2. PICK j \in 1 .. Len(parts[k]) : p = len[k - 1] + j
    BY <2>1
  <2>3. j = 1 \/ (j = 2 /\ Len(parts[k]) = 2)
    <3> DEFINE m == Len(parts[k])
    <3>1. m \in {1, 2} /\ j \in 1 .. m
      BY <1>5
    <3> HIDE DEF m
    <3>2. j = 1 \/ (j = 2 /\ m = 2)
      BY <3>1
    <3>3. QED
      BY <3>2 DEF m
  <2>4. QED
    BY <2>2, <2>3
<1> DEFINE Begins(i) == i > 1 => ~ And(i)
           Rest(i) == \A j \in i + 1 .. n : (\A k \in i + 1 .. j : And(k)) => T(j)
           Whole(k) == \A j \in 1 .. Len(parts[k]) : U(parts[k][j])
<1>7. ASSUME NEW i \in 1 .. n, Begins(i), T(i), Rest(i)
      PROVE  \E k \in 1 .. Len(parts) : Whole(k)
  <2>1. PICK k \in 1 .. Len(parts) :
               i = len[k - 1] + 1 \/ (i = len[k - 1] + 2 /\ Len(parts[k]) = 2)
    BY <1>6
  <2> DEFINE l == len[k - 1]
             m == Len(parts[k])
  <2>2. /\ l \in Nat /\ m \in {1, 2} /\ (T(l + 1) <=> U(parts[k][1]))
        /\ m = 2 => l + 2 \in 1 .. n /\ And(l + 2) /\ (T(l + 2) <=> U(parts[k][2]))
    BY <1>5
  <2> HIDE DEF l, m
  <2>3. i = l + 1
    <3>1. CASE i = l + 2 /\ m = 2
      <4>1. And(i) /\ i > 1
        BY <2>2, <3>1
      <4>2. QED
        BY <1>7, <4>1
    <3>2. QED
      BY <2>1, <3>1 DEF l, m
  <2>4. U(parts[k][1])
    BY <1>7, <2>2, <2>3
  <2>5. m = 2 => U(parts[k][2])
    <3>1. SUFFICES ASSUME m = 2 PROVE U(parts[k][2])
      OBVIOUS
    <3>2. l + 2 \in i + 1 .. n /\ \A j \in i + 1 .. l + 2 : j = l + 2
      BY <2>2, <2>3, <3>1
    <3>3. T(l + 2)
      BY <1>7, <2>2, <3>1, <3>2
    <3>4. QED
      BY <2>2, <3>1, <3>3
  <2>6. \A j \in 1 .. m : j = 1 \/ (j = 2 /\ m = 2)
    BY <2>2
  <2>7. Whole(k)
    BY <2>4, <2>5, <2>6 DEF m
  <2>8. QED
    BY <2>7
<1>8. ASSUME NEW k \in 1 .. Len(parts), Whole(k)
      PROVE  \E i \in 1 .. n : Begins(i) /\ T(i) /\ Rest(i)
  <2> DEFINE l == len[k - 1]
             m == Len(parts[k])
             i == l + 1
  <2>1. /\ l \in Nat /\ m \in {1, 2} /\ len[k] = l + m /\ i \in 1 .. n
        /\ ~ And(l + 1) /\ (T(l + 1) <=> U(parts[k][1]))
        /\ m = 2 => l + 2 \in 1 .. n /\ And(l + 2) /\ (T(l + 2) <=> U(parts[k][2]))
    BY <1>5
  <2>2. U(parts[k][1]) /\ (m = 2 => U(parts[k][2]))
    <3>1. 1 \in 1 .. m /\ (m = 2 => 2 \in 1 .. m)
      BY <2>1
    <3>2. QED
      BY <1>8, <3>1
  <2>3. len[k] + 1 \in 1 .. n => ~ And(len[k] + 1)
    <3>1. CASE k = Len(parts)
      <4>1. n = len[Len(parts)]
        BY <1>1 DEF Places, n
      <4>2. QED
        BY <1>4, <3>1, <4>1
    <3>2. CASE k # Len(parts)
      <4>1. k + 1 \in 1 .. Len(parts) /\ (k + 1) - 1 = k
        BY <1>4, <3>2
      <4>2. QED
        BY <1>5, <4>1
    <3>3. QED
      BY <3>1, <3>2
  <2> HIDE DEF l, m
  <2>4. ASSUME NEW j \in i + 1 .. n, \A h \in i + 1 .. j : And(h)
        PROVE  T(j)
    <3>1. CASE m = 1
      <4>1. i + 1 \in i + 1 .. j /\ i + 1 = len[k] + 1 /\ i + 1 \in 1 .. n
        BY <1>4, <2>1, <3>1
      <4>2. QED
        BY <2>3, <2>4, <4>1
    <3>2. CASE m = 2
      <4>1. CASE j = l + 2
        BY <2>1, <2>2, <3>2, <4>1
      <4>2. CASE j # l + 2
        <5>1. l + 3 \in i + 1 .. j /\ l + 3 = len[k] + 1 /\ l + 3 \in 1 .. n
          BY <1>4, <2>1, <3>2, <4>2
        <5>2. QED
          BY <2>3, <2>4, <5>1
      <4>3. QED
        BY <4>1, <4>2
    <3>3. QED
      BY <2>1, <3>1, <3>2
  <2>5. Begins(i) /\ T(i) /\ Rest(i)
    BY <2>1, <2>2, <2>4
  <2>6. QED
    BY <2>1, <2>5
<1>9. Satisfies(operators, x, Holds) <=> \E i \in 1 .. n : Begins(i) /\ T(i) /\ Rest(i)
  BY <1>2, Zenon DEF Satisfies, And, T
<1> HIDE DEF Begins, Rest, Whole
<1>10. Satisfies(operators, x, Holds) <=> \E k \in 1 .. Len(parts) : Whole(k)
  BY <1>7, <1>8, <1>9
<1>11. QED
  BY <1>10 DEF Whole, U

(* The bits of the operators that numeric_pairs gives.                     *)
OnlyBits(code, bits) ==
  /\ HasBit(code, OpEq) <=> OpEq \in bits
  /\ HasBit(code, OpGt) <=> OpGt \in bits
  /\ HasBit(code, OpLt) <=> OpLt \in bits
  /\ HasBit(code, OpAnd) <=> OpAnd \in bits

LEMMA BitsOfOperators ==
  /\ OnlyBits(OpEq, {OpEq}) /\ OnlyBits(OpLt, {OpLt}) /\ OnlyBits(OpGt, {OpGt})
  /\ OnlyBits(OpLt + OpEq, {OpLt, OpEq}) /\ OnlyBits(OpGt + OpEq, {OpGt, OpEq})
  /\ OnlyBits(OpAnd + OpLt + OpEq, {OpAnd, OpLt, OpEq})
BY DEF OnlyBits, HasBit, OpEq, OpGt, OpLt, OpAnd

(* The comparisons that an operator of those bits makes.                   *)
LEMMA OperatorsCompare ==
  ASSUME NEW v \in Seq(Octet), NEW x \in Seq(Octet), NEW code
  PROVE  /\ OnlyBits(code, {OpEq}) => (Holds(Condition(<<code, v>>), x) <=> x = v)
         /\ OnlyBits(code, {OpLt}) => (Holds(Condition(<<code, v>>), x) <=> Less(x, v))
         /\ OnlyBits(code, {OpGt}) => (Holds(Condition(<<code, v>>), x) <=> Less(v, x))
         /\ OnlyBits(code, {OpLt, OpEq}) => (Holds(Condition(<<code, v>>), x) <=> ~ Less(v, x))
         /\ OnlyBits(code, {OpGt, OpEq}) => (Holds(Condition(<<code, v>>), x) <=> ~ Less(x, v))
         /\ OnlyBits(code, {OpAnd, OpLt, OpEq}) => (Holds(Condition(<<code, v>>), x) <=> ~ Less(v, x))
<1>1. /\ Less(x, v) => ~ Less(v, x) /\ x # v
      /\ Less(v, x) => ~ Less(x, v) /\ x # v
      /\ Less(x, v) \/ Less(v, x) \/ x = v
  BY LessOrSame, LessIsStrict
<1>2. /\ OpEq # OpLt /\ OpEq # OpGt /\ OpEq # OpAnd /\ OpLt # OpGt /\ OpLt # OpAnd /\ OpGt # OpAnd
  BY DEF OpEq, OpGt, OpLt, OpAnd
<1>3. Condition(<<code, v>>).op = code /\ Condition(<<code, v>>).value = v
  BY DEF Condition
<1>4. Holds(Condition(<<code, v>>), x) <=>
        \/ HasBit(code, OpLt) /\ Less(x, v)
        \/ HasBit(code, OpGt) /\ Less(v, x)
        \/ HasBit(code, OpEq) /\ x = v
  BY <1>3, Zenon DEF Holds
<1>5. ASSUME x = v PROVE ~ Less(x, v) /\ ~ Less(v, x)
  BY <1>1, <1>5
<1> DEFINE L == Less(x, v)
           G == Less(v, x)
           E == x = v
<1>6. /\ OnlyBits(code, {OpEq}) => (Holds(Condition(<<code, v>>), x) <=> x = v)
      /\ OnlyBits(code, {OpLt}) => (Holds(Condition(<<code, v>>), x) <=> Less(x, v))
      /\ OnlyBits(code, {OpGt}) => (Holds(Condition(<<code, v>>), x) <=> Less(v, x))
  BY <1>2, <1>4, Zenon DEF OnlyBits
<1>7. /\ OnlyBits(code, {OpLt, OpEq}) => (Holds(Condition(<<code, v>>), x) <=> ~ Less(v, x))
      /\ OnlyBits(code, {OpGt, OpEq}) => (Holds(Condition(<<code, v>>), x) <=> ~ Less(x, v))
  BY <1>1, <1>2, <1>4, <1>5, Zenon DEF OnlyBits
<1>8. OnlyBits(code, {OpAnd, OpLt, OpEq}) => (Holds(Condition(<<code, v>>), x) <=> ~ Less(v, x))
  BY <1>1, <1>2, <1>4, <1>5, Zenon DEF OnlyBits
<1>9. QED
  BY <1>6, <1>7, <1>8

Names == {"eq", "lt", "le", "gt", "ge", "range"}

(* An item means what its operators ask for together.                      *)
LEMMA PairsMean ==
  ASSUME NEW name \in Names, NEW item, NumericItem(item), DOMAIN item = {name},
         NEW x, Value(x)
  PROVE  /\ Run(Pairs(name, item[name]))
         /\ Means(item, x) <=>
              \A j \in 1 .. Len(Pairs(name, item[name])) :
                Holds(Condition(Pairs(name, item[name])[j]), x)
<1> DEFINE operand == item[name]
           part == Pairs(name, operand)
<1>1. x \in Seq(Octet)
  BY DEF Value
<1>2. part \in Seq(Operated)
  BY PairsAreOperated
<1>3. IF name = "range" THEN Value(item.range[1]) /\ Value(item.range[2]) ELSE Value(operand)
  BY DEF NumericItem
<1> DEFINE Asked == \A j \in 1 .. Len(part) : Holds(Condition(part[j]), x)
<1>4. ASSUME name # "range", NEW code, part = << <<code, operand>> >>,
             NEW bits, OnlyBits(code, bits), OpAnd \notin bits
      PROVE  Run(part) /\ (Asked <=> Holds(Condition(<<code, operand>>), x))
  <2> DEFINE pair == <<code, operand>>
  <2>1. part = <<pair>>
    BY <1>4
  <2>2. ~ HasBit(pair[1], OpAnd)
    BY <1>4 DEF OnlyBits
  <2> HIDE DEF part, pair
  <2>3. Len(part) = 1 /\ part[1] = pair /\ \A j \in 1 .. Len(part) : j = 1
    BY <2>1
  <2>4. Run(part)
    BY <1>2, <2>2, <2>3 DEF Run
  <2>5. Asked <=> Holds(Condition(pair), x)
    <3>1. 1 \in 1 .. Len(part)
      BY <2>3
    <3>2. QED
      BY <2>3, <3>1, Zenon
  <2>6. QED
    BY <2>4, <2>5 DEF pair, part
<1> HIDE DEF Asked
<1>5. OpAnd \notin {OpEq} /\ OpAnd \notin {OpLt} /\ OpAnd \notin {OpGt}
      /\ OpAnd \notin {OpLt, OpEq} /\ OpAnd \notin {OpGt, OpEq}
  BY DEF OpEq, OpGt, OpLt, OpAnd
<1>6. name # "range" => operand \in Seq(Octet)
  BY <1>3 DEF Value
<1>7. CASE name = "eq"
  <2> DEFINE code == OpEq
             bits == {OpEq}
  <2>1. part = << <<code, operand>> >>
    BY <1>7 DEF Pairs
  <2>2. OnlyBits(code, bits) /\ OpAnd \notin bits
    BY <1>5, BitsOfOperators
  <2>3. Means(item, x) <=> x = item.eq
    BY <1>7 DEF Means
  <2> HIDE DEF part, code
  <2>4. Holds(Condition(<<code, operand>>), x) <=> x = operand
    BY <1>1, <1>6, <1>7, <2>2, OperatorsCompare
  <2> HIDE DEF bits
  <2>5. Run(part) /\ (Asked <=> Holds(Condition(<<code, operand>>), x))
    BY <1>4, <1>7, <2>1, <2>2
  <2>6. Run(part) /\ (Means(item, x) <=> Asked)
    BY <1>7, <2>3, <2>4, <2>5
  <2>7. QED
    BY <2>6 DEF part, Asked
<1>8. CASE name = "lt"
  <2> DEFINE code == OpLt
             bits == {OpLt}
  <2>1. part = << <<code, operand>> >>
    BY <1>8 DEF Pairs
  <2>2. OnlyBits(code, bits) /\ OpAnd \notin bits
    BY <1>5, BitsOfOperators
  <2>3. Means(item, x) <=> Less(x, item.lt)
    BY <1>8 DEF Means
  <2> HIDE DEF part, code
  <2>4. Holds(Condition(<<code, operand>>), x) <=> Less(x, operand)
    BY <1>1, <1>6, <1>8, <2>2, OperatorsCompare
  <2> HIDE DEF bits
  <2>5. Run(part) /\ (Asked <=> Holds(Condition(<<code, operand>>), x))
    BY <1>4, <1>8, <2>1, <2>2
  <2>6. Run(part) /\ (Means(item, x) <=> Asked)
    BY <1>8, <2>3, <2>4, <2>5
  <2>7. QED
    BY <2>6 DEF part, Asked
<1>9. CASE name = "le"
  <2> DEFINE code == OpLt + OpEq
             bits == {OpLt, OpEq}
  <2>1. part = << <<code, operand>> >>
    BY <1>9 DEF Pairs
  <2>2. OnlyBits(code, bits) /\ OpAnd \notin bits
    BY <1>5, BitsOfOperators
  <2>3. Means(item, x) <=> ~ Less(item.le, x)
    BY <1>9 DEF Means
  <2> HIDE DEF part, code
  <2>4. Holds(Condition(<<code, operand>>), x) <=> ~ Less(operand, x)
    BY <1>1, <1>6, <1>9, <2>2, OperatorsCompare
  <2> HIDE DEF bits
  <2>5. Run(part) /\ (Asked <=> Holds(Condition(<<code, operand>>), x))
    BY <1>4, <1>9, <2>1, <2>2
  <2>6. Run(part) /\ (Means(item, x) <=> Asked)
    BY <1>9, <2>3, <2>4, <2>5
  <2>7. QED
    BY <2>6 DEF part, Asked
<1>10. CASE name = "gt"
  <2> DEFINE code == OpGt
             bits == {OpGt}
  <2>1. part = << <<code, operand>> >>
    BY <1>10 DEF Pairs
  <2>2. OnlyBits(code, bits) /\ OpAnd \notin bits
    BY <1>5, BitsOfOperators
  <2>3. Means(item, x) <=> Less(item.gt, x)
    BY <1>10 DEF Means
  <2> HIDE DEF part, code
  <2>4. Holds(Condition(<<code, operand>>), x) <=> Less(operand, x)
    BY <1>1, <1>6, <1>10, <2>2, OperatorsCompare
  <2> HIDE DEF bits
  <2>5. Run(part) /\ (Asked <=> Holds(Condition(<<code, operand>>), x))
    BY <1>4, <1>10, <2>1, <2>2
  <2>6. Run(part) /\ (Means(item, x) <=> Asked)
    BY <1>10, <2>3, <2>4, <2>5
  <2>7. QED
    BY <2>6 DEF part, Asked
<1>11. CASE name = "ge"
  <2> DEFINE code == OpGt + OpEq
             bits == {OpGt, OpEq}
  <2>1. part = << <<code, operand>> >>
    BY <1>11 DEF Pairs
  <2>2. OnlyBits(code, bits) /\ OpAnd \notin bits
    BY <1>5, BitsOfOperators
  <2>3. Means(item, x) <=> ~ Less(x, item.ge)
    BY <1>11 DEF Means
  <2> HIDE DEF part, code
  <2>4. Holds(Condition(<<code, operand>>), x) <=> ~ Less(x, operand)
    BY <1>1, <1>6, <1>11, <2>2, OperatorsCompare
  <2> HIDE DEF bits
  <2>5. Run(part) /\ (Asked <=> Holds(Condition(<<code, operand>>), x))
    BY <1>4, <1>11, <2>1, <2>2
  <2>6. Run(part) /\ (Means(item, x) <=> Asked)
    BY <1>11, <2>3, <2>4, <2>5
  <2>7. QED
    BY <2>6 DEF part, Asked
<1>12. CASE name = "range"
  <2> DEFINE low == operand[1]
             high == operand[2]
             from == <<OpGt + OpEq, low>>
             to == <<OpAnd + OpLt + OpEq, high>>
  <2>1. part = <<from, to>>
    BY <1>12 DEF Pairs
  <2>2. low \in Seq(Octet) /\ high \in Seq(Octet)
    BY <1>3, <1>12 DEF Value
  <2>3. /\ OnlyBits(OpGt + OpEq, {OpGt, OpEq}) /\ OnlyBits(OpAnd + OpLt + OpEq, {OpAnd, OpLt, OpEq})
        /\ OpAnd \notin {OpGt, OpEq} /\ OpAnd \in {OpAnd, OpLt, OpEq}
    BY <1>5, BitsOfOperators
  <2>4. ~ HasBit(from[1], OpAnd) /\ HasBit(to[1], OpAnd)
    BY <2>3 DEF OnlyBits
  <2>5. Means(item, x) <=> ~ Less(x, low) /\ ~ Less(high, x)
    BY <1>12 DEF Means
  <2>6. /\ Holds(Condition(from), x) <=> ~ Less(x, low)
        /\ Holds(Condition(to), x) <=> ~ Less(high, x)
    BY <1>1, <2>2, <2>3, OperatorsCompare
  <2> HIDE DEF part, from, to, low, high
  <2>7. Len(part) = 2 /\ part[1] = from /\ part[2] = to
        /\ 1 \in 1 .. Len(part) /\ 2 \in 1 .. Len(part)
        /\ \A j \in 1 .. Len(part) : j = 1 \/ j = 2
    BY <2>1
  <2>8. Run(part)
    BY <1>2, <2>4, <2>7 DEF Run
  <2>9. Asked <=> Holds(Condition(from), x) /\ Holds(Condition(to), x)
    BY <2>7, Zenon DEF Asked
  <2>10. Run(part) /\ (Means(item, x) <=> Asked)
    BY <2>5, <2>6, <2>8, <2>9
  <2>11. QED
    BY <2>10 DEF part, Asked
<1>13. QED
  BY <1>7, <1>8, <1>9, <1>10, <1>11, <1>12 DEF Names

(* Of several sequences all but one empty, that one is all there is.       *)
LEMMA OnlyOneOfSix ==
  ASSUME NEW S, NEW s \in Seq(Seq(S)), Len(s) = 6, NEW k \in 1 .. 6,
         \A i \in 1 .. 6 : i # k => Len(s[i]) = 0
  PROVE  FlattenSeq(s) = s[k]
<1> DEFINE flat == FlattenSeq(s)
           part == s[k]
<1>1. s # << >> /\ Len(s) = 6
  OBVIOUS
<1>2. PICK len : Places(len, s, 6, flat)
  BY <1>1, FlatPlaces
<1>3. flat \in Seq(S) /\ part \in Seq(S)
  <2>1. flat \in Seq(S)
    BY SequencesFlatten, Zenon
  <2>2. k \in 1 .. Len(s)
    BY <1>1
  <2>3. part \in Seq(S)
    BY <2>2
  <2>4. QED
    BY <2>1, <2>3
<1>4. /\ len[0] = 0 /\ Len(flat) = len[6]
      /\ \A i \in 1 .. 6 : len[i - 1] \in Nat /\ len[i] = len[i - 1] + Len(s[i])
      /\ \A i \in 1 .. 6 : \A j \in 1 .. Len(s[i]) : flat[len[i - 1] + j] = s[i][j]
  BY <1>2 DEF Places
<1> HIDE DEF flat, part
<1>5. /\ len[1] = len[0] + Len(s[1]) /\ len[2] = len[1] + Len(s[2])
      /\ len[3] = len[2] + Len(s[3]) /\ len[4] = len[3] + Len(s[4])
      /\ len[5] = len[4] + Len(s[5]) /\ len[6] = len[5] + Len(s[6])
      /\ len[0] = 0
  <2>1. /\ 1 \in 1 .. 6 /\ 2 \in 1 .. 6 /\ 3 \in 1 .. 6 /\ 4 \in 1 .. 6 /\ 5 \in 1 .. 6 /\ 6 \in 1 .. 6
        /\ 1 - 1 = 0 /\ 2 - 1 = 1 /\ 3 - 1 = 2 /\ 4 - 1 = 3 /\ 5 - 1 = 4 /\ 6 - 1 = 5
    OBVIOUS
  <2>2. QED
    BY <1>4, <2>1, Zenon
<1>6. Len(part) \in Nat
  BY <1>3
<1>7. len[k - 1] = 0 /\ len[6] = Len(part)
  <2>1. \A i \in 1 .. 6 : i # k => Len(s[i]) = 0
    OBVIOUS
  <2>2. Len(s[k]) = Len(part)
    BY DEF part
  <2>3. k = 1 \/ k = 2 \/ k = 3 \/ k = 4 \/ k = 5 \/ k = 6
    OBVIOUS
  <2>4. QED
    BY <1>5, <1>6, <2>1, <2>2, <2>3
<1>8. \A j \in 1 .. Len(part) : flat[j] = part[j]
  <2>1. \A j \in 1 .. Len(part) : flat[len[k - 1] + j] = part[j]
    BY <1>4 DEF part
  <2>2. \A j \in 1 .. Len(part) : 0 + j = j
    OBVIOUS
  <2>3. QED
    BY <1>7, <2>1, <2>2
<1>9. flat = part
  <2>1. Len(flat) = Len(part)
    BY <1>4, <1>7
  <2>2. DOMAIN flat = 1 .. Len(flat) /\ DOMAIN part = 1 .. Len(part)
    BY <1>3
  <2>3. flat = [j \in DOMAIN flat |-> flat[j]] /\ part = [j \in DOMAIN part |-> part[j]]
    BY <1>3
  <2>4. \A j \in DOMAIN part : flat[j] = part[j]
    BY <1>8, <2>2
  <2>5. DOMAIN flat = DOMAIN part
    BY <2>1, <2>2
  <2>6. QED
    BY <2>3, <2>4, <2>5, Zenon
<1>10. QED
  BY <1>9 DEF flat, part

(* What numeric_pairs makes of an item that has one operator.              *)
LEMMA OneOperatorOnly ==
  ASSUME NEW item, NumericItem(item), OneOperator(item)
  PROVE  \E name \in Names : DOMAIN item = {name} /\ NumericPairs(item) = Pairs(name, item[name])
<1> DEFINE s == [i \in DOMAIN Comparisons |->
                   IF Comparisons[i] \in DOMAIN item
                   THEN Pairs(Comparisons[i], item[Comparisons[i]]) ELSE << >>]
           C(i) == Comparisons[i]
<1>1. /\ DOMAIN Comparisons = 1 .. 6
      /\ C(1) = "eq" /\ C(2) = "lt" /\ C(3) = "le" /\ C(4) = "gt" /\ C(5) = "ge" /\ C(6) = "range"
  BY DEF Comparisons
<1>2. DOMAIN item \subseteq {C(1), C(2), C(3), C(4), C(5), C(6)}
  <2>1. DOMAIN item \subseteq Range(Comparisons)
    BY DEF NumericItem
  <2>2. Range(Comparisons) \subseteq {C(1), C(2), C(3), C(4), C(5), C(6)}
    BY <1>1 DEF Range
  <2>3. QED
    BY <2>1, <2>2
<1> HIDE DEF C
<1>3. ASSUME NEW i \in 1 .. 6
      PROVE  /\ s[i] \in Seq(Operated)
             /\ C(i) \notin DOMAIN item => s[i] = << >> /\ Len(s[i]) = 0
             /\ C(i) \in DOMAIN item => /\ s[i] = Pairs(C(i), item[C(i)])
                                        /\ Len(s[i]) = IF C(i) = "range" THEN 2 ELSE 1
  <2>1. CASE C(i) \in DOMAIN item
    <3>1. s[i] = Pairs(C(i), item[C(i)])
      BY <1>1, <2>1 DEF C
    <3>2. Pairs(C(i), item[C(i)]) \in Seq(Operated)
      BY <2>1, PairsAreOperated
    <3>3. Len(Pairs(C(i), item[C(i)])) = IF C(i) = "range" THEN 2 ELSE 1
      BY DEF Pairs
    <3> HIDE DEF s
    <3>4. QED
      BY <2>1, <3>1, <3>2, <3>3
  <2>2. CASE C(i) \notin DOMAIN item
    <3>1. s[i] = << >>
      BY <1>1, <2>2 DEF C
    <3> HIDE DEF s
    <3>2. QED
      BY <2>2, <3>1
  <2>3. QED
    BY <2>1, <2>2
<1>4. s \in Seq(Seq(Operated)) /\ Len(s) = 6
  <2> DEFINE size == 6
  <2>1. size \in Nat
    OBVIOUS
  <2>2. s \in [1 .. size -> Seq(Operated)]
    <3>1. DOMAIN s = 1 .. size
      BY <1>1
    <3>2. s = [i \in 1 .. size |-> s[i]]
      BY <1>1
    <3> HIDE DEF s
    <3>3. \A i \in 1 .. size : s[i] \in Seq(Operated)
      BY <1>3
    <3> HIDE DEF size
    <3>4. QED
      BY <3>2, <3>3
  <2> HIDE DEF size, s
  <2>3. s \in Seq(Seq(Operated)) /\ Len(s) = size
    BY <2>1, <2>2, FunctionIsSequence
  <2>4. QED
    BY <2>3 DEF size
<1>5. NumericPairs(item) = FlattenSeq(s)
  BY DEF NumericPairs
<1> HIDE DEF s
<1>6. Len(FlattenSeq(s)) = Len(s[1]) + Len(s[2]) + Len(s[3]) + Len(s[4]) + Len(s[5]) + Len(s[6])
  <2> DEFINE flat == FlattenSeq(s)
  <2>1. s # << >>
    BY <1>4
  <2>2. PICK len : Places(len, s, 6, flat)
    BY <1>4, <2>1, FlatPlaces
  <2>3. /\ len[0] = 0 /\ Len(flat) = len[6]
        /\ \A i \in 1 .. 6 : len[i - 1] \in Nat /\ len[i] = len[i - 1] + Len(s[i])
    BY <2>2 DEF Places
  <2> HIDE DEF flat
  <2>4. /\ len[1] = len[0] + Len(s[1]) /\ len[2] = len[1] + Len(s[2])
        /\ len[3] = len[2] + Len(s[3]) /\ len[4] = len[3] + Len(s[4])
        /\ len[5] = len[4] + Len(s[5]) /\ len[6] = len[5] + Len(s[6])
    <3>1. /\ 1 \in 1 .. 6 /\ 2 \in 1 .. 6 /\ 3 \in 1 .. 6 /\ 4 \in 1 .. 6 /\ 5 \in 1 .. 6 /\ 6 \in 1 .. 6
          /\ 1 - 1 = 0 /\ 2 - 1 = 1 /\ 3 - 1 = 2 /\ 4 - 1 = 3 /\ 5 - 1 = 4 /\ 6 - 1 = 5
      OBVIOUS
    <3>2. QED
      BY <2>3, <3>1, Zenon
  <2>5. Len(s[1]) \in Nat
    <3>1. 1 \in 1 .. 6
      OBVIOUS
    <3>2. s[1] \in Seq(Operated)
      BY <1>3, <3>1
    <3>3. QED
      BY <3>2
  <2>6. len[1] = Len(s[1])
    BY <2>3, <2>4, <2>5
  <2>7. Len(flat) = Len(s[1]) + Len(s[2]) + Len(s[3]) + Len(s[4]) + Len(s[5]) + Len(s[6])
    BY <2>3, <2>4, <2>6
  <2>8. QED
    BY <2>7 DEF flat
<1> DEFINE d(i) == Len(s[i])
<1>7. /\ \A i \in 1 .. 5 : d(i) = IF C(i) \in DOMAIN item THEN 1 ELSE 0
      /\ d(6) = IF C(6) \in DOMAIN item THEN 2 ELSE 0
  <2>1. \A i \in 1 .. 5 : i \in 1 .. 6 /\ C(i) # "range"
    <3>1. \A i \in 1 .. 5 : i = 1 \/ i = 2 \/ i = 3 \/ i = 4 \/ i = 5
      OBVIOUS
    <3>2. \A i \in 1 .. 5 : C(i) # "range"
      BY <1>1, <3>1
    <3>3. QED
      BY <3>2
  <2>2. 6 \in 1 .. 6 /\ C(6) = "range"
    BY <1>1
  <2>3. \A i \in 1 .. 5 : d(i) = IF C(i) \in DOMAIN item THEN 1 ELSE 0
    BY <1>3, <2>1
  <2>4. d(6) = IF C(6) \in DOMAIN item THEN 2 ELSE 0
    BY <1>3, <2>2
  <2>5. QED
    BY <2>3, <2>4
<1>8. d(1) + d(2) + d(3) + d(4) + d(5) + d(6) = IF C(6) \in DOMAIN item THEN 2 ELSE 1
  BY <1>1, <1>5, <1>6 DEF OneOperator
<1> HIDE DEF d
<1>9. PICK k \in 1 .. 6 : C(k) \in DOMAIN item /\ \A i \in 1 .. 6 : i # k => C(i) \notin DOMAIN item
  <2>1. /\ d(1) = (IF C(1) \in DOMAIN item THEN 1 ELSE 0)
        /\ d(2) = (IF C(2) \in DOMAIN item THEN 1 ELSE 0)
        /\ d(3) = (IF C(3) \in DOMAIN item THEN 1 ELSE 0)
        /\ d(4) = (IF C(4) \in DOMAIN item THEN 1 ELSE 0)
        /\ d(5) = (IF C(5) \in DOMAIN item THEN 1 ELSE 0)
        /\ d(6) = (IF C(6) \in DOMAIN item THEN 2 ELSE 0)
    BY <1>7
  <2>2. \A i \in 1 .. 6 : i = 1 \/ i = 2 \/ i = 3 \/ i = 4 \/ i = 5 \/ i = 6
    OBVIOUS
  <2>3. QED
    BY <1>8, <2>1, <2>2
<1>10. DOMAIN item = {C(k)}
  <2>1. /\ 1 \in 1 .. 6 /\ 2 \in 1 .. 6 /\ 3 \in 1 .. 6 /\ 4 \in 1 .. 6 /\ 5 \in 1 .. 6 /\ 6 \in 1 .. 6
    OBVIOUS
  <2>2. QED
    BY <1>2, <1>9, <2>1, Zenon
<1>11. FlattenSeq(s) = s[k]
  BY <1>3, <1>4, <1>9, OnlyOneOfSix
<1>12. s[k] = Pairs(C(k), item[C(k)])
  BY <1>3, <1>9
<1>13. C(k) \in Names
  <2>1. k = 1 \/ k = 2 \/ k = 3 \/ k = 4 \/ k = 5 \/ k = 6
    OBVIOUS
  <2>2. QED
    BY <1>1, <2>1 DEF Names
<1>14. QED
  BY <1>5, <1>10, <1>11, <1>12, <1>13

(* A list of numeric items means that one of them does.                    *)
LEMMA NumericListMeans ==
  ASSUME NEW items, items \in Seq(Range(items)), items # << >>,
         \A item \in Range(items) : NumericItem(item),
         \A i \in DOMAIN items : OneOperator(items[i]),
         NEW operators, ReadAs(operators, NumericList(items)), NEW x, Value(x)
  PROVE  Satisfies(operators, x, Holds) <=> \E item \in Range(items) : Means(item, x)
<1> DEFINE count == Len(items)
           parts == [i \in DOMAIN items |-> NumericPairs(items[i])]
<1>1. count \in Nat /\ count >= 1 /\ DOMAIN items = 1 .. count
  OBVIOUS
<1>2. \A i \in 1 .. count : parts[i] = NumericPairs(items[i])
  BY <1>1
<1>3. parts = [i \in 1 .. count |-> NumericPairs(items[i])]
  BY <1>1
<1> HIDE DEF count, parts
<1>4. ASSUME NEW i \in 1 .. count
      PROVE  /\ Run(NumericPairs(items[i]))
             /\ Means(items[i], x) <=>
                  \A j \in 1 .. Len(NumericPairs(items[i])) :
                    Holds(Condition(NumericPairs(items[i])[j]), x)
  <2> DEFINE item == items[i]
  <2>1. NumericItem(item) /\ OneOperator(item)
    BY <1>1 DEF Range
  <2> HIDE DEF item
  <2>2. PICK name \in Names : DOMAIN item = {name} /\ NumericPairs(item) = Pairs(name, item[name])
    BY <2>1, OneOperatorOnly
  <2>3. /\ Run(Pairs(name, item[name]))
        /\ Means(item, x) <=>
             \A j \in 1 .. Len(Pairs(name, item[name])) :
               Holds(Condition(Pairs(name, item[name])[j]), x)
    BY <2>1, <2>2, PairsMean
  <2>4. /\ Run(NumericPairs(item))
        /\ Means(item, x) <=>
             \A j \in 1 .. Len(NumericPairs(item)) : Holds(Condition(NumericPairs(item)[j]), x)
    BY <2>2, <2>3, Zenon
  <2>5. QED
    BY <2>4 DEF item
<1>5. parts \in Seq(Seq(Operated)) /\ Len(parts) = count /\ parts # << >>
  <2>1. \A i \in 1 .. count : NumericPairs(items[i]) \in Seq(Operated)
    BY <1>4 DEF Run
  <2>2. parts \in [1 .. count -> Seq(Operated)]
    BY <1>3, <2>1
  <2>3. parts \in Seq(Seq(Operated)) /\ Len(parts) = count
    BY <1>1, <2>2, FunctionIsSequence
  <2>4. parts # << >>
    BY <1>1, <2>3
  <2>5. QED
    BY <2>3, <2>4
<1>6. \A k \in 1 .. Len(parts) : Run(parts[k])
  BY <1>2, <1>4, <1>5
<1>7. ReadAs(operators, FlattenSeq(parts))
  BY DEF NumericList, parts
<1>8. Satisfies(operators, x, Holds) <=>
        \E k \in 1 .. Len(parts) :
          \A j \in 1 .. Len(parts[k]) : Holds(Condition(parts[k][j]), x)
  BY <1>5, <1>6, <1>7, OneRunIsEnough
<1>9. \A k \in 1 .. count :
        Means(items[k], x) <=> \A j \in 1 .. Len(parts[k]) : Holds(Condition(parts[k][j]), x)
  BY <1>2, <1>4, Zenon
<1>10. (\E item \in Range(items) : Means(item, x)) <=> \E k \in 1 .. count : Means(items[k], x)
  BY <1>1, Zenon DEF Range
<1>11. QED
  BY <1>5, <1>8, <1>9, <1>10, Zenon

(* The bits of a value of one octet, and of named flags.                   *)
LEMMA BitsOfOctet ==
  ASSUME NEW n
  PROVE  Bits(<<n>>) = {b \in 0 .. 7 : HasBit(n, 2 ^ b)}
<1> DEFINE v == <<n>>
           C == {c \in (DOMAIN v) \X (0 .. 7) : HasBit(v[c[1]], 2 ^ c[2])}
<1>1. DOMAIN v = {1} /\ Len(v) = 1 /\ v[1] = n
  OBVIOUS
<1>2. Bits(v) = {8 * (Len(v) - c[1]) + c[2] : c \in C}
  BY Zenon DEF Bits
<1> HIDE DEF v
<1>3. \A c \in C : c[1] = 1 /\ c[2] \in 0 .. 7 /\ HasBit(n, 2 ^ c[2]) /\ 8 * (Len(v) - c[1]) + c[2] = c[2]
  <2>1. \A c \in C : c[1] \in {1} /\ c[2] \in 0 .. 7 /\ HasBit(v[c[1]], 2 ^ c[2])
    BY <1>1, Zenon
  <2>2. \A c \in C : HasBit(n, 2 ^ c[2])
    BY <1>1, <2>1, Zenon
  <2>3. \A b \in 0 .. 7 : 8 * (1 - 1) + b = b
    OBVIOUS
  <2> HIDE DEF C
  <2>4. QED
    BY <1>1, <2>1, <2>2, <2>3, Zenon
<1>4. ASSUME NEW b \in 0 .. 7, HasBit(n, 2 ^ b) PROVE b \in Bits(v)
  <2> DEFINE c == <<1, b>>
  <2>1. c[1] = 1 /\ c[2] = b /\ c \in (DOMAIN v) \X (0 .. 7)
    BY <1>1
  <2> HIDE DEF c
  <2>2. c \in C
    BY <1>1, <1>4, <2>1, Zenon
  <2> HIDE DEF C
  <2>3. 8 * (Len(v) - c[1]) + c[2] = b
    BY <1>3, <2>1, <2>2
  <2>4. QED
    BY <1>2, <2>2, <2>3, Zenon
<1>5. ASSUME NEW b \in Bits(v) PROVE b \in 0 .. 7 /\ HasBit(n, 2 ^ b)
  <2> HIDE DEF C
  <2>1. PICK c \in C : b = 8 * (Len(v) - c[1]) + c[2]
    BY <1>2, Zenon
  <2>2. QED
    BY <1>3, <2>1, Zenon
<1>6. Bits(v) = {b \in 0 .. 7 : HasBit(n, 2 ^ b)}
  BY <1>4, <1>5, Zenon
<1>7. QED
  BY <1>6 DEF v

LEMMA NamedBitsAreSet ==
  ASSUME NEW t, NEW names
  PROVE  Bits(<<NamedValue(t, names)>>) = NamedBits(t, names)
<1> DEFINE n == NamedValue(t, names)
           bits == NamedBits(t, names)
<1>1. \A b \in 0 .. 7 : HasBit(n, 2 ^ b) <=> b \in bits
  BY NamedValueBits
<1>2. bits \subseteq 0 .. 7
  <2>1. DOMAIN FlagNames(t) \subseteq 1 .. 8
    BY DEF FlagNames
  <2>2. \A j \in 1 .. 8 : j - 1 \in 0 .. 7
    OBVIOUS
  <2>3. QED
    BY <2>1, <2>2 DEF NamedBits
<1>3. Bits(<<n>>) = {b \in 0 .. 7 : HasBit(n, 2 ^ b)}
  BY BitsOfOctet
<1> HIDE DEF n, bits
<1>4. Bits(<<n>>) = bits
  BY <1>1, <1>2, <1>3, Zenon
<1>5. QED
  BY <1>4 DEF n, bits

(* What a bitmask item asks of a field is what its operator does.          *)
LEMMA FlagPairMeans ==
  ASSUME NEW t, NEW item, BitmaskItem(item), NEW x
  PROVE  /\ ~ HasBit(FlagPair(t, item)[1], OpAnd)
         /\ BitsHold(Condition(FlagPair(t, item)), x) <=> BitsMean(t, item, x)
<1> DEFINE pair == FlagPair(t, item)
           code == (IF item.match THEN 1 ELSE 0) + (IF item.negate THEN 2 ELSE 0)
           wanted == IF "names" \in DOMAIN item THEN NamedBits(t, item.names) ELSE Bits(item.flags)
           given == ResolveFlags(t, item)
<1>1. item.match \in BOOLEAN /\ item.negate \in BOOLEAN
  BY DEF BitmaskItem
<1>2. pair[1] = code /\ pair[2] = given
  BY DEF FlagPair
<1>3. /\ ~ HasBit(code, OpAnd)
      /\ HasBit(code, 1) <=> item.match
      /\ HasBit(code, 2) <=> item.negate
  BY <1>1 DEF HasBit, OpAnd
<1>4. Bits(given) = wanted
  <2>1. CASE "names" \in DOMAIN item
    <3>1. given = <<NamedValue(t, item.names)>> /\ wanted = NamedBits(t, item.names)
      BY <2>1 DEF ResolveFlags
    <3>2. QED
      BY <3>1, NamedBitsAreSet
  <2>2. CASE "names" \notin DOMAIN item
    BY <2>2 DEF ResolveFlags
  <2>3. QED
    BY <2>1, <2>2
<1> HIDE DEF pair, code, wanted, given
<1> DEFINE condition == Condition(pair)
           meets == IF item.match THEN wanted \cap Bits(x) = wanted ELSE wanted \cap Bits(x) # {}
<1>5. condition.op = code /\ condition.value = given
  BY <1>2 DEF Condition
<1> HIDE DEF condition
<1>6. BitsHold(condition, x) <=> IF item.negate THEN ~ meets ELSE meets
  BY <1>3, <1>4, <1>5, Zenon DEF BitsHold
<1>7. wanted \subseteq Bits(x) <=> wanted \cap Bits(x) = wanted
  OBVIOUS
<1> DEFINE good == IF item.match THEN wanted \subseteq Bits(x) ELSE wanted \cap Bits(x) # {}
<1>8. good <=> meets
  BY <1>7
<1>9. good \in BOOLEAN
  OBVIOUS
<1>10. BitsMean(t, item, x) <=> good # item.negate
  BY Zenon DEF BitsMean, wanted
<1> HIDE DEF good, meets
<1>11. (good # item.negate) <=> IF item.negate THEN ~ good ELSE good
  <2>1. CASE item.negate = TRUE
    BY <1>9, <2>1
  <2>2. CASE item.negate = FALSE
    BY <1>9, <2>2
  <2>3. QED
    BY <1>1, <2>1, <2>2
<1>12. BitsHold(condition, x) <=> BitsMean(t, item, x)
  BY <1>6, <1>8, <1>10, <1>11, Zenon
<1>13. QED
  BY <1>2, <1>3, <1>12 DEF condition, pair

(* A list of bitmask items means that one of them does.                    *)
LEMMA BitmaskListMeans ==
  ASSUME NEW t, NEW items, items \in Seq(Range(items)), items # << >>,
         \A item \in Range(items) : BitmaskItem(item),
         NEW operators, ReadAs(operators, BitmaskList(t, items)), NEW x
  PROVE  Satisfies(operators, x, BitsHold) <=> \E item \in Range(items) : BitsMean(t, item, x)
<1> DEFINE count == Len(items)
           pairs == BitmaskList(t, items)
<1>1. count \in Nat /\ DOMAIN items = 1 .. count
  OBVIOUS
<1>2. Len(pairs) = count /\ \A i \in 1 .. count : pairs[i] = FlagPair(t, items[i])
  BY BitmaskListShape
<1>3. \A i \in 1 .. count : BitmaskItem(items[i])
  BY <1>1 DEF Range
<1> HIDE DEF count, pairs
<1>4. \A i \in 1 .. count : /\ ~ HasBit(pairs[i][1], OpAnd)
                            /\ BitsHold(Condition(pairs[i]), x) <=> BitsMean(t, items[i], x)
  <2>1. \A i \in 1 .. count : /\ ~ HasBit(FlagPair(t, items[i])[1], OpAnd)
                              /\ BitsHold(Condition(FlagPair(t, items[i])), x) <=> BitsMean(t, items[i], x)
    BY <1>3, FlagPairMeans
  <2>2. QED
    BY <1>2, <2>1, Zenon
<1>5. ReadAs(operators, pairs) /\ Len(pairs) \in Nat
  BY <1>1, <1>2 DEF pairs
<1>6. Satisfies(operators, x, BitsHold) <=>
        \E i \in 1 .. count : BitsHold(Condition(pairs[i]), x)
  <2>1. \A i \in 1 .. Len(pairs) : ~ HasBit(pairs[i][1], OpAnd)
    BY <1>2, <1>4
  <2>2. Satisfies(operators, x, BitsHold) <=>
          \E i \in 1 .. Len(pairs) : BitsHold(Condition(pairs[i]), x)
    BY <1>5, <2>1, EachOnItsOwn
  <2>3. QED
    BY <1>2, <2>2, Zenon
<1>7. (\E item \in Range(items) : BitsMean(t, item, x))
        <=> \E i \in 1 .. count : BitsMean(t, items[i], x)
  BY <1>1, Zenon DEF Range
<1>8. QED
  BY <1>4, <1>6, <1>7, Zenon
-----------------------------------------------------------------------------
(* The octets of a component begin with its type.                          *)
LEMMA WrittenType ==
  ASSUME NEW r \in Rules, NEW t \in DOMAIN r.parts, Encodable(r, t)
  PROVE  Len(Written(r, t)) \in Nat \ {0} /\ Written(r, t)[1] = t
<1>1. /\ DOMAIN r.parts \subseteq Types
      /\ t \in PrefixTypes => r.parts[t] \in ParsedPrefixes
      /\ t \notin PrefixTypes =>
           /\ r.parts[t] \in Seq(Range(r.parts[t])) /\ r.parts[t] # << >>
           /\ \A item \in Range(r.parts[t]) :
                IF t \in BitmaskTypes THEN BitmaskItem(item) ELSE NumericItem(item)
  BY RuleShape
<1> DEFINE part == r.parts[t]
<1>2. \E plan, n : Component(plan, Written(r, t), n, V6(r), t)
  <2>1. CASE t \in PrefixTypes
    <3>1. part.v6 = V6(r)
      <4>1. t \notin BitmaskTypes
        BY <2>1 DEF PrefixTypes, BitmaskTypes
      <4>2. QED
        BY <2>1, <4>1 DEF Encodable
    <3>2. part \in ParsedPrefixes
      BY <1>1, <2>1
    <3>3. Written(r, t) = PrefixComponent(t, part)
      BY <2>1 DEF Written
    <3> HIDE DEF part
    <3>4. \E plan, n : Component(plan, PrefixComponent(t, part), n, V6(r), t)
      BY <2>1, <3>1, <3>2, PrefixLaidOut
    <3>5. QED
      BY <3>3, <3>4
  <2>2. CASE t \in BitmaskTypes
    <3>1. t \notin PrefixTypes
      BY <2>2 DEF PrefixTypes, BitmaskTypes
    <3>2. /\ part \in Seq(Range(part)) /\ part # << >>
          /\ \A item \in Range(part) : BitmaskItem(item)
      BY <1>1, <2>2, <3>1
    <3>3. Written(r, t) = BitmaskComponent(t, part)
      BY <2>2, <3>1 DEF Written
    <3> HIDE DEF part
    <3>4. \E plan, n : Component(plan, BitmaskComponent(t, part), n, V6(r), t)
      BY <2>2, <3>2, BitmaskLaidOut
    <3>5. QED
      BY <3>3, <3>4
  <2>3. CASE t \notin PrefixTypes /\ t \notin BitmaskTypes
    <3>1. /\ part \in Seq(Range(part)) /\ part # << >>
          /\ \A item \in Range(part) : NumericItem(item)
      BY <1>1, <2>3
    <3>2. /\ \A i \in DOMAIN part : OneOperator(part[i])
          /\ t = FlowLabel => V6(r)
      BY <2>3 DEF Encodable
    <3>3. Written(r, t) = NumericComponent(t, part)
      BY <2>3 DEF Written
    <3>4. t \in Types \ PrefixTypes
      BY <1>1, <2>3
    <3> HIDE DEF part
    <3>5. \E plan, n : Component(plan, NumericComponent(t, part), n, V6(r), t)
      BY <3>1, <3>2, <3>4, NumericLaidOut
    <3>6. QED
      BY <3>3, <3>5
  <2>4. QED
    BY <2>1, <2>2, <2>3
<1>3. QED
  BY <1>2 DEF Component

(* Where the reader has found a type, what the encoder wrote for it stands.*)
LEMMA FoundIsWritten ==
  ASSUME IInv, Framed, pos <= Boundary, NEW t \in DOMAIN found
  PROVE  /\ t \in DOMAIN rule.parts /\ Encodable(rule, t)
         /\ found[t] \in Nat /\ Len(Written(rule, t)) \in Nat
         /\ found[t] - 1 + Len(Written(rule, t)) <= Len(comps)
         /\ \A i \in 1 .. Len(Written(rule, t)) : comps[found[t] - 1 + i] = Written(rule, t)[i]
<1> DEFINE n == Boundary
           six == V6(rule)
           w == Written(rule, t)
           p == found[t] - 1
<1>1. PICK plan : Laid(plan) /\ Follows(plan)
  BY WhileReading
<1>2. /\ Plan(plan, comps, n, six) /\ n \in Nat /\ pos \in 0 .. n /\ n <= Len(comps)
      /\ DOMAIN found = TypesBefore(plan, comps, pos) /\ Located(plan)
      /\ Len(comps) \in Nat
  BY <1>1, InFront
<1>3. /\ TypesBefore(plan, comps, n) = Passed
      /\ \A u \in Passed : Encodable(rule, u) /\ Carries(plan, comps, n, Written(rule, u))
  BY <1>1 DEF Laid, Keeps
<1>4. found[t] \in 1 .. pos /\ plan[p] = "type" /\ comps[found[t]] = t
  BY <1>2 DEF Located
<1> HIDE DEF n, six
<1>5. p \in 0 .. n - 1 /\ p + 1 = found[t]
  BY <1>2, <1>4
<1> HIDE DEF p
<1>6. comps[p + 1] = t
  BY <1>4, <1>5
<1>7. t \in Passed
  BY <1>3, <1>4, <1>5, <1>6 DEF TypesBefore
<1>8. t \in DOMAIN rule.parts /\ Encodable(rule, t) /\ Carries(plan, comps, n, w)
  BY <1>3, <1>7 DEF Passed
<1>9. w[1] = t /\ Len(w) \in Nat \ {0}
  BY <1>8, WrittenType DEF IInv, States
<1> HIDE DEF w
<1>10. Len(w) \in Nat
  BY <1>8 DEF Carries
<1>11. PICK q \in 0 .. n :
         plan[q] = "type" /\ q + Len(w) <= n /\ \A i \in 1 .. Len(w) : comps[q + i] = w[i]
  BY <1>8 DEF Carries
<1>12. q \in 0 .. n - 1 /\ comps[q + 1] = t
  <2>1. 1 \in 1 .. Len(w)
    BY <1>9, <1>10
  <2>2. QED
    BY <1>2, <1>9, <1>10, <1>11, <2>1
<1>13. q = p
  <2>1. t \in Nat
    BY <1>2, <1>4, <1>5, <1>6, TypeAhead DEF Types
  <2>2. \A a \in 0 .. n - 1, b \in 0 .. n - 1 :
          a < b /\ plan[a] = "type" /\ comps[a + 1] = t /\ plan[b] = "type" => comps[b + 1] # t
    <3>1. SUFFICES ASSUME NEW a \in 0 .. n - 1, NEW b \in 0 .. n - 1, a < b,
                          plan[a] = "type", comps[a + 1] = t, plan[b] = "type"
                   PROVE  comps[b + 1] # t
      OBVIOUS
    <3>2. \A u \in TypesBefore(plan, comps, b) : u < comps[b + 1]
      BY <1>2, <3>1, TypeAhead
    <3>3. a \in 0 .. b - 1
      BY <3>1
    <3>4. t \in TypesBefore(plan, comps, b)
      BY <3>1, <3>3 DEF TypesBefore
    <3>5. QED
      BY <2>1, <3>2, <3>4
  <2>3. ~ (p < q) /\ ~ (q < p)
    BY <1>4, <1>5, <1>6, <1>11, <1>12, <2>2
  <2>4. QED
    BY <1>5, <1>12, <2>3, <1>2
<1>14. found[t] \in Nat /\ p = found[t] - 1
  BY <1>4 DEF p
<1>15. QED
  BY <1>2, <1>8, <1>10, <1>11, <1>13, <1>14 DEF w

(* What stands behind a type are the operations of its list.               *)
LEMMA ListStands ==
  ASSUME NEW o \in Seq(Octet), NEW from \in Nat, NEW t, NEW ops, Operations(ops),
         NEW w, w = <<t>> \o FlattenSeq(ops),
         from - 1 + Len(w) <= Len(o), \A i \in 1 .. Len(w) : o[from - 1 + i] = w[i]
  PROVE  StandsAt(o, from, ops)
<1> DEFINE flat == FlattenSeq(ops)
<1>1. flat \in Seq(Octet)
  BY SequencesFlatten DEF Operations
<1> HIDE DEF flat
<1>2. w = <<t>> \o flat
  BY DEF flat
<1> DEFINE len == Len(flat)
<1>3. len \in Nat /\ Len(o) \in Nat
  BY <1>1
<1>4. Len(w) = 1 + len /\ \A j \in 1 .. len : w[1 + j] = flat[j]
  BY <1>1, <1>2
<1> HIDE DEF len
<1>5. from + len <= Len(o)
  BY <1>3, <1>4
<1>6. \A j \in 1 .. len : o[from + j] = flat[j]
  <2>1. \A j \in 1 .. len : 1 + j \in 1 .. Len(w) /\ from - 1 + (1 + j) = from + j
    BY <1>3, <1>4
  <2>2. \A j \in 1 .. len : o[from - 1 + (1 + j)] = w[1 + j]
    BY <2>1
  <2>3. QED
    BY <1>4, <2>1, <2>2
<1>7. QED
  BY <1>5, <1>6 DEF StandsAt, flat, len

LEMMA FoundListMeans ==
  ASSUME IInv, Framed, rule.raw = << >>, NEW t \in DOMAIN found \ PrefixTypes, NEW x, Value(x)
  PROVE  IF t \in BitmaskTypes
         THEN Satisfies(OperatorsFrom(Data, found[t]), x, BitsHold)
                <=> \E item \in Range(rule.parts[t]) : BitsMean(t, item, x)
         ELSE Satisfies(OperatorsFrom(Data, found[t]), x, Holds)
                <=> \E item \in Range(rule.parts[t]) : Means(item, x)
<1> DEFINE items == rule.parts[t]
           operators == OperatorsFrom(Data, found[t])
           w == Written(rule, t)
<1>1. /\ Data = comps /\ comps \in Seq(Octet) /\ Len(comps) \in Nat /\ pos \in 0 .. Len(comps)
      /\ Boundary \in 0 .. Len(comps) /\ Len(comps) = Boundary + Len(rule.raw) /\ rule \in Rules
  BY WhileReading DEF States
<1>2. pos <= Boundary
  <2>1. Len(rule.raw) = 0
    OBVIOUS
  <2>2. QED
    BY <1>1, <2>1
<1>3. /\ t \in DOMAIN rule.parts /\ Encodable(rule, t)
      /\ found[t] \in Nat /\ Len(w) \in Nat
      /\ found[t] - 1 + Len(w) <= Len(comps)
      /\ \A i \in 1 .. Len(w) : comps[found[t] - 1 + i] = w[i]
  BY <1>2, FoundIsWritten
<1>4. /\ items \in Seq(Range(items)) /\ items # << >>
      /\ \A item \in Range(items) :
           IF t \in BitmaskTypes THEN BitmaskItem(item) ELSE NumericItem(item)
  BY <1>1, <1>3, RuleShape
<1>5. operators = OperatorsFrom(comps, found[t])
  BY <1>1
<1> HIDE DEF operators
<1>6. CASE t \in BitmaskTypes
  <2> DEFINE pairs == BitmaskList(t, items)
             ops == OperationsOf(pairs)
  <2>1. w = BitmaskComponent(t, items)
    BY <1>6 DEF Written
  <2> HIDE DEF w, items
  <2>2. pairs \in Seq(Operated) /\ pairs # << >> /\ \A item \in Range(items) : BitmaskItem(item)
    BY <1>4, <1>6, BitmaskListShape
  <2>3. w = <<t>> \o FlattenSeq(ops)
    BY <1>4, <2>1, ListsAreOperations
  <2> HIDE DEF pairs
  <2>4. Operations(ops)
    BY <2>2, OperationsOfPairs
  <2> HIDE DEF ops
  <2>5. StandsAt(comps, found[t], ops)
    BY <1>1, <1>3, <2>3, <2>4, ListStands
  <2>6. ReadAs(operators, pairs)
    BY <1>5, <2>2, <2>5, ReadsBack DEF ops
  <2>7. Satisfies(operators, x, BitsHold) <=> \E item \in Range(items) : BitsMean(t, item, x)
    BY <1>4, <2>2, <2>6, BitmaskListMeans DEF pairs
  <2>8. QED
    BY <1>6, <2>7 DEF operators, items
<1>7. CASE t \notin BitmaskTypes
  <2> DEFINE pairs == NumericList(items)
             ops == OperationsOf(pairs)
  <2>1. w = NumericComponent(t, items)
    BY <1>7 DEF Written
  <2>2. \A i \in DOMAIN items : OneOperator(items[i])
    BY <1>3, <1>7 DEF Encodable
  <2> HIDE DEF w, items
  <2>3. pairs \in Seq(Operated) /\ pairs # << >> /\ \A item \in Range(items) : NumericItem(item)
    BY <1>4, <1>7, <2>2, NumericListShape
  <2>4. w = <<t>> \o FlattenSeq(ops)
    BY <1>4, <2>1, ListsAreOperations
  <2> HIDE DEF pairs
  <2>5. Operations(ops)
    BY <2>3, OperationsOfPairs
  <2> HIDE DEF ops
  <2>6. StandsAt(comps, found[t], ops)
    BY <1>1, <1>3, <2>4, <2>5, ListStands
  <2>7. ReadAs(operators, pairs)
    BY <1>5, <2>3, <2>6, ReadsBack DEF ops
  <2>8. Satisfies(operators, x, Holds) <=> \E item \in Range(items) : Means(item, x)
    BY <1>4, <2>2, <2>3, <2>7, NumericListMeans DEF pairs
  <2>9. QED
    BY <1>7, <2>8 DEF operators, items
<1>8. QED
  BY <1>6, <1>7

(* Whatever the lists of a rule, wherever its ranges stand in them and     *)
(* whatever the widths of the operands: the octets that encode_numeric and *)
(* encode_bitmask write match a field exactly when one of the items of the *)
(* rule does.                                                              *)
THEOREM ListsAreRead == Spec => []ListsMeanTheirItems
<1>1. IInv => ListsMeanTheirItems
  <2>1. SUFFICES ASSUME IInv, phase = "wellformed", rule.raw = << >>,
                        NEW t \in DOMAIN found \ PrefixTypes, NEW x \in Samples
                 PROVE  IF t \in BitmaskTypes
                        THEN Satisfies(OperatorsFrom(Data, found[t]), x, BitsHold)
                               = \E item \in Range(rule.parts[t]) : BitsMean(t, item, x)
                        ELSE Satisfies(OperatorsFrom(Data, found[t]), x, Holds)
                               = \E item \in Range(rule.parts[t]) : Means(item, x)
    BY Zenon DEF ListsMeanTheirItems
  <2>2. Framed /\ Value(x)
    BY <2>1, SamplesAssumption DEF Framed
  <2> DEFINE bits == Satisfies(OperatorsFrom(Data, found[t]), x, BitsHold)
             numbers == Satisfies(OperatorsFrom(Data, found[t]), x, Holds)
             bitsMeant == \E item \in Range(rule.parts[t]) : BitsMean(t, item, x)
             numbersMeant == \E item \in Range(rule.parts[t]) : Means(item, x)
  <2>3. IF t \in BitmaskTypes THEN bits <=> bitsMeant ELSE numbers <=> numbersMeant
    BY <2>1, <2>2, FoundListMeans
  <2>4. bits \in BOOLEAN /\ numbers \in BOOLEAN
    BY Zenon DEF Satisfies
  <2>5. bitsMeant \in BOOLEAN /\ numbersMeant \in BOOLEAN
    OBVIOUS
  <2> HIDE DEF bits, numbers, bitsMeant, numbersMeant
  <2>6. IF t \in BitmaskTypes THEN bits = bitsMeant ELSE numbers = numbersMeant
    BY <2>3, <2>4, <2>5
  <2>7. QED
    BY <2>6 DEF bits, numbers, bitsMeant, numbersMeant
<1>2. QED
  BY <1>1, SpecInv, PTL
=============================================================================
