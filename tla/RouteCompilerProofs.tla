------------------------ MODULE RouteCompilerProofs ------------------------
(***************************************************************************)
(* For every set of route lists, of any length and with attributes of any  *)
(* size: the manifest describes the file, the error named is determined by *)
(* the list, the only panic is the timestamp's, and no cast of a length    *)
(* loses anything.                                                         *)
(***************************************************************************)
EXTENDS RouteCompiler, DataFacts, TLAPS

(***************************************************************************)
(* The inductive invariant.                                                *)
(***************************************************************************)

Lead == IF job.format = "td2" THEN 1 ELSE 0

Classes == {"valid", "skip", "abort"}

Kinds ==
  {<<"peers">>}
  \cup ({"td2", "bgp4mp"} \X {"flowspec", "vpn", "unicast"} \X BOOLEAN \X BOOLEAN)

RouteEntries ==
  [index : Nat, offset : Nat, size : Nat, type : MrtTypes, timestamp : 0 .. U32 - 1,
   expect : Classes, kind : Kinds]

Typed ==
  /\ job \in [list : RouteLists, format : Formats, base : Bases, checks : Builds]
  /\ phase \in {"parse", "encode", "done", "refused", "panicked"}
  /\ at \in 1 .. Len(job.list) + 1
  /\ blame \in 0 .. Len(job.list)
  /\ bytes \in Seq(Chunks)
  /\ end \in Nat
  /\ entries \in Seq(RouteEntries)
  /\ counts \in [Classes -> Nat]

(* The routes before the one at hand parse, and nothing is written yet.    *)
Screened ==
  phase = "parse" =>
    /\ bytes = << >> /\ entries = << >> /\ end = 0
    /\ \A i \in 1 .. at - 1 : Accepts(job.list[i])

(* From the first record on the whole list is known to parse and to suit   *)
(* the format, and the routes that were encoded are not too large.         *)
Cleared ==
  phase \in {"encode", "done", "panicked"} =>
    /\ \A i \in 1 .. Len(job.list) : Accepts(job.list[i])
    /\ job.format = "td2" => Flows(job.list) = {}
    /\ \A i \in 1 .. at - 1 : ~ TooLarge(job.list[i], job.format)
    /\ phase = "done" => at = Len(job.list) + 1

(* Record Lead + i is that of route i, and names a peer that the table has.*)
InStep ==
  phase \in {"encode", "done"} =>
    /\ Len(entries) = Lead + at - 1
    /\ Len(bytes) = Len(entries)
    /\ \A i \in 1 .. at - 1 :
         /\ entries[Lead + i].expect = job.list[i].expect
         /\ entries[Lead + i].kind = Kind(job.list[i], job.format)
    /\ Lead = 1 =>
         /\ bytes[1].content.table = PeersOfList
         /\ \A i \in 2 .. Len(bytes) : bytes[i].content.top \in {0, 1}

IInv ==
  /\ Typed
  /\ Screened
  /\ Cleared
  /\ InStep
  /\ ManifestMatchesFile
  /\ NoUnwrapPanic
  /\ phase = "refused" => blame = Min(Troubled)

-----------------------------------------------------------------------------
(* The minimum is what it says.                                            *)
LEMMA MinIs ==
  ASSUME NEW S \in SUBSET Nat, NEW m \in S, \A k \in S : m <= k
  PROVE  Min(S) = m
<1>1. \A k \in S : (\A y \in S : k =< y) => k = m
  OBVIOUS
<1>2. QED
  BY <1>1 DEF Min

(* What the assumption says of the arguments at hand.                      *)
LEMMA JobFacts ==
  ASSUME Typed
  PROVE  /\ job.list \in Seq(Routes)
         /\ Len(job.list) \in Nat
         /\ \A i \in 1 .. Len(job.list) : job.list[i] \in Routes
         /\ job.format \in {"td2", "bgp4mp"} /\ job.format \in Formats
         /\ job.base \in 0 .. U32 - 1
         /\ job.checks \in BOOLEAN
<1>1. job.list \in Seq(Routes)
  BY RouteListsAssumption DEF Typed
<1>2. job.format \in Formats /\ job.base \in Bases /\ job.checks \in Builds
  BY DEF Typed
<1>3. Len(job.list) \in Nat /\ \A i \in 1 .. Len(job.list) : job.list[i] \in Routes
  BY <1>1
<1>4. job.format \in {"td2", "bgp4mp"} /\ job.base \in 0 .. U32 - 1 /\ job.checks \in BOOLEAN
  BY <1>2, RouteListsAssumption
<1>5. QED
  BY <1>1, <1>2, <1>3, <1>4

(* The fields of a route that proofs look at.                              *)
LEMMA RouteTypes ==
  ASSUME NEW r \in Routes
  PROVE  /\ r.expect \in Classes
         /\ r.v6 \in BOOLEAN /\ r.rd \in BOOLEAN /\ r.pathId \in BOOLEAN
         /\ r.nexthop \in {"none", "v4", "v6"}
         /\ r.bits \in Nat /\ r.bits <= 128
         /\ r.asns \in Nat /\ r.flow \in Nat
         /\ r.extras \in Seq(Nat)
<1>1. r.bits \in 0 .. 128
  BY Zenon DEF Routes
<1>2. r.bits \in Nat /\ r.bits <= 128
  BY <1>1
<1>3. r.asns \in Nat /\ r.flow \in Nat /\ r.extras \in Seq(Nat)
  BY Zenon DEF Routes
<1>4. r.v6 \in BOOLEAN /\ r.rd \in BOOLEAN /\ r.pathId \in BOOLEAN
  BY Zenon DEF Routes
<1>5. r.expect \in Classes /\ r.nexthop \in {"none", "v4", "v6"}
  BY Zenon DEF Routes, Classes
<1>6. QED
  BY <1>2, <1>3, <1>4, <1>5

-----------------------------------------------------------------------------
(* Sizes are sizes, and a total bounds its parts.                          *)

LEMMA AttributeSize ==
  ASSUME NEW value \in Nat
  PROVE  Attribute(value) \in Nat /\ value <= Attribute(value)
BY DEF Attribute, U8Max

(* The sum over the attributes of a route solves its equation.             *)
LEMMA SumOfBounds ==
  ASSUME NEW v \in Seq(Nat)
  PROVE  /\ SumOf(v) \in Nat
         /\ \A i \in 1 .. Len(v) : v[i] <= SumOf(v)
<1> DEFINE Sum == CHOOSE s : IsSumOf(s, v)
<1>1. IsSumOf(Sum, v)
  BY SumExists
<1>2. SumOf(v) = Sum[Len(v)]
  BY DEF SumOf, IsSumOf
<1> HIDE DEF Sum
<1>3. QED
  BY <1>1, <1>2, SumBounds

LEMMA CommonAttrsBounds ==
  ASSUME NEW r \in Routes
  PROVE  /\ AsPath(r) \in Nat /\ NextHop(r) \in 0 .. 16
         /\ CommonAttrs(r) \in Nat
         /\ AsPath(r) <= CommonAttrs(r)
         /\ \A value \in Range(r.extras) : value \in Nat /\ value <= CommonAttrs(r)
<1> DEFINE sizes == [i \in DOMAIN r.extras |-> Attribute(r.extras[i])]
<1>1. r.extras \in Seq(Nat) /\ r.asns \in Nat /\ r.nexthop \in {"none", "v4", "v6"}
  BY RouteTypes
<1>2. AsPath(r) \in Nat
  BY <1>1 DEF AsPath
<1>3. NextHop(r) \in 0 .. 16
  BY <1>1 DEF NextHop
<1>4. ASSUME NEW i \in 1 .. Len(r.extras)
      PROVE  /\ r.extras[i] \in Nat
             /\ Attribute(r.extras[i]) \in Nat
             /\ r.extras[i] <= Attribute(r.extras[i])
  <2>1. r.extras[i] \in Nat
    BY <1>1
  <2>2. QED
    BY <2>1, AttributeSize
<1>5. DOMAIN r.extras = 1 .. Len(r.extras) /\ Len(r.extras) \in Nat
  BY <1>1
<1>6. sizes \in Seq(Nat) /\ Len(sizes) = Len(r.extras)
  <2>1. sizes \in [1 .. Len(r.extras) -> Nat]
    BY <1>4, <1>5
  <2>2. QED
    BY <2>1, <1>5
<1>7. SumOf(sizes) \in Nat /\ \A i \in 1 .. Len(r.extras) : sizes[i] <= SumOf(sizes)
  BY <1>6, SumOfBounds
<1>8. \A i \in 1 .. Len(r.extras) : r.extras[i] <= SumOf(sizes)
  BY <1>4, <1>5, <1>7
<1>9. CommonAttrs(r) = Attribute(1) + Attribute(AsPath(r)) + SumOf(sizes)
  BY DEF CommonAttrs
<1> HIDE DEF sizes
<1>10. Attribute(1) \in Nat /\ Attribute(AsPath(r)) \in Nat /\ AsPath(r) <= Attribute(AsPath(r))
  BY <1>2, AttributeSize
<1>11. CommonAttrs(r) \in Nat /\ AsPath(r) <= CommonAttrs(r) /\ SumOf(sizes) <= CommonAttrs(r)
  BY <1>2, <1>7, <1>9, <1>10
<1>12. \A i \in 1 .. Len(r.extras) : r.extras[i] \in Nat /\ r.extras[i] <= CommonAttrs(r)
  BY <1>4, <1>7, <1>8, <1>11
<1>13. QED
  BY <1>2, <1>3, <1>5, <1>11, <1>12 DEF Range

LEMMA NlriSize ==
  ASSUME NEW r \in Routes
  PROVE  PathId(r) \in {0, 4} /\ Nlri(r) \in Nat /\ Nlri(r) - PathId(r) \in Nat
<1>1. r.bits \in Nat /\ r.flow \in Nat
  BY RouteTypes
<1>2. Octets(r.bits) \in Nat
  <2>1. (r.bits + 7) \div 8 \in Nat
    BY <1>1, Z3
  <2>2. QED
    BY <2>1 DEF Octets
<1>3. PathId(r) \in {0, 4}
  BY DEF PathId
<1>4. FlowNlri(r) \in Nat
  BY <1>1 DEF FlowNlri
<1>5. QED
  BY <1>2, <1>3, <1>4 DEF Nlri

(* What is inside an UPDATE or an attribute block is no larger than it.    *)
LEMMA CarrierSizes ==
  ASSUME NEW r \in Routes
  PROVE  /\ MpReach(r) \in Nat /\ Td2Attrs(r) \in Nat
         /\ UpdateAttrs(r) \in Nat /\ Update(r) \in Nat
         /\ CommonAttrs(r) <= Td2Attrs(r) /\ CommonAttrs(r) <= UpdateAttrs(r)
         /\ UpdateAttrs(r) <= Update(r)
         /\ IF InMpReach(r) THEN MpReach(r) <= UpdateAttrs(r) ELSE MpReach(r) <= Update(r)
<1>1. /\ CommonAttrs(r) \in Nat /\ NextHop(r) \in Nat /\ NextHop(r) <= 16
  BY CommonAttrsBounds
<1>2. Nlri(r) \in Nat
  BY NlriSize
<1>3. MpReach(r) \in Nat /\ (~ r.rd => MpReach(r) = 5 + NextHop(r) + Nlri(r))
  BY <1>1, <1>2 DEF MpReach
<1>4. Td2Carrier(r) \in Nat
  BY <1>1 DEF Td2Carrier
<1>5. Attribute(Td2Carrier(r)) \in Nat
  BY <1>4, AttributeSize
<1>6. Td2Attrs(r) \in Nat /\ CommonAttrs(r) <= Td2Attrs(r)
  BY <1>1, <1>5 DEF Td2Attrs
<1>7. /\ Attribute(MpReach(r)) \in Nat /\ MpReach(r) <= Attribute(MpReach(r))
      /\ Attribute(NextHop(r)) \in Nat /\ NextHop(r) <= Attribute(NextHop(r))
  BY <1>1, <1>3, AttributeSize
<1>8. CASE InMpReach(r)
  <2>1. UpdateAttrs(r) = CommonAttrs(r) + Attribute(MpReach(r)) /\ Update(r) = 23 + UpdateAttrs(r)
    <3>1. UpdateAttrs(r) = CommonAttrs(r) + Attribute(MpReach(r))
      BY <1>8 DEF UpdateAttrs
    <3>2. UpdateAttrs(r) \in Nat
      BY <3>1, <1>1, <1>7
    <3>3. QED
      BY <3>1, <3>2, <1>8 DEF Update
  <2>2. QED
    BY <2>1, <1>1, <1>3, <1>6, <1>7, <1>8
<1>9. CASE ~ InMpReach(r)
  <2>1. UpdateAttrs(r) = CommonAttrs(r) + Attribute(NextHop(r))
    BY <1>9 DEF UpdateAttrs
  <2>2. UpdateAttrs(r) \in Nat
    BY <2>1, <1>1, <1>7
  <2>3. Update(r) = 23 + UpdateAttrs(r) + Nlri(r)
    BY <2>2, <1>2, <1>9 DEF Update
  <2>4. MpReach(r) = 5 + NextHop(r) + Nlri(r)
    BY <1>3, <1>9 DEF InMpReach
  <2>5. QED
    BY <2>1, <2>2, <2>3, <2>4, <1>1, <1>2, <1>3, <1>6, <1>7, <1>9
<1>10. QED
  BY <1>8, <1>9

LEMMA BodySize ==
  ASSUME NEW r \in Routes, NEW format
  PROVE  Body(r, format) \in Nat
<1>1. Update(r) \in Nat /\ Td2Attrs(r) \in Nat
  BY CarrierSizes
<1>2. Nlri(r) \in Nat /\ PathId(r) \in Nat /\ Nlri(r) - PathId(r) \in Nat
  BY NlriSize
<1>3. 2 * (IF r.v6 THEN 16 ELSE 4) \in Nat
  OBVIOUS
<1>4. CASE format = "bgp4mp"
  BY <1>1, <1>3, <1>4 DEF Body
<1>5. CASE format # "bgp4mp" /\ r.rd
  BY <1>1, <1>2, <1>5 DEF Body
<1>6. CASE format # "bgp4mp" /\ ~ r.rd
  <2>1. Body(r, format) = 4 + (Nlri(r) - PathId(r)) + 2 + (2 + 4 + PathId(r) + 2 + Td2Attrs(r))
    BY <1>6 DEF Body
  <2>2. QED
    BY <2>1, <1>1, <1>2
<1>7. QED
  BY <1>4, <1>5, <1>6

(* Whatever the encoders cast is in range when the check that comes after  *)
(* the encoding lets the route pass, and parse_route let it in.            *)
LEMMA CastsAreHonest ==
  ASSUME NEW r \in Routes, NEW format \in {"td2", "bgp4mp"},
         Accepts(r), ~ TooLarge(r, format)
  PROVE  /\ \A value \in Range(r.extras) \cup {AsPath(r), NextHop(r)} : value <= U16Max
         /\ CommonAttrs(r) <= U16Max
         /\ r.expect = "valid" => r.asns <= U8Max
         /\ 24 + 64 + r.bits <= U8Max
         /\ format = "td2" => Td2Attrs(r) <= U16Max
         /\ format = "bgp4mp" =>
              MpReach(r) <= U16Max /\ UpdateAttrs(r) <= U16Max /\ Update(r) <= U16Max
<1>1. format = "td2" => Td2Attrs(r) <= U16Max
  BY CarrierSizes DEF TooLarge, U16Max
<1>2. format = "bgp4mp" => Update(r) <= 4096
  BY CarrierSizes DEF TooLarge, MaxMessage
<1>3. format = "bgp4mp" =>
        MpReach(r) <= U16Max /\ UpdateAttrs(r) <= U16Max /\ Update(r) <= U16Max
  BY <1>2, CarrierSizes DEF U16Max
<1>4. CommonAttrs(r) \in Nat /\ CommonAttrs(r) <= U16Max
  BY <1>1, <1>3, CarrierSizes, CommonAttrsBounds DEF U16Max
<1>5. \A value \in Range(r.extras) : value <= U16Max
  BY <1>4, CommonAttrsBounds DEF U16Max
<1>6. AsPath(r) <= U16Max /\ NextHop(r) <= U16Max
  BY <1>4, CommonAttrsBounds DEF U16Max
<1>7. 24 + 64 + r.bits <= U8Max
  BY RouteTypes DEF U8Max
<1>8. r.expect = "valid" => r.asns <= U8Max
  BY DEF Accepts
<1>9. QED
  BY <1>1, <1>3, <1>4, <1>5, <1>6, <1>7, <1>8

-----------------------------------------------------------------------------
(* The push closure appends a piece that begins where the file ends, and   *)
(* an entry that describes it.                                             *)
Appends(c, r, content, class, kind) ==
  /\ c \in Chunks /\ r \in RouteEntries
  /\ c.at = end /\ c.content = content
  /\ r.index = Len(entries) /\ r.offset = end /\ r.size = c.size
  /\ r.timestamp = c.timestamp /\ r.type = c.type
  /\ r.timestamp = NextTimestamp
  /\ r.expect = class /\ r.kind = kind
  /\ bytes' = Append(bytes, c)
  /\ end' = end + c.size
  /\ counts' = [counts EXCEPT ![class] = @ + 1]
  /\ entries' = Append(entries, r)

LEMMA PushAppends ==
  ASSUME Typed, NEW type \in MrtTypes, NEW body \in Nat, NEW content \in Contents,
         NEW class \in Classes, NEW kind \in Kinds, Push(type, body, content, class, kind)
  PROVE  \E c, r : Appends(c, r, content, class, kind)
<1> DEFINE rec == [type |-> type, us |-> FALSE, body |-> body, content |-> content,
                   declared |-> Computed]
           c == Encode(rec, NextTimestamp, end)
           r == [index |-> Len(entries), offset |-> end, size |-> EntrySize(rec),
                 type |-> type, timestamp |-> NextTimestamp, expect |-> class, kind |-> kind]
<1>1. Len(entries) \in Nat /\ end \in Nat
  BY DEF Typed
<1>2. NextTimestamp \in 0 .. U32 - 1
  <2>1. job.base \in Nat /\ U32 \in Nat /\ U32 > 0
    BY JobFacts, U32Assumption
  <2>2. Len(entries) % U32 \in Nat
    BY <1>1, <2>1, ModRange
  <2>3. TimestampSum \in Nat
    BY <2>1, <2>2 DEF TimestampSum
  <2>4. QED
    BY <2>1, <2>3, ModRange DEF NextTimestamp
<1>3. Micros(rec) = 0
  BY DEF Micros
<1>4. WireLength(rec) \in Nat
  <2>1. U32 \in Nat /\ U32 > 0
    BY U32Assumption
  <2>2. body % U32 \in Nat
    BY <2>1, ModRange
  <2>3. (body % U32) + 0 \in Nat
    BY <2>2
  <2>4. ((body % U32) + 0) % U32 \in Nat
    BY <2>1, <2>3, ModRange
  <2>5. QED
    BY <2>4, <1>3 DEF WireLength
<1>5. EntrySize(rec) = 12 + body
  BY <1>3 DEF EntrySize, EncodedLen, HeaderLen
<1>6. c = [at |-> end, size |-> 12 + body, timestamp |-> NextTimestamp, type |-> type,
           length |-> WireLength(rec), content |-> content]
  BY <1>3 DEF Encode
<1>7. c \in Chunks
  BY <1>1, <1>2, <1>4, <1>6 DEF Chunks
<1>8. r \in RouteEntries
  BY <1>1, <1>2, <1>5 DEF RouteEntries
<1>9. bytes' = Append(bytes, c) /\ end' = end + c.size
      /\ counts' = [counts EXCEPT ![class] = @ + 1] /\ entries' = Append(entries, r)
  BY DEF Push
<1>10. c.at = end /\ c.content = content /\ c.size = 12 + body
       /\ c.timestamp = NextTimestamp /\ c.type = type
  BY <1>6
<1>11. /\ r.index = Len(entries) /\ r.offset = end /\ r.size = 12 + body
       /\ r.timestamp = NextTimestamp /\ r.type = type
       /\ r.expect = class /\ r.kind = kind
  BY <1>5
<1> HIDE DEF c, r
<1>12. QED
  BY <1>7, <1>8, <1>9, <1>10, <1>11 DEF Appends

(* Appending keeps the manifest in step with the file and the stamps with  *)
(* the numbers of the records.                                             *)
LEMMA AppendKeepsManifest ==
  ASSUME Typed, ManifestMatchesFile, job' = job,
         job.checks => TimestampSum < U32,
         NEW c, NEW r, NEW content, NEW class, NEW kind, Appends(c, r, content, class, kind)
  PROVE  ManifestMatchesFile'
<1>1. /\ bytes \in Seq(Chunks) /\ entries \in Seq(RouteEntries) /\ end \in Nat
      /\ c \in Chunks /\ r \in RouteEntries
      /\ Len(entries) = Len(bytes) /\ Len(entries) \in Nat
  BY DEF Typed, Appends, ManifestMatchesFile, Output!ManifestMatchesFile
<1>2. /\ Len(entries') = Len(entries) + 1
      /\ Len(bytes') = Len(bytes) + 1
      /\ \A i \in 1 .. Len(entries) : entries'[i] = entries[i]
      /\ \A i \in 1 .. Len(bytes) : bytes'[i] = bytes[i]
      /\ entries'[Len(entries) + 1] = r
      /\ bytes'[Len(bytes) + 1] = c
  BY <1>1 DEF Appends
<1>3. /\ r.index = Len(entries)
      /\ r.offset = end /\ r.offset = c.at /\ r.size = c.size
      /\ r.timestamp = c.timestamp /\ r.type = c.type
      /\ end' = end + c.size
  BY DEF Appends
<1>4. end = (IF Len(entries) = 0 THEN 0 ELSE entries[Len(entries)].offset + entries[Len(entries)].size)
  BY <1>1 DEF ManifestMatchesFile, Output!ManifestMatchesFile, Output!EndOf
<1>5. ASSUME NEW i \in 1 .. Len(entries)
      PROVE  /\ entries'[i].index = i - 1
             /\ entries'[i].offset =
                  (IF i = 1 THEN 0 ELSE entries'[i - 1].offset + entries'[i - 1].size)
             /\ entries'[i].offset = bytes'[i].at
             /\ entries'[i].size = bytes'[i].size
             /\ entries'[i].timestamp = bytes'[i].timestamp
             /\ entries'[i].type = bytes'[i].type
  BY <1>1, <1>2 DEF ManifestMatchesFile, Output!ManifestMatchesFile, Output!EndOf
<1>6. ASSUME NEW i \in 1 .. Len(entries) + 1, i = Len(entries) + 1
      PROVE  /\ entries'[i].index = i - 1
             /\ entries'[i].offset =
                  (IF i = 1 THEN 0 ELSE entries'[i - 1].offset + entries'[i - 1].size)
             /\ entries'[i].offset = bytes'[i].at
             /\ entries'[i].size = bytes'[i].size
             /\ entries'[i].timestamp = bytes'[i].timestamp
             /\ entries'[i].type = bytes'[i].type
  <2>1. entries'[i] = r /\ bytes'[i] = c /\ i - 1 = Len(entries)
    BY <1>1, <1>2, <1>6
  <2>2. i # 1 => entries'[i - 1] = entries[Len(entries)] /\ Len(entries) # 0
    BY <1>1, <1>2, <1>6
  <2>3. i = 1 => Len(entries) = 0
    BY <1>1, <1>6
  <2>4. r.offset = (IF i = 1 THEN 0 ELSE entries'[i - 1].offset + entries'[i - 1].size)
    BY <1>3, <1>4, <2>2, <2>3
  <2>5. QED
    BY <1>3, <2>1, <2>4
<1>7. Output!ManifestMatchesFile'
  <2>1. end' = (IF entries' = << >> THEN 0
                ELSE entries'[Len(entries')].offset + entries'[Len(entries')].size)
    <3>1. entries' # << >>
      BY <1>1 DEF Appends
    <3>2. entries'[Len(entries')] = r
      BY <1>2
    <3>3. end' = r.offset + r.size
      BY <1>3
    <3>4. QED
      BY <3>1, <3>2, <3>3
  <2>2. \A i \in 1 .. Len(entries') : i \in 1 .. Len(entries) \/ i = Len(entries) + 1
    BY <1>1, <1>2
  <2>3. QED
    BY <1>1, <1>2, <1>5, <1>6, <2>1, <2>2 DEF Output!ManifestMatchesFile, Output!EndOf
<1>8. job.base \in Nat /\ job.base < U32 /\ U32 \in Nat /\ U32 > 0
  BY JobFacts, U32Assumption
<1>9. r.timestamp = (job.base + Len(entries)) % U32
  BY <1>1, <1>8, ModAdd DEF Appends, NextTimestamp, TimestampSum
<1>10. ASSUME job.checks, Len(entries) < U32
       PROVE  r.timestamp = job.base + Len(entries)
  <2>1. Len(entries) % U32 = Len(entries)
    BY <1>1, <1>8, <1>10, ModSmall
  <2>2. job.base + Len(entries) < U32
    BY <1>10, <2>1 DEF TimestampSum
  <2>3. (job.base + Len(entries)) % U32 = job.base + Len(entries)
    BY <1>1, <1>8, <2>2, ModSmall
  <2>4. QED
    BY <1>9, <2>3
<1>11. ASSUME NEW i \in 1 .. Len(entries')
       PROVE  /\ entries'[i].timestamp = (job.base + i - 1) % U32
              /\ job.checks /\ i <= U32 => entries'[i].timestamp = job.base + i - 1
  <2>1. CASE i = Len(entries) + 1
    <3>1. job.base + i - 1 = job.base + Len(entries) /\ entries'[i] = r
      BY <1>1, <1>2, <1>8, <2>1
    <3>2. i <= U32 => Len(entries) < U32
      BY <1>1, <1>8, <2>1
    <3>3. QED
      BY <1>9, <1>10, <3>1, <3>2
  <2>2. CASE i # Len(entries) + 1
    <3>1. i \in 1 .. Len(entries) /\ entries'[i] = entries[i]
      BY <1>1, <1>2, <2>2
    <3>2. QED
      BY <3>1 DEF ManifestMatchesFile, Output!TimestampsFollowIndex
  <2>3. QED
    BY <2>1, <2>2
<1>12. Output!TimestampsFollowIndex'
  BY <1>11 DEF Output!TimestampsFollowIndex
<1>13. QED
  BY <1>7, <1>12 DEF ManifestMatchesFile

(* A step that leaves the file and the manifest alone.                     *)
LEMMA QuietKeepsManifest ==
  ASSUME ManifestMatchesFile, UNCHANGED <<job, outVars>>
  PROVE  ManifestMatchesFile'
BY DEF outVars, ManifestMatchesFile, Output!ManifestMatchesFile, Output!EndOf,
       Output!TimestampsFollowIndex

(* Appending keeps the types.                                              *)
LEMMA AppendKeepsTypes ==
  ASSUME Typed, job' = job, phase' = "encode", at' \in 1 .. Len(job.list) + 1, blame' = blame,
         NEW c, NEW r, NEW content, NEW class \in Classes, NEW kind,
         Appends(c, r, content, class, kind)
  PROVE  Typed'
<1>1. end' \in Nat
  <2>1. end \in Nat
    BY DEF Typed
  <2>2. c \in Chunks /\ end' = end + c.size
    BY DEF Appends
  <2>3. c.size \in Nat
    BY <2>2 DEF Chunks
  <2>4. QED
    BY <2>1, <2>2, <2>3
<1>2. bytes' \in Seq(Chunks) /\ entries' \in Seq(RouteEntries)
  BY DEF Typed, Appends
<1>3. counts' \in [Classes -> Nat]
  <2>1. counts \in [Classes -> Nat]
    BY DEF Typed
  <2>2. counts' = [counts EXCEPT ![class] = @ + 1] /\ counts[class] + 1 \in Nat
    BY <2>1 DEF Appends
  <2>3. QED
    BY <2>1, <2>2
<1>4. QED
  BY <1>1, <1>2, <1>3 DEF Typed

-----------------------------------------------------------------------------
LEMMA InitInv == Init => IInv
<1> SUFFICES ASSUME Init
             PROVE  IInv
  OBVIOUS
<1>1. Typed
  <2>1. job.list \in Seq(Routes)
    BY RouteListsAssumption DEF Init
  <2>2. Len(job.list) \in Nat
    BY <2>1
  <2>3. bytes \in Seq(Chunks) /\ entries \in Seq(RouteEntries)
    BY DEF Init
  <2>4. counts \in [Classes -> Nat]
    BY DEF Init, Classes
  <2>5. QED
    BY <2>2, <2>3, <2>4 DEF Init, Typed
<1>2. Screened /\ Cleared /\ InStep
  BY DEF Init, Screened, Cleared, InStep
<1>3. ManifestMatchesFile
  <2>1. entries = << >> /\ bytes = << >> /\ end = 0 /\ Len(<< >>) = 0
    BY DEF Init
  <2>2. 1 .. 0 = {}
    OBVIOUS
  <2>3. QED
    BY <2>1, <2>2 DEF ManifestMatchesFile, Output!ManifestMatchesFile,
                      Output!TimestampsFollowIndex
<1>4. NoUnwrapPanic /\ (phase = "refused" => blame = Min(Troubled))
  BY DEF Init, NoUnwrapPanic
<1>5. QED
  BY <1>1, <1>2, <1>3, <1>4 DEF IInv

(* Trouble is looked for in the list, which does not change.               *)
LEMMA TroubledStays ==
  ASSUME job' = job
  PROVE  Troubled' = Troubled
BY DEF Troubled, TooLarge, MaxMessage, U16Max

LEMMA ParseKeeps ==
  ASSUME IInv, ParseRoute
  PROVE  IInv'
<1>1. /\ phase = "parse" /\ at <= Len(job.list) /\ Accepts(job.list[at])
      /\ at' = at + 1 /\ UNCHANGED <<job, phase, blame, bytes, end, entries, counts>>
  BY DEF ParseRoute, Route, outVars
<1>2. at \in Nat /\ Len(job.list) \in Nat /\ at >= 1
  BY JobFacts DEF IInv, Typed
<1>3. Typed'
  <2>1. at' \in 1 .. Len(job.list) + 1
    BY <1>1, <1>2
  <2>2. QED
    BY <1>1, <2>1 DEF IInv, Typed
<1>4. Screened'
  <2>1. \A i \in 1 .. at' - 1 : Accepts(job.list[i])
    <3>1. \A i \in 1 .. at' - 1 : i \in 1 .. at - 1 \/ i = at
      BY <1>1, <1>2
    <3>2. QED
      BY <1>1, <3>1 DEF IInv, Screened
  <2>2. QED
    BY <1>1, <2>1 DEF IInv, Screened
<1>5. ManifestMatchesFile'
  BY <1>1, QuietKeepsManifest DEF IInv, outVars
<1>6. QED
  BY <1>1, <1>3, <1>4, <1>5 DEF IInv, Cleared, InStep, NoUnwrapPanic

LEMMA RefuseRouteKeeps ==
  ASSUME IInv, RefuseRoute
  PROVE  IInv'
<1>1. /\ phase = "parse" /\ at <= Len(job.list) /\ ~ Accepts(job.list[at])
      /\ phase' = "refused" /\ blame' = at
      /\ UNCHANGED <<job, at, bytes, end, entries, counts>>
  BY DEF RefuseRoute, Route, outVars
<1>2. at \in Nat /\ Len(job.list) \in Nat /\ at >= 1 /\ job.list \in Seq(Routes)
  BY JobFacts DEF IInv, Typed
<1>3. Typed'
  BY <1>1, <1>2 DEF IInv, Typed
<1>4. Troubled = {i \in DOMAIN job.list : ~ Accepts(job.list[i])}
  <2>1. at \in DOMAIN job.list
    BY <1>1, <1>2
  <2>2. QED
    BY <1>1, <2>1 DEF Troubled
<1>5. Min(Troubled) = at
  <2>1. Troubled \in SUBSET Nat /\ at \in Troubled
    BY <1>1, <1>2, <1>4
  <2>2. \A k \in Troubled : at <= k
    BY <1>1, <1>2, <1>4 DEF IInv, Screened
  <2>3. QED
    BY <2>1, <2>2, MinIs
<1>6. ManifestMatchesFile'
  BY <1>1, QuietKeepsManifest DEF IInv, outVars
<1>7. QED
  BY <1>1, <1>3, <1>5, <1>6, TroubledStays
     DEF IInv, Screened, Cleared, InStep, NoUnwrapPanic

LEMMA RefuseFlowspecKeeps ==
  ASSUME IInv, RefuseFlowspec
  PROVE  IInv'
<1>1. /\ phase = "parse" /\ at > Len(job.list) /\ job.format = "td2" /\ Flows(job.list) # {}
      /\ phase' = "refused" /\ blame' = Min(Flows(job.list))
      /\ UNCHANGED <<job, at, bytes, end, entries, counts>>
  BY DEF RefuseFlowspec, Parsed, outVars
<1>2. at \in Nat /\ Len(job.list) \in Nat /\ at = Len(job.list) + 1 /\ job.list \in Seq(Routes)
  BY <1>1, JobFacts DEF IInv, Typed
<1>3. Flows(job.list) \subseteq 1 .. Len(job.list)
  BY <1>2 DEF Flows
<1>4. PICK m \in Flows(job.list) : \A k \in Flows(job.list) : m <= k
  <2>1. Flows(job.list) \subseteq Nat
    BY <1>3
  <2>2. QED
    BY <1>1, <2>1, LeastNumber
<1>5. Min(Flows(job.list)) \in 0 .. Len(job.list)
  <2>1. Min(Flows(job.list)) = m
    BY <1>3, <1>4, MinIs
  <2>2. QED
    BY <1>2, <1>3, <2>1
<1>6. Typed'
  BY <1>1, <1>5 DEF IInv, Typed
<1>7. Troubled = Flows(job.list)
  <2>1. \A i \in DOMAIN job.list : Accepts(job.list[i])
    BY <1>1, <1>2 DEF IInv, Screened
  <2>2. QED
    BY <1>1, <2>1 DEF Troubled, Flows, IsFlow
<1>8. ManifestMatchesFile'
  BY <1>1, QuietKeepsManifest DEF IInv, outVars
<1>9. QED
  BY <1>1, <1>6, <1>7, <1>8, TroubledStays
     DEF IInv, Screened, Cleared, InStep, NoUnwrapPanic

LEMMA BeginTableKeeps ==
  ASSUME IInv, BeginTable
  PROVE  IInv'
<1> DEFINE table == [table |-> PeersOfList, top |-> NoPeer]
<1>1. /\ phase = "parse" /\ at > Len(job.list) /\ job.format = "td2" /\ Flows(job.list) = {}
      /\ Push("TABLE_DUMP_V2", PeerTableBody, table, "valid", <<"peers">>)
      /\ phase' = "encode" /\ at' = 1 /\ UNCHANGED <<job, blame>>
  BY DEF BeginTable, Parsed
<1>2. /\ at \in Nat /\ Len(job.list) \in Nat /\ at = Len(job.list) + 1
      /\ bytes = << >> /\ entries = << >> /\ end = 0
  BY <1>1, JobFacts DEF IInv, Typed, Screened
<1>3. PICK c, r : Appends(c, r, table, "valid", <<"peers">>)
  <2>1. table \in Contents
    BY DEF Contents, PeersOfList
  <2>2. PeerTableBody \in Nat /\ "TABLE_DUMP_V2" \in MrtTypes
    BY DEF PeerTableBody, MrtTypes
  <2>3. "valid" \in Classes /\ <<"peers">> \in Kinds
    BY DEF Classes, Kinds
  <2>4. Typed
    BY DEF IInv
  <2> HIDE DEF table
  <2>5. QED
    BY <1>1, <2>1, <2>2, <2>3, <2>4, PushAppends
<1>4. Typed'
  BY <1>1, <1>2, <1>3, AppendKeepsTypes DEF IInv, Classes
<1>5. job.base < U32 /\ TimestampSum = job.base
  <2>1. job.base \in Nat /\ job.base < U32 /\ U32 \in Nat
    BY JobFacts, U32Assumption DEF IInv
  <2>2. 0 % U32 = 0
    BY <2>1, ModSmall
  <2>3. QED
    BY <1>2, <2>1, <2>2 DEF TimestampSum
<1>6. ManifestMatchesFile'
  BY <1>1, <1>3, <1>5, AppendKeepsManifest DEF IInv
<1>7. Cleared'
  <2>1. \A i \in 1 .. Len(job.list) : Accepts(job.list[i])
    BY <1>1, <1>2 DEF IInv, Screened
  <2>2. 1 .. at' - 1 = {}
    BY <1>1
  <2>3. QED
    BY <1>1, <2>1, <2>2 DEF Cleared
<1>8. InStep'
  <2>1. Len(entries') = 1 /\ Len(bytes') = 1 /\ bytes'[1] = c /\ c.content = table
    BY <1>2, <1>3 DEF Appends
  <2>2. Lead' = 1
    BY <1>1 DEF Lead
  <2>3. 1 .. at' - 1 = {} /\ 2 .. Len(bytes') = {}
    BY <1>1, <2>1
  <2>4. QED
    BY <1>1, <2>1, <2>2, <2>3 DEF InStep
<1>9. QED
  BY <1>1, <1>4, <1>6, <1>7, <1>8 DEF IInv, Screened, NoUnwrapPanic

LEMMA BeginUpdatesKeeps ==
  ASSUME IInv, BeginUpdates
  PROVE  IInv'
<1>1. /\ phase = "parse" /\ at > Len(job.list) /\ job.format = "bgp4mp"
      /\ phase' = "encode" /\ at' = 1 /\ UNCHANGED <<job, blame, bytes, end, entries, counts>>
  BY DEF BeginUpdates, Parsed, outVars
<1>2. /\ at \in Nat /\ Len(job.list) \in Nat /\ at = Len(job.list) + 1
      /\ bytes = << >> /\ entries = << >>
  BY <1>1, JobFacts DEF IInv, Typed, Screened
<1>3. Typed'
  BY <1>1, <1>2 DEF IInv, Typed
<1>4. Cleared' /\ InStep'
  <2>1. \A i \in 1 .. Len(job.list) : Accepts(job.list[i])
    BY <1>1, <1>2 DEF IInv, Screened
  <2>2. 1 .. at' - 1 = {} /\ Lead' = 0
    BY <1>1 DEF Lead
  <2>3. Len(entries') = 0 /\ Len(bytes') = 0
    BY <1>1, <1>2
  <2>4. QED
    BY <1>1, <2>1, <2>2, <2>3 DEF Cleared, InStep
<1>5. ManifestMatchesFile'
  BY <1>1, QuietKeepsManifest DEF IInv, outVars
<1>6. QED
  BY <1>1, <1>3, <1>4, <1>5 DEF IInv, Screened, NoUnwrapPanic

(* The kind and the content of a record of the file.                       *)
LEMMA RouteRecord ==
  ASSUME NEW r \in Routes, NEW format \in {"td2", "bgp4mp"}, NEW peer \in {0, 1, NoPeer}
  PROVE  /\ Kind(r, format) \in Kinds
         /\ [table |-> NoPeer, top |-> peer] \in Contents
<1>1. r.v6 \in BOOLEAN /\ r.pathId \in BOOLEAN
  BY RouteTypes
<1>2. (r.v6 /\ format = "td2") \in BOOLEAN
  OBVIOUS
<1>3. Kind(r, format) \in Kinds
  BY <1>1, <1>2 DEF Kind, Kinds
<1>4. [table |-> NoPeer, top |-> peer] \in Contents
  BY DEF Contents
<1>5. QED
  BY <1>3, <1>4

LEMMA EncodeKeeps ==
  ASSUME IInv, EncodeRoute
  PROVE  IInv'
<1> DEFINE peer == IF job.format = "bgp4mp" THEN NoPeer ELSE PeerOfRoute
           content == [table |-> NoPeer, top |-> peer]
           type == IF job.format = "td2" THEN "TABLE_DUMP_V2" ELSE "BGP4MP"
<1>1. /\ phase = "encode" /\ at <= Len(job.list) /\ Fits /\ ~ TooLarge(Route, job.format)
      /\ Push(type, Body(Route, job.format), content, Route.expect, Kind(Route, job.format))
      /\ at' = at + 1 /\ UNCHANGED <<job, phase, blame>>
  BY DEF EncodeRoute, Encoding
<1>2. /\ at \in Nat /\ at >= 1 /\ Len(job.list) \in Nat
      /\ Route \in Routes /\ job.format \in {"td2", "bgp4mp"}
  BY <1>1, JobFacts DEF IInv, Typed, Route
<1>3. peer \in {0, 1, NoPeer} /\ (job.format = "td2" => peer \in {0, 1})
  BY DEF PeerOfRoute
<1>4. PICK c, r : Appends(c, r, content, Route.expect, Kind(Route, job.format))
  <2>1. content \in Contents /\ Kind(Route, job.format) \in Kinds
    BY <1>2, <1>3, RouteRecord
  <2>2. Body(Route, job.format) \in Nat
    BY <1>2, BodySize
  <2>3. type \in MrtTypes
    BY DEF MrtTypes
  <2>4. Route.expect \in Classes
    BY <1>2, RouteTypes
  <2>5. Typed
    BY DEF IInv
  <2> HIDE DEF content, type
  <2>6. QED
    BY <1>1, <2>1, <2>2, <2>3, <2>4, <2>5, PushAppends
<1> HIDE DEF peer, type
<1>5. at' \in 1 .. Len(job.list) + 1
  BY <1>1, <1>2
<1>6. Route.expect \in Classes
  BY <1>2, RouteTypes
<1>7. Typed'
  BY <1>1, <1>4, <1>5, <1>6, AppendKeepsTypes DEF IInv
<1>8. ManifestMatchesFile'
  <2>1. job.checks => TimestampSum < U32
    BY <1>1 DEF Fits
  <2>2. QED
    BY <1>1, <1>4, <2>1, AppendKeepsManifest DEF IInv
<1>9. \A i \in 1 .. at' - 1 : i \in 1 .. at - 1 \/ i = at
  BY <1>1, <1>2
<1>10. Cleared'
  <2>1. \A i \in 1 .. at' - 1 : ~ TooLarge(job.list[i], job.format)
    BY <1>1, <1>9 DEF IInv, Cleared, Route
  <2>2. QED
    BY <1>1, <2>1 DEF IInv, Cleared, TooLarge, MaxMessage, U16Max
<1>11. InStep'
  <2>1. /\ Lead' = Lead /\ Lead \in {0, 1}
        /\ Len(entries) = Lead + at - 1 /\ Len(bytes) = Len(entries) /\ Len(entries) \in Nat
        /\ entries \in Seq(RouteEntries) /\ bytes \in Seq(Chunks)
    BY <1>1 DEF IInv, Typed, InStep, Lead
  <2>2. /\ Len(entries') = Len(entries) + 1 /\ Len(bytes') = Len(bytes) + 1
        /\ entries'[Lead + at] = r /\ bytes'[Len(bytes) + 1] = c
        /\ \A i \in 1 .. Len(entries) : entries'[i] = entries[i] /\ bytes'[i] = bytes[i]
    BY <1>2, <1>4, <2>1 DEF Appends
  <2>3. ASSUME NEW i \in 1 .. at' - 1
        PROVE  /\ entries'[Lead + i].expect = job.list[i].expect
               /\ entries'[Lead + i].kind = Kind(job.list[i], job.format)
    <3>1. CASE i = at
      BY <1>4, <2>2, <3>1 DEF Appends, Route
    <3>2. CASE i \in 1 .. at - 1
      <4>1. Lead + i \in 1 .. Len(entries)
        BY <1>2, <2>1, <3>2
      <4>2. QED
        BY <1>1, <2>2, <3>2, <4>1 DEF IInv, InStep
    <3>3. QED
      BY <1>9, <3>1, <3>2
  <2>4. ASSUME Lead = 1
        PROVE  /\ bytes'[1].content.table = PeersOfList
               /\ \A i \in 2 .. Len(bytes') : bytes'[i].content.top \in {0, 1}
    <3>1. Len(bytes) >= 1 /\ bytes'[1] = bytes[1]
      BY <1>2, <2>1, <2>2, <2>4
    <3>2. c.content.top \in {0, 1}
      BY <1>3, <1>4, <2>4 DEF Appends, Lead
    <3>3. ASSUME NEW i \in 2 .. Len(bytes')
          PROVE  bytes'[i].content.top \in {0, 1}
      <4>1. CASE i = Len(bytes) + 1
        BY <2>2, <3>2, <4>1
      <4>2. CASE i # Len(bytes) + 1
        <5>1. i \in 2 .. Len(bytes) /\ bytes'[i] = bytes[i]
          BY <2>1, <2>2, <4>2
        <5>2. QED
          BY <1>1, <2>4, <5>1 DEF IInv, InStep
      <4>3. QED
        BY <4>1, <4>2
    <3>4. QED
      BY <1>1, <2>4, <3>1, <3>3 DEF IInv, InStep
  <2>5. Len(entries') = Lead + at' - 1 /\ Len(bytes') = Len(entries')
    BY <1>1, <1>2, <2>1, <2>2
  <2>6. QED
    BY <1>1, <2>1, <2>3, <2>4, <2>5 DEF InStep
<1>12. QED
  BY <1>1, <1>7, <1>8, <1>10, <1>11 DEF IInv, Screened, NoUnwrapPanic

LEMMA RefuseTooLargeKeeps ==
  ASSUME IInv, RefuseTooLarge
  PROVE  IInv'
<1>1. /\ phase = "encode" /\ at <= Len(job.list) /\ TooLarge(job.list[at], job.format)
      /\ phase' = "refused" /\ blame' = at
      /\ UNCHANGED <<job, at, bytes, end, entries, counts>>
  BY DEF RefuseTooLarge, Encoding, Route, outVars
<1>2. at \in Nat /\ Len(job.list) \in Nat /\ at >= 1 /\ job.list \in Seq(Routes)
  BY JobFacts DEF IInv, Typed
<1>3. Typed'
  BY <1>1, <1>2 DEF IInv, Typed
<1>4. Troubled = {i \in DOMAIN job.list : TooLarge(job.list[i], job.format)}
  <2>1. \A i \in DOMAIN job.list : Accepts(job.list[i])
    BY <1>1, <1>2 DEF IInv, Cleared
  <2>2. job.format = "td2" => Flows(job.list) = {}
    BY <1>1 DEF IInv, Cleared
  <2>3. QED
    BY <2>1, <2>2 DEF Troubled, Flows, IsFlow
<1>5. Min(Troubled) = at
  <2>1. Troubled \in SUBSET Nat /\ at \in Troubled
    BY <1>1, <1>2, <1>4
  <2>2. \A k \in Troubled : at <= k
    BY <1>1, <1>2, <1>4 DEF IInv, Cleared
  <2>3. QED
    BY <2>1, <2>2, MinIs
<1>6. ManifestMatchesFile'
  BY <1>1, QuietKeepsManifest DEF IInv, outVars
<1>7. QED
  BY <1>1, <1>3, <1>5, <1>6, TroubledStays
     DEF IInv, Screened, Cleared, InStep, NoUnwrapPanic

(* An address of the wrong size gets past neither parse_nexthop nor the    *)
(* refusal of FlowSpec rules.                                              *)
LEMMA NothingUnwraps ==
  ASSUME IInv, Encoding
  PROVE  ~ Unwraps(Route, job.format)
<1>1. /\ at \in 1 .. Len(job.list) /\ job.format \in {"td2", "bgp4mp"}
      /\ job.list \in Seq(Routes) /\ phase = "encode"
  BY JobFacts DEF IInv, Typed, Encoding
<1>2. Accepts(Route)
  BY <1>1 DEF IInv, Cleared, Route
<1>3. job.format = "td2" => ~ IsFlow(Route)
  BY <1>1 DEF IInv, Cleared, Flows, Route
<1>4. ~ IsFlow(Route) => (~ Route.v6 => Route.nexthop = "v4")
  BY <1>2 DEF Accepts
<1>5. QED
  BY <1>1, <1>3, <1>4 DEF Unwraps

LEMMA PanicKeeps ==
  ASSUME IInv, Panic
  PROVE  IInv'
<1>1. /\ phase = "encode" /\ Encoding /\ (~ Fits \/ Unwraps(Route, job.format))
      /\ phase' = "panicked" /\ UNCHANGED <<job, at, blame, bytes, end, entries, counts>>
  BY DEF Panic, Encoding, outVars
<1>2. ~ Fits'
  BY <1>1, NothingUnwraps DEF Fits, TimestampSum
<1>3. ManifestMatchesFile'
  BY <1>1, QuietKeepsManifest DEF IInv, outVars
<1>4. Typed'
  BY <1>1 DEF IInv, Typed
<1>5. Cleared'
  BY <1>1 DEF IInv, Cleared
<1>6. QED
  BY <1>1, <1>2, <1>3, <1>4, <1>5 DEF IInv, Screened, InStep, NoUnwrapPanic

LEMMA FinishKeeps ==
  ASSUME IInv, Finish
  PROVE  IInv'
<1>1. /\ phase = "encode" /\ at > Len(job.list)
      /\ phase' = "done" /\ UNCHANGED <<job, at, blame, bytes, end, entries, counts>>
  BY DEF Finish, outVars
<1>2. at = Len(job.list) + 1
  BY <1>1, JobFacts DEF IInv, Typed
<1>3. ManifestMatchesFile'
  BY <1>1, QuietKeepsManifest DEF IInv, outVars
<1>4. Typed'
  BY <1>1 DEF IInv, Typed
<1>5. Cleared'
  BY <1>1, <1>2 DEF IInv, Cleared
<1>6. InStep'
  BY <1>1 DEF IInv, InStep, Lead
<1>7. QED
  BY <1>1, <1>3, <1>4, <1>5, <1>6 DEF IInv, Screened, NoUnwrapPanic

LEMMA NextInv == IInv /\ [Next]_vars => IInv'
<1> SUFFICES ASSUME IInv, [Next]_vars
             PROVE  IInv'
  OBVIOUS
<1>1. CASE UNCHANGED vars
  <2>1. UNCHANGED <<job, phase, at, blame, bytes, end, entries, counts>>
    BY <1>1 DEF vars, outVars
  <2>2. ManifestMatchesFile'
    BY <2>1, QuietKeepsManifest DEF IInv, outVars
  <2>3. Typed'
    BY <2>1 DEF IInv, Typed
  <2>4. Screened' /\ Cleared' /\ InStep'
    BY <2>1 DEF IInv, Screened, Cleared, InStep, Lead, TooLarge, MaxMessage, U16Max
  <2>5. NoUnwrapPanic'
    BY <2>1 DEF IInv, NoUnwrapPanic, Fits, TimestampSum
  <2>6. QED
    BY <2>1, <2>2, <2>3, <2>4, <2>5, TroubledStays DEF IInv
<1>2. CASE Next
  BY <1>2, ParseKeeps, RefuseRouteKeeps, RefuseFlowspecKeeps, BeginTableKeeps,
     BeginUpdatesKeeps, EncodeKeeps, RefuseTooLargeKeeps, PanicKeeps, FinishKeeps
     DEF Next
<1>3. QED
  BY <1>1, <1>2

-----------------------------------------------------------------------------
(* The inductive invariant holds.                                          *)
THEOREM SpecInv == Spec => []IInv
<1>1. QED
  BY InitInv, NextInv, PTL DEF Spec

(* The state of the compiler stays inside its types.                       *)
THEOREM TypeCorrect == Spec => []TypeOK
<1>1. IInv => TypeOK
  <2> SUFFICES ASSUME IInv
               PROVE  TypeOK
    OBVIOUS
  <2>1. bytes \in Seq(Chunks)
    BY DEF IInv, Typed
  <2>2. QED
    BY <2>1 DEF IInv, Typed, TypeOK, Classes
<1>2. QED
  BY <1>1, SpecInv, PTL

(* The push closure keeps the manifest in step with the file, whatever the *)
(* list, and record N is stamped base_timestamp + N.                       *)
THEOREM ManifestDescribesFile == Spec => []ManifestMatchesFile
<1>1. IInv => ManifestMatchesFile
  BY DEF IInv
<1>2. QED
  BY <1>1, SpecInv, PTL

(* No list makes an encoder unwrap an address of the wrong size.           *)
THEOREM OnlyTheTimestampPanics == Spec => []NoUnwrapPanic
<1>1. IInv => NoUnwrapPanic
  BY DEF IInv
<1>2. QED
  BY <1>1, SpecInv, PTL

(* Of the routes that made it into the file no length was cast to a field  *)
(* too narrow for it, however many attributes of whatever size they had.   *)
THEOREM CastsLoseNothing == Spec => []NoLossyCast
<1>1. IInv => NoLossyCast
  <2> SUFFICES ASSUME IInv, NEW r \in EncodedRoutes
               PROVE  /\ \A value \in Range(r.extras) \cup {AsPath(r), NextHop(r)} : value <= U16Max
                      /\ CommonAttrs(r) <= U16Max
                      /\ r.expect = "valid" => r.asns <= U8Max
                      /\ 24 + 64 + r.bits <= U8Max
                      /\ job.format = "td2" => Td2Attrs(r) <= U16Max
                      /\ job.format = "bgp4mp" =>
                           MpReach(r) <= U16Max /\ UpdateAttrs(r) <= U16Max /\ Update(r) <= U16Max
    BY DEF NoLossyCast
  <2>1. phase \in {"encode", "done"}
    BY DEF EncodedRoutes
  <2>2. PICK i \in 1 .. at - 1 : r = job.list[i]
    BY <2>1 DEF EncodedRoutes
  <2>3. at \in Nat /\ at <= Len(job.list) + 1 /\ Len(job.list) \in Nat
    BY JobFacts DEF IInv, Typed
  <2>4. i \in 1 .. Len(job.list)
    BY <2>3
  <2>5. r \in Routes /\ job.format \in {"td2", "bgp4mp"}
    BY <2>2, <2>4, JobFacts DEF IInv
  <2>6. Accepts(r) /\ ~ TooLarge(r, job.format)
    BY <2>1, <2>2, <2>4 DEF IInv, Cleared
  <2>7. QED
    BY <2>5, <2>6, CastsAreHonest
<1>2. QED
  BY <1>1, SpecInv, PTL

(* The error names the first route of the most basic trouble in the list,  *)
(* wherever it is found, and a list that is done had none.                 *)
THEOREM ErrorNamesTheFirst == Spec => []BlameIsDetermined
<1>1. IInv => BlameIsDetermined
  <2> SUFFICES ASSUME IInv, phase = "done"
               PROVE  Troubled = {}
    BY DEF IInv, BlameIsDetermined
  <2>1. job.list \in Seq(Routes) /\ Len(job.list) \in Nat
    BY JobFacts DEF IInv
  <2>2. \A i \in DOMAIN job.list : Accepts(job.list[i]) /\ ~ TooLarge(job.list[i], job.format)
    BY <2>1 DEF IInv, Cleared
  <2>3. job.format = "td2" => Flows(job.list) = {}
    BY DEF IInv, Cleared
  <2>4. QED
    BY <2>2, <2>3 DEF Troubled, Flows, IsFlow
<1>2. QED
  BY <1>1, SpecInv, PTL

(* A finished file has the peer table, where there is one, and a record    *)
(* for each route in order, each naming a peer of the table.               *)
THEOREM FileFollowsList == Spec => []OneRecordPerRoute
<1>1. IInv => OneRecordPerRoute
  <2> SUFFICES ASSUME IInv, phase = "done"
               PROVE  /\ Len(entries) = Lead + Len(job.list)
                      /\ \A i \in DOMAIN job.list :
                           /\ entries[Lead + i].expect = job.list[i].expect
                           /\ entries[Lead + i].kind = Kind(job.list[i], job.format)
                      /\ Lead = 1 =>
                           \A i \in 2 .. Len(bytes) : bytes[i].content.top < bytes[1].content.table
    BY DEF OneRecordPerRoute, Lead
  <2>1. job.list \in Seq(Routes) /\ Len(job.list) \in Nat /\ at = Len(job.list) + 1
    BY JobFacts DEF IInv, Cleared
  <2>2. DOMAIN job.list = 1 .. at - 1 /\ at - 1 = Len(job.list)
    BY <2>1
  <2>3. /\ Len(entries) = Lead + Len(job.list)
        /\ \A i \in DOMAIN job.list :
             /\ entries[Lead + i].expect = job.list[i].expect
             /\ entries[Lead + i].kind = Kind(job.list[i], job.format)
    <3>1. Len(entries) = Lead + at - 1 /\ Lead \in {0, 1}
      BY DEF IInv, InStep, Lead
    <3>2. Lead + at - 1 = Lead + Len(job.list)
      BY <2>1, <3>1
    <3>3. QED
      BY <2>2, <3>1, <3>2 DEF IInv, InStep
  <2>4. Lead = 1 => \A i \in 2 .. Len(bytes) : bytes[i].content.top < bytes[1].content.table
    BY DEF IInv, InStep, PeersOfList
  <2>5. QED
    BY <2>3, <2>4
<1>2. QED
  BY <1>1, SpecInv, PTL
-----------------------------------------------------------------------------
(***************************************************************************)
(* The compiler is a writer of the stream of module RecordStream, which    *)
(* nobody reads yet: it only ever appends a record, never damage, and      *)
(* nothing once the list is done.                                          *)
(***************************************************************************)
Stream == [i \in 1 .. Len(entries) |-> entries[i].expect]

Writer == INSTANCE RecordStream WITH
  Expectations <- Classes,
  stream       <- Stream,
  open         <- phase # "done",
  seen         <- 0,
  verdict      <- "walking"

Undamaged == \A i \in 1 .. Len(entries) : entries[i].expect # "abort"

(* A push writes its class to the stream.                                  *)
LEMMA PushWrites ==
  ASSUME Typed, Undamaged, phase # "done", phase' # "done",
         NEW type, NEW body, NEW content, NEW class \in Classes, NEW kind, class # "abort",
         Push(type, body, content, class, kind)
  PROVE  Writer!Next /\ Undamaged'
<1> DEFINE rec == [type |-> type, us |-> FALSE, body |-> body, content |-> content,
                   declared |-> Computed]
           r == [index |-> Len(entries), offset |-> end, size |-> EntrySize(rec),
                 type |-> type, timestamp |-> NextTimestamp, expect |-> class, kind |-> kind]
<1>1. entries' = Append(entries, r) /\ r.expect = class
  BY DEF Push
<1> HIDE DEF r
<1>2. entries \in Seq(RouteEntries) /\ Len(entries) \in Nat
  BY DEF Typed
<1>3. Len(entries') = Len(entries) + 1
      /\ \A i \in 1 .. Len(entries') :
           entries'[i] = IF i = Len(entries) + 1 THEN r ELSE entries[i]
  BY <1>1, <1>2
<1>4. Undamaged'
  BY <1>1, <1>2, <1>3 DEF Undamaged
<1>5. Stream \in Seq(Classes) /\ Len(Stream) = Len(entries)
  <2>1. \A i \in 1 .. Len(entries) : entries[i] \in RouteEntries
    BY <1>2
  <2>2. \A i \in 1 .. Len(entries) : entries[i].expect \in Classes
    BY <2>1 DEF RouteEntries
  <2>3. QED
    BY <1>2, <2>2 DEF Stream
<1>6. Stream' = Append(Stream, class)
  BY <1>1, <1>2, <1>3, <1>5 DEF Stream
<1>7. Writer!Write(class)
  BY <1>6 DEF Writer!Write, Writer!Damaged, Undamaged, Stream
<1>8. QED
  BY <1>4, <1>7 DEF Writer!Next

(* Every step is a step of the writer or changes nothing of the stream; no *)
(* damage is ever written, for a list with an abort route does not parse.  *)
LEMMA NextWrites ==
  ASSUME IInv, Undamaged, [Next]_vars
  PROVE  [Writer!Next]_(Writer!streamVars) /\ Undamaged'
<1>1. ASSUME UNCHANGED entries, (phase = "done") = (phase' = "done")
      PROVE  [Writer!Next]_(Writer!streamVars) /\ Undamaged'
  BY <1>1 DEF Writer!streamVars, Undamaged, Stream
<1>2. CASE BeginTable
  <2>1. Push("TABLE_DUMP_V2", PeerTableBody, [table |-> PeersOfList, top |-> NoPeer],
             "valid", <<"peers">>)
        /\ phase # "done" /\ phase' # "done"
    BY <1>2 DEF BeginTable, Parsed
  <2>2. QED
    BY <2>1, PushWrites DEF IInv, Classes
<1>3. CASE EncodeRoute
  <2>1. phase = "encode" /\ phase' = "encode" /\ at <= Len(job.list)
    BY <1>3 DEF EncodeRoute, Encoding
  <2>2. Route.expect \in Classes /\ Route.expect # "abort"
    <3>1. at \in 1 .. Len(job.list) /\ Route \in Routes
      BY <2>1, JobFacts DEF IInv, Typed, Route
    <3>2. Accepts(Route)
      BY <2>1, <3>1 DEF IInv, Cleared, Route
    <3>3. QED
      BY <3>1, <3>2, RouteTypes DEF Accepts
  <2>3. \E type, body, content, kind : Push(type, body, content, Route.expect, kind)
    BY <1>3, Zenon DEF EncodeRoute
  <2>4. QED
    BY <2>1, <2>2, <2>3, PushWrites DEF IInv
<1>4. CASE Finish
  <2>1. UNCHANGED entries /\ phase = "encode" /\ phase' = "done"
    BY <1>4 DEF Finish, outVars
  <2>2. Writer!Close
    BY <2>1 DEF Writer!Close, Stream
  <2>3. QED
    BY <2>1, <2>2 DEF Writer!Next, Undamaged
<1>5. CASE ParseRoute \/ RefuseRoute \/ RefuseFlowspec \/ BeginUpdates
  BY <1>1, <1>5 DEF ParseRoute, RefuseRoute, RefuseFlowspec, BeginUpdates, Parsed, outVars
<1>6. CASE RefuseTooLarge \/ Panic \/ UNCHANGED vars
  BY <1>1, <1>6 DEF RefuseTooLarge, Panic, Encoding, outVars, vars
<1>7. QED
  BY <1>2, <1>3, <1>4, <1>5, <1>6 DEF Next

(* Whatever the list, what the compiler has written is at every moment a   *)
(* stream that a reader of the other corpora could be given.               *)
THEOREM WritesARecordStream == Spec => Writer!Spec
<1>1. Init => Writer!Init /\ Undamaged
  BY DEF Init, Writer!Init, Stream, Undamaged
<1>2. IInv /\ Undamaged /\ [Next]_vars => [Writer!Next]_(Writer!streamVars) /\ Undamaged'
  BY NextWrites
<1>3. QED
  BY <1>1, <1>2, SpecInv, PTL DEF Spec, Writer!Spec
=============================================================================
