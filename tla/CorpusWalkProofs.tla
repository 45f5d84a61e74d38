-------------------------- MODULE CorpusWalkProofs --------------------------
(***************************************************************************)
(* For every program of pushes, every body size and every base timestamp:  *)
(* the manifest describes the file, and a reader that believes the Length  *)
(* fields finds exactly the records of the manifest.  And for the program  *)
(* generate_profile runs: every peer index means what its class says.      *)
(***************************************************************************)
EXTENDS GeneratedCorpus, DataFacts, FiniteSetTheorems, TLAPS

(***************************************************************************)
(* The inductive invariant.                                                *)
(***************************************************************************)

(* Entry i was pushed by emission i of the program.                        *)
FromProgram ==
  /\ Len(entries) <= Len(Program[cfg])
  /\ phase = "done" => Len(entries) = Len(Program[cfg])
  /\ \A i \in 1 .. Len(entries) :
       /\ entries[i].expect = Program[cfg][i].expect
       /\ bytes[i].content = Program[cfg][i].rec.content

(* The pieces of the file lie one after the other, none empty.             *)
Ordered ==
  /\ \A i \in 1 .. Len(bytes) :
       bytes[i].size >= 1 /\ bytes[i].at + bytes[i].size <= end
  /\ \A i, j \in 1 .. Len(bytes) : i < j => bytes[i].at + bytes[i].size <= bytes[j].at

(* A Length field can be trusted exactly outside the abort class.          *)
Readable(c) == c.size >= HeaderLen /\ c.size = HeaderLen + c.length

Trusted ==
  \A i \in 1 .. Len(entries) :
    IF entries[i].expect = "abort"
    THEN i = Len(Program[cfg])
         /\ (bytes[i].size < HeaderLen \/ HeaderLen + bytes[i].length > bytes[i].size)
    ELSE Readable(bytes[i])

BuilderInv ==
  BuilderTypeOK /\ FromProgram /\ ManifestMatchesFile /\ Ordered /\ Trusted

(* The reader has passed the first n entries and stands at the next.       *)
WalkInv ==
  /\ off \in Nat /\ n \in Nat /\ verdict \in {"walking", "clean", "broken"}
  /\ phase # "done" => off = 0 /\ n = 0 /\ verdict = "walking"
  /\ n <= Len(entries)
  /\ phase = "done" => off = (IF n = Len(entries) THEN end ELSE entries[n + 1].offset)
  /\ \A i \in 1 .. n : entries[i].expect # "abort"
  /\ verdict = "clean" => n = Len(entries)
  /\ verdict = "broken" => n + 1 = Len(entries) /\ entries[n + 1].expect = "abort"

IInv == BuilderInv /\ WalkInv /\ CountsMatchEntries /\ TimestampsFollowIndex

-----------------------------------------------------------------------------
(* What the program assumption says of the emission at hand.               *)
LEMMA EmissionFacts ==
  ASSUME BuilderTypeOK, Emitting
  PROVE  /\ Emission \in Emissions
         /\ Emission.raw => /\ Len(entries) + 1 = Len(Program[cfg])
                           /\ Emission.expect = "abort"
                           /\ Unreadable(Emission)
         /\ ~ Emission.raw => Emission.expect # "abort" /\ Honest(Emission.rec)
<1>1. Program[cfg] \in Seq(Emissions)
  BY ProgramAssumption DEF BuilderTypeOK
<1>2. Len(entries) + 1 \in 1 .. Len(Program[cfg])
  BY <1>1 DEF BuilderTypeOK, Emitting
<1>3. Emission \in Emissions
  BY <1>1, <1>2 DEF Emission
<1>4. QED
  BY <1>2, <1>3, ProgramAssumption DEF BuilderTypeOK, Emission

(* Sizes are sizes, and next_timestamp is a u32.                           *)
LEMMA FramingTypes ==
  ASSUME NEW rec \in MrtRecord, NEW ts \in 0 .. U32 - 1, NEW at \in Nat
  PROVE  /\ Encode(rec, ts, at) \in Chunks
         /\ EncodedLen(rec) \in Nat
         /\ EncodedLen(rec) >= HeaderLen
         /\ Encode(rec, ts, at).at = at
         /\ Encode(rec, ts, at).size = EncodedLen(rec)
         /\ Encode(rec, ts, at).length = WireLength(rec)
         /\ Encode(rec, ts, at).timestamp = ts
         /\ Encode(rec, ts, at).type = rec.type
         /\ Encode(rec, ts, at).content = rec.content
<1>1. Micros(rec) \in Nat
  BY DEF Micros, MicroLen
<1>2. rec.body \in Nat /\ rec.declared \in Nat \cup {Computed}
  BY DEF MrtRecord
<1>3. WireLength(rec) \in Nat
  <2>1. CASE rec.declared # Computed
    BY <1>2, <2>1 DEF WireLength
  <2>2. CASE rec.declared = Computed
    <3>1. rec.body % U32 \in Nat
      BY <1>2, U32Assumption, ModRange
    <3>2. (rec.body % U32) + Micros(rec) \in Nat
      BY <1>1, <3>1
    <3>3. ((rec.body % U32) + Micros(rec)) % U32 \in Nat
      BY <3>2, U32Assumption, ModRange
    <3>4. QED
      BY <2>2, <3>3 DEF WireLength
  <2>3. QED
    BY <2>1, <2>2
<1>4. QED
  BY <1>1, <1>2, <1>3 DEF Encode, EncodedLen, HeaderLen, Chunks, MrtRecord

(* The Length field of an honest record counts what follows the header.    *)
LEMMA HonestLength ==
  ASSUME NEW rec \in MrtRecord, Honest(rec)
  PROVE  HeaderLen + WireLength(rec) = EncodedLen(rec)
<1>1. rec.body \in Nat /\ rec.body < U32 /\ U32 \in Nat
  BY U32Assumption DEF MrtRecord, Honest, MicroLen
<1>2. rec.body % U32 = rec.body
  BY <1>1, ModSmall
<1>3. rec.body + Micros(rec) \in Nat /\ rec.body + Micros(rec) < U32
  BY <1>1 DEF Honest, Micros, MicroLen
<1>4. (rec.body + Micros(rec)) % U32 = rec.body + Micros(rec)
  BY <1>1, <1>3, ModSmall
<1>5. WireLength(rec) = rec.body + Micros(rec)
  BY <1>2, <1>4 DEF WireLength, Honest
<1>6. QED
  BY <1>1, <1>5 DEF EncodedLen, HeaderLen, Micros, MicroLen

(* A record is stamped with a u32.                                         *)
LEMMA TimestampType ==
  ASSUME BuilderTypeOK
  PROVE  NextTimestamp \in 0 .. U32 - 1
<1>1. cfg.base \in Nat /\ Len(entries) \in Nat /\ U32 \in Nat /\ U32 > 0
  BY ConfigsAssumption, U32Assumption DEF BuilderTypeOK
<1>2. Len(entries) % U32 \in Nat
  BY <1>1, ModRange
<1>3. TimestampSum \in Nat
  BY <1>1, <1>2 DEF TimestampSum
<1>4. QED
  BY <1>1, <1>3, ModRange DEF NextTimestamp

-----------------------------------------------------------------------------
(* push and push_raw do the same thing to the file and the manifest: they  *)
(* append a piece that begins at the end of the file, and an entry that    *)
(* describes it.                                                           *)
Appends(c, r) ==
  /\ c \in Chunks /\ r \in Entries
  /\ c.at = end /\ c.size >= 1
  /\ r.index = Len(entries) /\ r.offset = end /\ r.size = c.size
  /\ r.timestamp = c.timestamp /\ r.type = c.type
  /\ r.expect = Emission.expect /\ c.content = Emission.rec.content
  /\ r.timestamp = NextTimestamp /\ TimestampFits
  /\ IF r.expect = "abort"
     THEN Len(entries) + 1 = Len(Program[cfg])
          /\ (c.size < HeaderLen \/ HeaderLen + c.length > c.size)
     ELSE Readable(c)
  /\ bytes' = Append(bytes, c)
  /\ end' = end + c.size
  /\ counts' = [counts EXCEPT ![r.expect] = @ + 1]
  /\ entries' = Append(entries, r)
  /\ UNCHANGED <<cfg, phase>>

(* A push appends the record it encodes, and its header can be trusted.    *)
LEMMA PushAppends ==
  ASSUME BuilderTypeOK, Push
  PROVE  \E c, r : Appends(c, r)
<1> DEFINE c == Encode(Emission.rec, NextTimestamp, end)
           r == Entry(Emission.rec, EncodedLen(Emission.rec), Emission.expect)
<1>1. Emission \in Emissions /\ Emission.expect # "abort" /\ Honest(Emission.rec)
  BY EmissionFacts DEF Push
<1>2. NextTimestamp \in 0 .. U32 - 1 /\ end \in Nat
  BY TimestampType DEF BuilderTypeOK
<1>3. Emission.rec \in MrtRecord
  BY <1>1 DEF Emissions
<1>4. /\ c \in Chunks
      /\ EncodedLen(Emission.rec) \in Nat
      /\ EncodedLen(Emission.rec) >= HeaderLen
      /\ c.at = end
      /\ c.size = EncodedLen(Emission.rec)
      /\ c.length = WireLength(Emission.rec)
      /\ c.timestamp = NextTimestamp
      /\ c.type = Emission.rec.type
      /\ c.content = Emission.rec.content
  BY <1>2, <1>3, FramingTypes
<1>5. Readable(c)
  BY <1>1, <1>3, <1>4, HonestLength DEF Readable
<1>6. Emission.rec.type \in MrtTypes /\ Emission.expect \in Expectations
  BY <1>1, <1>3 DEF Emissions, MrtRecord
<1>7. Len(entries) \in Nat
  BY DEF BuilderTypeOK
<1>8. r \in Entries
  BY <1>2, <1>4, <1>6, <1>7 DEF Entries, Entry
<1>9. c.size >= 1
  BY <1>4 DEF HeaderLen
<1>10. Appends(c, r)
  BY <1>1, <1>4, <1>5, <1>8, <1>9 DEF Appends, Push, Entry, Counted
<1>11. QED
  BY <1>10

(* A push_raw appends a piece no reader gets past, as the last one.        *)
LEMMA PushRawAppends ==
  ASSUME BuilderTypeOK, PushRaw
  PROVE  \E c, r : Appends(c, r)
<1> DEFINE whole == Encode(Emission.rec, NextTimestamp, end)
           c == Truncate(whole, Emission.keep)
           r == Entry(Emission.rec, c.size, "abort")
<1>1. /\ Emission \in Emissions /\ Emission.expect = "abort" /\ Unreadable(Emission)
      /\ Len(entries) + 1 = Len(Program[cfg])
  BY EmissionFacts DEF PushRaw
<1>2. NextTimestamp \in 0 .. U32 - 1 /\ end \in Nat
  BY TimestampType DEF BuilderTypeOK
<1>3. Emission.rec \in MrtRecord /\ Emission.keep \in Nat
  BY <1>1 DEF Emissions
<1>4. /\ whole \in Chunks
      /\ EncodedLen(Emission.rec) \in Nat
      /\ whole.at = end
      /\ whole.size = EncodedLen(Emission.rec)
      /\ whole.length = WireLength(Emission.rec)
      /\ whole.timestamp = NextTimestamp
      /\ whole.type = Emission.rec.type
      /\ whole.content = Emission.rec.content
  BY <1>2, <1>3, FramingTypes
<1>5. c = [whole EXCEPT !.size = Emission.keep]
  BY <1>1, <1>3, <1>4 DEF Truncate, Unreadable
<1>6. /\ c \in Chunks /\ c.at = end /\ c.size = Emission.keep /\ c.type = whole.type
      /\ c.length = whole.length /\ c.timestamp = NextTimestamp
      /\ c.content = Emission.rec.content
  BY <1>3, <1>4, <1>5 DEF Chunks
<1>7. c.size >= 1 /\ (c.size < HeaderLen \/ HeaderLen + c.length > c.size)
  BY <1>1, <1>3, <1>4, <1>6 DEF Unreadable
<1>8. Emission.rec.type \in MrtTypes
  BY <1>3 DEF MrtRecord
<1>9. Len(entries) \in Nat
  BY DEF BuilderTypeOK
<1>10. r \in Entries
  BY <1>2, <1>3, <1>6, <1>8, <1>9 DEF Entries, Entry, Expectations
<1>11. Appends(c, r)
  BY <1>1, <1>4, <1>6, <1>7, <1>10 DEF Appends, PushRaw, Entry, Counted
<1>12. QED
  BY <1>11

-----------------------------------------------------------------------------
(* Appending keeps the invariant of the builder.                           *)
LEMMA AppendKeepsBuilderInv ==
  ASSUME BuilderInv, Emitting, NEW c, NEW r, Appends(c, r)
  PROVE  BuilderInv'
<1> USE DEF BuilderInv
<1>1. /\ bytes \in Seq(Chunks) /\ entries \in Seq(Entries) /\ end \in Nat
      /\ c \in Chunks /\ r \in Entries
      /\ Len(entries) = Len(bytes) /\ Len(entries) \in Nat
      /\ Len(entries) < Len(Program[cfg]) /\ phase = "emit"
  BY DEF BuilderTypeOK, Appends, ManifestMatchesFile, Emitting
<1>2. /\ Len(entries') = Len(entries) + 1
      /\ Len(bytes') = Len(bytes) + 1
      /\ \A i \in 1 .. Len(entries) : entries'[i] = entries[i]
      /\ \A i \in 1 .. Len(bytes) : bytes'[i] = bytes[i]
      /\ entries'[Len(entries) + 1] = r
      /\ bytes'[Len(bytes) + 1] = c
  BY <1>1 DEF Appends
<1>3. cfg' = cfg /\ phase' = phase /\ end' = end + c.size
  BY DEF Appends
<1>4. BuilderTypeOK'
  <2>1. counts' \in [Expectations -> Nat]
    <3>1. counts \in [Expectations -> Nat]
      BY DEF BuilderTypeOK
    <3>2. r.expect \in Expectations
      BY <1>1 DEF Entries
    <3>3. counts' = [counts EXCEPT ![r.expect] = @ + 1]
      BY DEF Appends
    <3>4. counts[r.expect] + 1 \in Nat
      BY <3>1, <3>2
    <3>5. QED
      BY <3>1, <3>2, <3>3, <3>4
  <2>2. end' \in Nat
    BY <1>1, <1>3 DEF Chunks
  <2>3. bytes' \in Seq(Chunks) /\ entries' \in Seq(Entries)
    BY <1>1 DEF Appends
  <2>4. QED
    BY <1>3, <2>1, <2>2, <2>3 DEF BuilderTypeOK
<1>5. FromProgram'
  <2>1. /\ r.expect = Program[cfg][Len(entries) + 1].expect
        /\ c.content = Program[cfg][Len(entries) + 1].rec.content
    BY DEF Appends, Emission
  <2>2. ASSUME NEW i \in 1 .. Len(entries')
        PROVE  /\ entries'[i].expect = Program[cfg][i].expect
               /\ bytes'[i].content = Program[cfg][i].rec.content
    <3>1. CASE i = Len(entries) + 1
      BY <1>1, <1>2, <2>1, <3>1
    <3>2. CASE i # Len(entries) + 1
      <4>1. i \in 1 .. Len(entries) /\ entries'[i] = entries[i] /\ bytes'[i] = bytes[i]
        BY <1>1, <1>2, <3>2
      <4>2. QED
        BY <4>1 DEF FromProgram
    <3>3. QED
      BY <3>1, <3>2
  <2>3. Len(Program[cfg]) \in Nat
    BY ProgramAssumption DEF BuilderTypeOK
  <2>4. Len(entries') <= Len(Program[cfg]) /\ phase' # "done"
    BY <1>1, <1>2, <1>3, <2>3
  <2>5. QED
    BY <1>3, <2>2, <2>4 DEF FromProgram
<1>6. ManifestMatchesFile'
  <2> SUFFICES
        /\ \A i \in 1 .. Len(entries) + 1 :
             /\ entries'[i].index = i - 1
             /\ entries'[i].offset = (IF i = 1 THEN 0 ELSE EndOf(entries'[i - 1]))
             /\ entries'[i].offset = bytes'[i].at
             /\ entries'[i].size = bytes'[i].size
             /\ entries'[i].timestamp = bytes'[i].timestamp
             /\ entries'[i].type = bytes'[i].type
        /\ end' = EndOf(r)
    BY <1>1, <1>2 DEF ManifestMatchesFile, EndOf
  <2>1. ASSUME NEW i \in 1 .. Len(entries)
        PROVE  /\ entries'[i].index = i - 1
               /\ entries'[i].offset = (IF i = 1 THEN 0 ELSE EndOf(entries'[i - 1]))
               /\ entries'[i].offset = bytes'[i].at
               /\ entries'[i].size = bytes'[i].size
               /\ entries'[i].timestamp = bytes'[i].timestamp
               /\ entries'[i].type = bytes'[i].type
    BY <1>1, <1>2 DEF ManifestMatchesFile
  <2>2. /\ r.index = Len(entries)
        /\ r.offset = end /\ r.offset = c.at /\ r.size = c.size
        /\ r.timestamp = c.timestamp /\ r.type = c.type
    BY DEF Appends
  <2>3. end = (IF Len(entries) = 0 THEN 0 ELSE EndOf(entries[Len(entries)]))
    BY <1>1 DEF ManifestMatchesFile
  <2>4. end' = EndOf(r)
    BY <1>3, <2>2 DEF EndOf
  <2>5. ASSUME NEW i \in 1 .. Len(entries) + 1, i = Len(entries) + 1
        PROVE  /\ entries'[i].index = i - 1
               /\ entries'[i].offset = (IF i = 1 THEN 0 ELSE EndOf(entries'[i - 1]))
               /\ entries'[i].offset = bytes'[i].at
               /\ entries'[i].size = bytes'[i].size
               /\ entries'[i].timestamp = bytes'[i].timestamp
               /\ entries'[i].type = bytes'[i].type
    <3>1. entries'[i] = r /\ bytes'[i] = c
      BY <1>1, <1>2, <2>5
    <3>2. i # 1 => i - 1 = Len(entries) /\ entries'[i - 1] = entries[Len(entries)]
      BY <1>1, <1>2, <2>5
    <3>3. r.offset = (IF i = 1 THEN 0 ELSE EndOf(entries'[i - 1]))
      <4>1. CASE i = 1
        <5>1. Len(entries) = 0
          BY <1>1, <2>5, <4>1
        <5>2. QED
          BY <2>2, <2>3, <4>1, <5>1
      <4>2. CASE i # 1
        <5>1. Len(entries) # 0
          BY <1>1, <2>5, <4>2
        <5>2. QED
          BY <2>2, <2>3, <3>2, <4>2, <5>1
      <4>3. QED
        BY <4>1, <4>2
    <3>4. i - 1 = Len(entries)
      BY <1>1, <2>5
    <3>5. QED
      BY <2>2, <3>1, <3>3, <3>4
  <2>6. QED
    BY <1>1, <2>1, <2>4, <2>5
<1>7. Ordered'
  <2>1. c.size \in Nat /\ c.size >= 1 /\ c.at = end
    BY DEF Appends, Chunks
  <2>2. ASSUME NEW i \in 1 .. Len(bytes)
        PROVE  /\ bytes[i].at \in Nat /\ bytes[i].size \in Nat
               /\ bytes[i].size >= 1 /\ bytes[i].at + bytes[i].size <= end
    <3>1. bytes[i] \in Chunks
      BY <1>1
    <3>2. QED
      BY <3>1 DEF Chunks, Ordered
  <2>3. ASSUME NEW i \in 1 .. Len(bytes')
        PROVE  bytes'[i].size >= 1 /\ bytes'[i].at + bytes'[i].size <= end'
    <3>1. CASE i = Len(bytes) + 1
      BY <1>1, <1>2, <1>3, <2>1, <3>1
    <3>2. CASE i # Len(bytes) + 1
      <4>1. i \in 1 .. Len(bytes) /\ bytes'[i] = bytes[i]
        BY <1>1, <1>2, <3>2
      <4>2. QED
        BY <1>1, <1>3, <2>1, <2>2, <4>1
    <3>3. QED
      BY <3>1, <3>2
  <2>4. ASSUME NEW i \in 1 .. Len(bytes'), NEW j \in 1 .. Len(bytes'), i < j
        PROVE  bytes'[i].at + bytes'[i].size <= bytes'[j].at
    <3>1. i \in 1 .. Len(bytes) /\ bytes'[i] = bytes[i]
      BY <1>1, <1>2, <2>4
    <3>2. CASE j = Len(bytes) + 1
      BY <1>1, <1>2, <2>1, <2>2, <3>1, <3>2
    <3>3. CASE j # Len(bytes) + 1
      <4>1. j \in 1 .. Len(bytes) /\ bytes'[j] = bytes[j]
        BY <1>1, <1>2, <3>3
      <4>2. QED
        BY <2>4, <3>1, <4>1 DEF Ordered
    <3>4. QED
      BY <3>2, <3>3
  <2>5. QED
    BY <2>3, <2>4 DEF Ordered
<1>8. Trusted'
  <2>1. \A i \in 1 .. Len(entries) : entries[i].expect # "abort"
    BY <1>1 DEF Trusted
  <2>2. IF r.expect = "abort"
        THEN Len(entries) + 1 = Len(Program[cfg])
             /\ (c.size < HeaderLen \/ HeaderLen + c.length > c.size)
        ELSE Readable(c)
    BY DEF Appends
  <2>3. \A i \in 1 .. Len(entries) : Readable(bytes[i])
    BY <2>1 DEF Trusted
  <2>4. QED
    BY <1>1, <1>2, <1>3, <2>1, <2>2, <2>3 DEF Trusted
<1>9. QED
  BY <1>4, <1>5, <1>6, <1>7, <1>8

(* Appending an entry of class x adds one to the number of such entries.   *)
LEMMA AppendKeepsCounts ==
  ASSUME BuilderInv, CountsMatchEntries, Emitting, NEW c, NEW r, Appends(c, r)
  PROVE  CountsMatchEntries'
<1>1. /\ entries \in Seq(Entries) /\ r \in Entries /\ Len(entries) \in Nat
      /\ counts \in [Expectations -> Nat]
  BY DEF BuilderInv, BuilderTypeOK, Appends
<1> SUFFICES ASSUME NEW x \in Expectations
             PROVE  counts'[x] = Cardinality({i \in 1 .. Len(entries') : entries'[i].expect = x})
  BY DEF CountsMatchEntries
<1> DEFINE S == {i \in 1 .. Len(entries) : entries[i].expect = x}
           T == {i \in 1 .. Len(entries') : entries'[i].expect = x}
           k == Len(entries) + 1
<1>2. /\ Len(entries') = k /\ entries'[k] = r
      /\ \A i \in 1 .. Len(entries) : entries'[i] = entries[i]
  BY <1>1 DEF Appends
<1>3. counts[x] = Cardinality(S)
  BY DEF CountsMatchEntries
<1>4. IsFiniteSet(S)
  <2>1. IsFiniteSet(1 .. Len(entries))
    BY <1>1, FS_Interval
  <2>2. S \subseteq 1 .. Len(entries)
    OBVIOUS
  <2>3. QED
    BY <2>1, <2>2, FS_Subset
<1>5. r.expect \in Expectations
  BY <1>1 DEF Entries
<1>6. CASE r.expect = x
  <2>1. T = S \cup {k}
    BY <1>1, <1>2, <1>6
  <2>2. k \notin S
    BY <1>1
  <2>3. Cardinality(T) = Cardinality(S) + 1
    BY <1>4, <2>1, <2>2, FS_AddElement
  <2>4. counts'[x] = counts[x] + 1
    BY <1>1, <1>6 DEF Appends
  <2>5. QED
    BY <1>3, <2>3, <2>4
<1>7. CASE r.expect # x
  <2>1. T = S
    BY <1>1, <1>2, <1>7
  <2>2. counts'[x] = counts[x]
    BY <1>1, <1>5, <1>7 DEF Appends
  <2>3. QED
    BY <1>3, <2>1, <2>2
<1>8. QED
  BY <1>6, <1>7

(* The entry appended carries the timestamp of its index.                  *)
LEMMA AppendKeepsTimestamps ==
  ASSUME BuilderInv, TimestampsFollowIndex, Emitting, NEW c, NEW r, Appends(c, r)
  PROVE  TimestampsFollowIndex'
<1>1. /\ entries \in Seq(Entries) /\ r \in Entries /\ Len(entries) \in Nat
      /\ cfg.base \in Nat /\ U32 \in Nat /\ U32 > 0 /\ cfg' = cfg
  BY ConfigsAssumption, U32Assumption DEF BuilderInv, BuilderTypeOK, Appends
<1>2. /\ Len(entries') = Len(entries) + 1 /\ entries'[Len(entries) + 1] = r
      /\ \A i \in 1 .. Len(entries) : entries'[i] = entries[i]
  BY <1>1 DEF Appends
<1>3. r.timestamp = (cfg.base + Len(entries)) % U32
  BY <1>1, ModAdd DEF Appends, NextTimestamp, TimestampSum
<1>4. ASSUME cfg.checks, Len(entries) < U32
      PROVE  r.timestamp = cfg.base + Len(entries)
  <2>1. Len(entries) % U32 = Len(entries)
    BY <1>1, <1>4, ModSmall
  <2>2. cfg.base + Len(entries) < U32
    BY <1>4, <2>1 DEF Appends, TimestampFits, TimestampSum
  <2>3. (cfg.base + Len(entries)) % U32 = cfg.base + Len(entries)
    BY <1>1, <2>2, ModSmall
  <2>4. QED
    BY <1>3, <2>3
<1>5. ASSUME NEW i \in 1 .. Len(entries')
      PROVE  /\ entries'[i].timestamp = (cfg'.base + i - 1) % U32
             /\ cfg'.checks /\ i <= U32 => entries'[i].timestamp = cfg'.base + i - 1
  <2>1. CASE i = Len(entries) + 1
    <3>1. cfg.base + i - 1 = cfg.base + Len(entries) /\ entries'[i] = r
      BY <1>1, <1>2, <2>1
    <3>2. i <= U32 => Len(entries) < U32
      BY <1>1, <2>1
    <3>3. QED
      BY <1>1, <1>3, <1>4, <3>1, <3>2
  <2>2. CASE i # Len(entries) + 1
    <3>1. i \in 1 .. Len(entries) /\ entries'[i] = entries[i]
      BY <1>1, <1>2, <2>2
    <3>2. QED
      BY <1>1, <3>1 DEF TimestampsFollowIndex
  <2>3. QED
    BY <2>1, <2>2
<1>6. QED
  BY <1>5 DEF TimestampsFollowIndex

(* A step that leaves the file and the manifest alone keeps these facts.   *)
LEMMA QuietKeepsBuilderInv ==
  ASSUME BuilderInv, CountsMatchEntries, TimestampsFollowIndex,
         UNCHANGED <<cfg, bytes, end, entries, counts>>,
         phase' \in {"emit", "done", "panicked"},
         phase' = "done" => Len(entries) = Len(Program[cfg])
  PROVE  BuilderInv' /\ CountsMatchEntries' /\ TimestampsFollowIndex'
<1>1. BuilderTypeOK'
  BY DEF BuilderInv, BuilderTypeOK
<1>2. FromProgram'
  BY DEF BuilderInv, FromProgram
<1>3. ManifestMatchesFile'
  BY DEF BuilderInv, ManifestMatchesFile, EndOf
<1>4. Ordered' /\ Trusted'
  BY DEF BuilderInv, Ordered, Trusted, Readable
<1>5. CountsMatchEntries'
  BY DEF CountsMatchEntries
<1>6. TimestampsFollowIndex'
  BY DEF TimestampsFollowIndex
<1>7. QED
  BY <1>1, <1>2, <1>3, <1>4, <1>5, <1>6 DEF BuilderInv

-----------------------------------------------------------------------------
(* The reader, standing at the next entry, stands at that entry's octets   *)
(* and at no other header; what follows them is the entry after, or the    *)
(* end of the file.                                                        *)
LEMMA AtRecord ==
  ASSUME IInv, phase = "done", n < Len(entries)
  PROVE  /\ n + 1 \in 1 .. Len(bytes)
         /\ bytes[n + 1] \in Chunks
         /\ off = bytes[n + 1].at
         /\ bytes[n + 1].size >= 1
         /\ off + bytes[n + 1].size <= end
         /\ off + bytes[n + 1].size =
              (IF n + 1 = Len(entries) THEN end ELSE entries[n + 2].offset)
         /\ bytes[n + 1].size >= HeaderLen => LengthsAt(off) = {bytes[n + 1].length}
<1>1. /\ n \in Nat /\ Len(entries) \in Nat /\ Len(entries) = Len(bytes) /\ end \in Nat
      /\ bytes \in Seq(Chunks) /\ entries \in Seq(Entries)
  BY DEF IInv, WalkInv, BuilderInv, BuilderTypeOK, ManifestMatchesFile
<1>2. n + 1 \in 1 .. Len(bytes) /\ n + 1 \in 1 .. Len(entries)
  BY <1>1
<1>3. bytes[n + 1] \in Chunks
  BY <1>1, <1>2
<1>4. off = entries[n + 1].offset
  BY <1>1 DEF IInv, WalkInv
<1>5. off = bytes[n + 1].at /\ entries[n + 1].size = bytes[n + 1].size
  BY <1>2, <1>4 DEF IInv, BuilderInv, ManifestMatchesFile
<1>6. bytes[n + 1].size >= 1 /\ off + bytes[n + 1].size <= end
  BY <1>2, <1>5 DEF IInv, BuilderInv, Ordered
<1>7. off + bytes[n + 1].size =
        (IF n + 1 = Len(entries) THEN end ELSE entries[n + 2].offset)
  <2>1. off + bytes[n + 1].size = EndOf(entries[n + 1])
    BY <1>4, <1>5 DEF EndOf
  <2>2. CASE n + 1 = Len(entries)
    <3>1. end = EndOf(entries[n + 1])
      BY <1>1, <2>2 DEF IInv, BuilderInv, ManifestMatchesFile
    <3>2. QED
      BY <2>1, <2>2, <3>1
  <2>3. CASE n + 1 # Len(entries)
    <3>1. n + 2 \in 1 .. Len(entries) /\ n + 2 # 1 /\ (n + 2) - 1 = n + 1
      BY <1>1, <2>3
    <3>2. entries[n + 2].offset = EndOf(entries[(n + 2) - 1])
      BY <3>1 DEF IInv, BuilderInv, ManifestMatchesFile
    <3>3. QED
      BY <2>1, <2>3, <3>1, <3>2
  <2>4. QED
    BY <2>2, <2>3
<1>8. ASSUME bytes[n + 1].size >= HeaderLen
      PROVE  LengthsAt(off) = {bytes[n + 1].length}
  <2>1. ASSUME NEW i \in 1 .. Len(bytes), i # n + 1
        PROVE  bytes[i].at # off
    <3>1. bytes[i] \in Chunks
      BY <1>1
    <3>2. bytes[i].at \in Nat /\ bytes[i].size \in Nat /\ bytes[i].size >= 1
      BY <3>1 DEF IInv, BuilderInv, Ordered, Chunks
    <3>3. bytes[n + 1].at \in Nat /\ bytes[n + 1].size \in Nat
      BY <1>3 DEF Chunks
    <3>4. CASE i < n + 1
      <4>1. bytes[i].at + bytes[i].size <= bytes[n + 1].at
        BY <1>2, <3>4 DEF IInv, BuilderInv, Ordered
      <4>2. QED
        BY <1>5, <3>2, <3>3, <4>1
    <3>5. CASE n + 1 < i
      <4>1. bytes[n + 1].at + bytes[n + 1].size <= bytes[i].at
        BY <1>2, <3>5 DEF IInv, BuilderInv, Ordered
      <4>2. QED
        BY <1>5, <1>6, <3>2, <3>3, <4>1
    <3>6. QED
      BY <1>1, <2>1, <3>4, <3>5
  <2>2. HeadersAt(off) = {n + 1}
    BY <1>2, <1>5, <1>8, <2>1 DEF HeadersAt
  <2>3. QED
    BY <2>2 DEF LengthsAt
<1>9. QED
  BY <1>2, <1>3, <1>5, <1>6, <1>7, <1>8

(* Past the last entry there is nothing left to read, before it there is.  *)
LEMMA AtEnd ==
  ASSUME IInv, phase = "done"
  PROVE  off < end <=> n < Len(entries)
<1>1. n \in Nat /\ Len(entries) \in Nat /\ n <= Len(entries) /\ off \in Nat /\ end \in Nat
  BY DEF IInv, WalkInv, BuilderInv, BuilderTypeOK
<1>2. CASE n = Len(entries)
  BY <1>1, <1>2 DEF IInv, WalkInv
<1>3. CASE n < Len(entries)
  BY <1>1, <1>3, AtRecord DEF Chunks
<1>4. QED
  BY <1>1, <1>2, <1>3

(* The class of the entry the reader stands at decides what it can do:     *)
(* step over it, or stop because it is the abort-class tail.               *)
LEMMA ClassDecides ==
  ASSUME IInv, phase = "done", n < Len(entries)
  PROVE  IF entries[n + 1].expect = "abort"
         THEN /\ n + 1 = Len(entries)
              /\ \/ end - off < HeaderLen
                 \/ \A len \in LengthsAt(off) : off + HeaderLen + len > end
         ELSE /\ end - off >= HeaderLen
              /\ \A len \in LengthsAt(off) : off + HeaderLen + len = off + bytes[n + 1].size
<1>1. /\ n \in Nat /\ off \in Nat /\ end \in Nat
      /\ Len(entries) \in Nat /\ Len(entries) = Len(bytes)
      /\ Len(entries) = Len(Program[cfg])
  BY DEF IInv, WalkInv, BuilderInv, BuilderTypeOK, ManifestMatchesFile, FromProgram
<1>2. /\ n + 1 \in 1 .. Len(entries)
      /\ bytes[n + 1].size \in Nat /\ bytes[n + 1].length \in Nat
      /\ off + bytes[n + 1].size <= end
      /\ off + bytes[n + 1].size = (IF n + 1 = Len(entries) THEN end ELSE entries[n + 2].offset)
      /\ bytes[n + 1].size >= HeaderLen => LengthsAt(off) = {bytes[n + 1].length}
  BY <1>1, AtRecord DEF Chunks
<1>3. CASE entries[n + 1].expect = "abort"
  <2>1. /\ n + 1 = Len(entries)
        /\ bytes[n + 1].size < HeaderLen \/ HeaderLen + bytes[n + 1].length > bytes[n + 1].size
    BY <1>1, <1>2, <1>3 DEF IInv, BuilderInv, Trusted
  <2>2. end = off + bytes[n + 1].size
    BY <1>2, <2>1
  <2>3. CASE bytes[n + 1].size < HeaderLen
    <3>1. end - off < HeaderLen
      BY <1>1, <1>2, <2>2, <2>3 DEF HeaderLen
    <3>2. QED
      BY <1>3, <2>1, <3>1
  <2>4. CASE bytes[n + 1].size >= HeaderLen
    <3>1. HeaderLen + bytes[n + 1].length > bytes[n + 1].size
      BY <1>2, <2>1, <2>4 DEF HeaderLen
    <3>2. off + HeaderLen + bytes[n + 1].length > end
      BY <1>1, <1>2, <2>2, <3>1 DEF HeaderLen
    <3>3. LengthsAt(off) = {bytes[n + 1].length}
      BY <1>2, <2>4
    <3>4. \A len \in LengthsAt(off) : off + HeaderLen + len > end
      BY <3>2, <3>3
    <3>5. QED
      BY <1>3, <2>1, <3>4
  <2>5. QED
    BY <1>2, <2>3, <2>4 DEF HeaderLen
<1>4. CASE entries[n + 1].expect # "abort"
  <2>1. Readable(bytes[n + 1])
    BY <1>2, <1>4 DEF IInv, BuilderInv, Trusted
  <2>2. bytes[n + 1].size >= HeaderLen /\ HeaderLen + bytes[n + 1].length = bytes[n + 1].size
    BY <1>2, <2>1 DEF Readable, HeaderLen
  <2>3. end - off >= HeaderLen
    BY <1>1, <1>2, <2>2 DEF HeaderLen
  <2>4. off + HeaderLen + bytes[n + 1].length = off + bytes[n + 1].size
    BY <1>1, <1>2, <2>2 DEF HeaderLen
  <2>5. LengthsAt(off) = {bytes[n + 1].length}
    BY <1>2, <2>2
  <2>6. QED
    BY <1>4, <2>3, <2>4, <2>5
<1>5. QED
  BY <1>3, <1>4

-----------------------------------------------------------------------------
(***************************************************************************)
(* The invariant holds initially and every step keeps it.                  *)
(***************************************************************************)
(* An empty file, an empty manifest and a reader that has not begun.       *)
LEMMA InitInv == Init => IInv
<1> SUFFICES ASSUME Init PROVE IInv
  OBVIOUS
<1> USE DEF Init, BuilderInit
<1>1. Len(entries) = 0 /\ Len(bytes) = 0
  OBVIOUS
<1>2. BuilderTypeOK
  BY DEF BuilderTypeOK
<1>3. FromProgram
  <2>1. Len(Program[cfg]) \in Nat
    BY ProgramAssumption
  <2>2. QED
    BY <1>1, <2>1 DEF FromProgram
<1>4. ManifestMatchesFile
  BY <1>1 DEF ManifestMatchesFile
<1>5. Ordered /\ Trusted
  BY <1>1 DEF Ordered, Trusted
<1>6. WalkInv
  BY <1>1 DEF WalkInv
<1>7. CountsMatchEntries
  <2>1. ASSUME NEW x \in Expectations
        PROVE  counts[x] = Cardinality({i \in 1 .. Len(entries) : entries[i].expect = x})
    <3>1. {i \in 1 .. Len(entries) : entries[i].expect = x} = {}
      BY <1>1
    <3>2. QED
      BY <3>1, FS_EmptySet
  <2>2. QED
    BY <2>1 DEF CountsMatchEntries
<1>8. TimestampsFollowIndex
  BY <1>1 DEF TimestampsFollowIndex
<1>9. QED
  BY <1>2, <1>3, <1>4, <1>5, <1>6, <1>7, <1>8 DEF IInv, BuilderInv

(* Push and push_raw, while the reader has not begun.                      *)
LEMMA AppendKeepsIInv ==
  ASSUME IInv, Emitting, UNCHANGED walkVars, NEW c, NEW r, Appends(c, r)
  PROVE  IInv'
<1>1. BuilderInv' /\ CountsMatchEntries' /\ TimestampsFollowIndex'
  BY AppendKeepsBuilderInv, AppendKeepsCounts, AppendKeepsTimestamps DEF IInv
<1>2. phase' = "emit" /\ phase = "emit"
  BY DEF Emitting, Appends
<1>3. Len(entries') \in Nat
  BY <1>1 DEF BuilderInv, BuilderTypeOK
<1>4. WalkInv'
  BY <1>2, <1>3 DEF IInv, WalkInv, walkVars
<1>5. QED
  BY <1>1, <1>4 DEF IInv

(* A panic, and the closing of the manifest.                               *)
LEMMA PhaseKeepsIInv ==
  ASSUME IInv, Panic \/ CloseManifest, UNCHANGED walkVars
  PROVE  IInv'
<1>1. /\ UNCHANGED <<cfg, bytes, end, entries, counts>> /\ phase = "emit"
      /\ phase' = "panicked" \/ (phase' = "done" /\ Len(entries) = Len(Program[cfg]))
  BY DEF Panic, CloseManifest, Emitting
<1>2. BuilderInv' /\ CountsMatchEntries' /\ TimestampsFollowIndex'
  BY <1>1, QuietKeepsBuilderInv DEF IInv
<1>3. off = 0 /\ n = 0 /\ verdict = "walking"
  BY <1>1 DEF IInv, WalkInv
<1>4. 0 = (IF 0 = Len(entries) THEN end ELSE entries[0 + 1].offset)
  <2>1. end = (IF entries = << >> THEN 0 ELSE EndOf(entries[Len(entries)]))
        /\ Len(entries) \in Nat /\ entries \in Seq(Entries)
    BY DEF IInv, BuilderInv, ManifestMatchesFile, BuilderTypeOK
  <2>2. CASE Len(entries) = 0
    BY <2>1, <2>2
  <2>3. CASE Len(entries) # 0
    <3>1. 1 \in 1 .. Len(entries)
      BY <2>1, <2>3
    <3>2. entries[1].offset = 0
      BY <3>1 DEF IInv, BuilderInv, ManifestMatchesFile
    <3>3. QED
      BY <2>3, <3>2
  <2>4. QED
    BY <2>2, <2>3
<1>5. WalkInv'
  BY <1>1, <1>3, <1>4 DEF IInv, WalkInv, walkVars
<1>6. QED
  BY <1>2, <1>5 DEF IInv

(* The reader's steps.                                                     *)
LEMMA WalkKeepsIInv ==
  ASSUME IInv, Walk
  PROVE  IInv'
<1>1. UNCHANGED builderVars /\ phase = "done"
  BY DEF Walk, WalkRecord, WalkTruncatedHeader, WalkOverrun, WalkEof, Walking
<1>2. BuilderInv' /\ CountsMatchEntries' /\ TimestampsFollowIndex'
  <2>1. Len(entries) = Len(Program[cfg])
    BY <1>1 DEF IInv, BuilderInv, FromProgram
  <2>2. QED
    BY <1>1, <2>1, QuietKeepsBuilderInv DEF IInv, builderVars
<1>3. /\ n \in Nat /\ off \in Nat /\ end \in Nat /\ Len(entries) \in Nat /\ n <= Len(entries)
      /\ \A i \in 1 .. n : entries[i].expect # "abort"
      /\ off = (IF n = Len(entries) THEN end ELSE entries[n + 1].offset)
  BY <1>1 DEF IInv, WalkInv, BuilderInv, BuilderTypeOK
<1>4. off < end <=> n < Len(entries)
  BY <1>1, AtEnd
<1>5. CASE WalkRecord
  <2>1. n < Len(entries) /\ end - off >= HeaderLen /\ n' = n + 1 /\ verdict' = "walking"
    BY <1>4, <1>5 DEF WalkRecord, Walking
  <2>2. PICK len \in LengthsAt(off) :
          off + HeaderLen + len <= end /\ off' = off + HeaderLen + len
    BY <1>5 DEF WalkRecord
  <2>3. len \in Nat
    <3>1. ASSUME NEW i \in 1 .. Len(bytes) PROVE bytes[i].length \in Nat
      <4>1. bytes[i] \in Chunks
        BY DEF IInv, BuilderInv, BuilderTypeOK
      <4>2. QED
        BY <4>1 DEF Chunks
    <3>2. QED
      BY <2>2, <3>1, U32Assumption DEF LengthsAt, HeadersAt
  <2>4. entries[n + 1].expect # "abort"
    <3>1. ~ (end - off < HeaderLen) /\ ~ (off + HeaderLen + len > end)
      BY <1>3, <2>1, <2>2, <2>3 DEF HeaderLen
    <3>2. QED
      BY <1>1, <2>1, <2>2, <3>1, ClassDecides
  <2>5. off' = off + bytes[n + 1].size
    BY <1>1, <2>1, <2>2, <2>4, ClassDecides
  <2>6. /\ off' = (IF n + 1 = Len(entries) THEN end ELSE entries[(n + 1) + 1].offset)
        /\ off' \in Nat
    <3>1. (n + 1) + 1 = n + 2
      BY <1>3
    <3>2. bytes[n + 1].size \in Nat
      BY <1>1, <2>1, AtRecord DEF Chunks
    <3>3. QED
      BY <1>1, <1>3, <2>1, <2>5, <3>1, <3>2, AtRecord
  <2>7. \A i \in 1 .. n + 1 : entries[i].expect # "abort"
    BY <1>3, <2>4
  <2>8. WalkInv'
    BY <1>1, <1>3, <2>1, <2>6, <2>7 DEF WalkInv, builderVars
  <2>9. QED
    BY <1>2, <2>8 DEF IInv
<1>6. CASE WalkTruncatedHeader \/ WalkOverrun
  <2>1. n < Len(entries) /\ UNCHANGED <<off, n>> /\ verdict' = "broken"
    BY <1>4, <1>6 DEF WalkTruncatedHeader, WalkOverrun, Walking
  <2>2. entries[n + 1].expect = "abort"
    <3> SUFFICES ASSUME entries[n + 1].expect # "abort" PROVE FALSE
      OBVIOUS
    <3>1. /\ end - off >= HeaderLen
          /\ \A len \in LengthsAt(off) : off + HeaderLen + len = off + bytes[n + 1].size
      BY <1>1, <2>1, ClassDecides
    <3>2. off + bytes[n + 1].size <= end /\ bytes[n + 1].size \in Nat
      BY <1>1, <2>1, AtRecord DEF Chunks
    <3>3. QED
      BY <1>3, <1>6, <3>1, <3>2 DEF WalkTruncatedHeader, WalkOverrun, HeaderLen
  <2>3. n + 1 = Len(entries)
    BY <1>1, <2>1, <2>2, ClassDecides
  <2>4. WalkInv'
    BY <1>1, <1>3, <2>1, <2>2, <2>3 DEF WalkInv, builderVars
  <2>5. QED
    BY <1>2, <2>4 DEF IInv
<1>7. CASE WalkEof
  <2>1. n = Len(entries) /\ UNCHANGED <<off, n>> /\ verdict' = "clean"
    BY <1>3, <1>4, <1>7 DEF WalkEof, Walking
  <2>2. WalkInv'
    BY <1>1, <1>3, <2>1 DEF WalkInv, builderVars
  <2>3. QED
    BY <1>2, <2>2 DEF IInv
<1>8. QED
  BY <1>5, <1>6, <1>7 DEF Walk

(* Every step, and every stutter, keeps the invariant.                     *)
LEMMA NextInv == IInv /\ [Next]_vars => IInv'
<1> SUFFICES ASSUME IInv, [Next]_vars PROVE IInv'
  OBVIOUS
<1>1. BuilderTypeOK
  BY DEF IInv, BuilderInv
<1>2. CASE Push /\ UNCHANGED walkVars
  BY <1>1, <1>2, PushAppends, AppendKeepsIInv DEF Push
<1>3. CASE PushRaw /\ UNCHANGED walkVars
  BY <1>1, <1>3, PushRawAppends, AppendKeepsIInv DEF PushRaw
<1>4. CASE (Panic \/ CloseManifest) /\ UNCHANGED walkVars
  BY <1>4, PhaseKeepsIInv
<1>5. CASE Walk
  BY <1>5, WalkKeepsIInv
<1>6. CASE UNCHANGED vars
  <2>1. UNCHANGED builderVars /\ UNCHANGED walkVars
    BY <1>6 DEF vars
  <2>2. BuilderInv' /\ CountsMatchEntries' /\ TimestampsFollowIndex'
    BY <2>1, QuietKeepsBuilderInv
    DEF builderVars, IInv, BuilderInv, BuilderTypeOK, FromProgram
  <2>3. WalkInv'
    BY <2>1 DEF builderVars, walkVars, IInv, WalkInv
  <2>4. QED
    BY <2>2, <2>3 DEF IInv
<1>7. QED
  BY <1>2, <1>3, <1>4, <1>5, <1>6 DEF Next, BuilderNext

(* The inductive invariant holds throughout every behaviour.               *)
THEOREM SpecInv == Spec => []IInv
BY InitInv, NextInv, PTL DEF Spec
-----------------------------------------------------------------------------
(***************************************************************************)
(* What the invariant is for.                                              *)
(***************************************************************************)

(* The state of the builder and of the reader is well-formed throughout.   *)
THEOREM TypeCorrect == Spec => []TypeOK
<1>1. IInv => TypeOK
  BY DEF IInv, BuilderInv, WalkInv, TypeOK
<1>2. QED
  BY <1>1, SpecInv, PTL

(* The manifest describes the file, at every moment of a run, whatever     *)
(* records are pushed.                                                     *)
THEOREM ManifestDescribesFile == Spec => []ManifestMatchesFile
<1>1. IInv => ManifestMatchesFile
  BY DEF IInv, BuilderInv
<1>2. QED
  BY <1>1, SpecInv, PTL

(* The counts block never disagrees with the entries.                      *)
THEOREM CountsAreRight == Spec => []CountsMatchEntries
<1>1. IInv => CountsMatchEntries
  BY DEF IInv
<1>2. QED
  BY <1>1, SpecInv, PTL

(* Record N is stamped base_timestamp + N modulo 2^32, and never wraps in  *)
(* a build that checks.                                                    *)
THEOREM TimestampsAreRight == Spec => []TimestampsFollowIndex
<1>1. IInv => TimestampsFollowIndex
  BY DEF IInv
<1>2. QED
  BY <1>1, SpecInv, PTL

(* The reader of the test suite never loses step with the manifest.        *)
THEOREM ReaderInStep == Spec => []WalkInStep
<1>1. IInv => WalkInStep
  BY DEF IInv, WalkInv, WalkInStep
<1>2. QED
  BY <1>1, SpecInv, PTL

(* A corpus without an abort-class tail is walked to its end and one with  *)
(* a tail exactly to the tail.                                             *)
THEOREM ReaderFindsEveryRecord == Spec => []WalkFindsEveryRecord
<1>1. ASSUME IInv PROVE WalkFindsEveryRecord
  <2> DEFINE S == {i \in 1 .. Len(entries) : entries[i].expect = "abort"}
  <2>1. counts["abort"] = Cardinality(S)
    BY <1>1 DEF IInv, CountsMatchEntries, Expectations
  <2>2. /\ \A i \in 1 .. n : entries[i].expect # "abort"
        /\ n \in Nat /\ Len(entries) \in Nat
    BY <1>1 DEF IInv, WalkInv, BuilderInv, BuilderTypeOK
  <2>3. ASSUME verdict = "clean" PROVE n = Len(entries) /\ counts["abort"] = 0
    <3>1. n = Len(entries)
      BY <1>1, <2>3 DEF IInv, WalkInv
    <3>2. S = {}
      BY <2>2, <3>1
    <3>3. QED
      BY <2>1, <3>1, <3>2, FS_EmptySet
  <2>4. ASSUME verdict = "broken" PROVE n + 1 = Len(entries) /\ counts["abort"] = 1
    <3>1. n + 1 = Len(entries) /\ entries[n + 1].expect = "abort"
      BY <1>1, <2>4 DEF IInv, WalkInv
    <3>2. S = {n + 1}
      BY <2>2, <3>1
    <3>3. QED
      BY <2>1, <3>1, <3>2, FS_Singleton
  <2>5. QED
    BY <2>3, <2>4 DEF WalkFindsEveryRecord
<1>2. QED
  BY <1>1, SpecInv, PTL

-----------------------------------------------------------------------------
(***************************************************************************)
(* Builder and reader implement the stream of module RecordStream.         *)
(***************************************************************************)
Stream == [i \in 1 .. Len(entries) |-> entries[i].expect]

(* A push writes one record to the stream, while nothing in it is damage.  *)
LEMMA AppendWrites ==
  ASSUME IInv, Emitting, UNCHANGED walkVars, NEW c, NEW r, Appends(c, r)
  PROVE  Promise!Next
<1>1. /\ entries \in Seq(Entries) /\ r \in Entries /\ Len(entries) \in Nat
      /\ Len(entries) < Len(Program[cfg])
      /\ phase = "emit" /\ phase' = "emit" /\ entries' = Append(entries, r)
  BY DEF IInv, BuilderInv, BuilderTypeOK, Emitting, Appends
<1>2. r.expect \in Expectations
  BY <1>1 DEF Entries
<1>3. Stream' = Append(Stream, r.expect)
  <2>1. Len(entries') = Len(entries) + 1
        /\ \A i \in 1 .. Len(entries') :
             entries'[i] = IF i = Len(entries) + 1 THEN r ELSE entries[i]
    BY <1>1
  <2>2. Stream \in Seq(Expectations) /\ Len(Stream) = Len(entries)
    <3>1. \A i \in 1 .. Len(entries) : entries[i].expect \in Expectations
      <4>1. \A i \in 1 .. Len(entries) : entries[i] \in Entries
        BY <1>1
      <4>2. QED
        BY <4>1 DEF Entries
    <3>2. QED
      BY <1>1, <3>1 DEF Stream
  <2>3. QED
    BY <1>1, <1>2, <2>1, <2>2 DEF Stream
<1>4. \A i \in 1 .. Len(entries) : entries[i].expect # "abort"
  BY <1>1 DEF IInv, BuilderInv, Trusted
<1>5. Promise!Write(r.expect)
  BY <1>1, <1>3, <1>4 DEF Promise!Write, Promise!Damaged, Stream, walkVars
<1>6. QED
  BY <1>2, <1>5 DEF Promise!Next

(* The reader's steps are the reader's steps of the stream.                *)
LEMMA WalkReads ==
  ASSUME IInv, IInv', Walk
  PROVE  Promise!Next
<1>1. /\ UNCHANGED builderVars /\ phase = "done" /\ verdict = "walking"
      /\ n \in Nat /\ Len(entries) \in Nat
  BY DEF Walk, WalkRecord, WalkTruncatedHeader, WalkOverrun, WalkEof, Walking,
         IInv, WalkInv, BuilderInv, BuilderTypeOK
<1>2. entries' = entries /\ phase' = "done"
  BY <1>1 DEF builderVars
<1>3. CASE WalkRecord
  <2>1. n' = n + 1 /\ verdict' = verdict
    BY <1>3 DEF WalkRecord
  <2>2. n + 1 <= Len(entries) /\ entries[n + 1].expect # "abort"
    <3>1. n' <= Len(entries') /\ \A i \in 1 .. n' : entries'[i].expect # "abort"
      BY DEF IInv, WalkInv
    <3>2. QED
      BY <1>1, <1>2, <2>1, <3>1
  <2>3. Promise!Deliver
    BY <1>1, <1>2, <2>1, <2>2 DEF Promise!Deliver
  <2>4. QED
    BY <2>3 DEF Promise!Next
<1>4. CASE WalkTruncatedHeader \/ WalkOverrun
  <2>1. n' = n /\ verdict' = "broken"
    BY <1>4 DEF WalkTruncatedHeader, WalkOverrun
  <2>2. n + 1 = Len(entries) /\ entries[n + 1].expect = "abort"
    BY <1>2, <2>1 DEF IInv, WalkInv
  <2>3. Promise!EndBroken
    BY <1>1, <1>2, <2>1, <2>2 DEF Promise!EndBroken
  <2>4. QED
    BY <2>3 DEF Promise!Next
<1>5. CASE WalkEof
  <2>1. n' = n /\ verdict' = "clean"
    BY <1>5 DEF WalkEof
  <2>2. n = Len(entries)
    BY <1>2, <2>1 DEF IInv, WalkInv
  <2>3. Promise!EndClean
    BY <1>1, <1>2, <2>1, <2>2 DEF Promise!EndClean
  <2>4. QED
    BY <2>3 DEF Promise!Next
<1>6. QED
  BY <1>3, <1>4, <1>5 DEF Walk

(* The empty file is the empty stream.                                     *)
LEMMA InitPromise == Init => Promise!Init
<1> SUFFICES ASSUME Init PROVE Promise!Init
  OBVIOUS
<1>1. Len(entries) = 0 /\ phase # "done" /\ n = 0 /\ verdict = "walking"
  BY DEF Init, BuilderInit
<1>2. Stream = << >>
  BY <1>1 DEF Stream
<1>3. QED
  BY <1>1, <1>2 DEF Promise!Init, Stream

(* Every step is a step of the stream or changes nothing of it.            *)
LEMMA NextPromise == IInv /\ IInv' /\ [Next]_vars => [Promise!Next]_(Promise!streamVars)
<1> SUFFICES ASSUME IInv, IInv', [Next]_vars
             PROVE  Promise!Next \/ UNCHANGED Promise!streamVars
  OBVIOUS
<1>1. BuilderTypeOK
  BY DEF IInv, BuilderInv
<1>2. CASE Push /\ UNCHANGED walkVars
  BY <1>1, <1>2, PushAppends, AppendWrites DEF Push
<1>3. CASE PushRaw /\ UNCHANGED walkVars
  BY <1>1, <1>3, PushRawAppends, AppendWrites DEF PushRaw
<1>4. CASE Panic /\ UNCHANGED walkVars
  BY <1>4 DEF Panic, Emitting, walkVars, Promise!streamVars
<1>5. CASE CloseManifest /\ UNCHANGED walkVars
  <2>1. Promise!Close
    BY <1>5 DEF CloseManifest, walkVars, Promise!Close
  <2>2. QED
    BY <2>1 DEF Promise!Next
<1>6. CASE Walk
  BY <1>6, WalkReads
<1>7. CASE UNCHANGED vars
  BY <1>7 DEF vars, builderVars, walkVars, Promise!streamVars
<1>8. QED
  BY <1>2, <1>3, <1>4, <1>5, <1>6, <1>7 DEF Next, BuilderNext

(* Whatever is pushed, writing the corpus and walking it is writing and    *)
(* reading a stream of records: no record that is not abort-class is lost, *)
(* split or invented on the way through the octets.                        *)
THEOREM ImplementsRecordStream == Spec => StreamPromise
BY SpecInv, InitPromise, NextPromise, PTL DEF Spec, StreamPromise, Promise!Spec
-----------------------------------------------------------------------------
(***************************************************************************)
(* What the records of generate_profile mean: PeerIndicesAreRight, at the  *)
(* end, is the only theorem about the program the generator runs.          *)
(***************************************************************************)

(* The peers a table declares or an entry refers to, or none.              *)
Peers == Nat \cup {NoPeer}

(* A record of class c with this table, or referring to this peer.         *)
Sorted(e, c, table, top) ==
  /\ e \in Emissions /\ e.expect = c
  /\ e.rec.content.table = table /\ e.rec.content.top = top

(* A number of peers and a peer index are numbers, -1 for none.            *)
LEMMA ContentsAreNumbers ==
  ASSUME NEW e \in Emissions
  PROVE  e.rec.content.table \in Int /\ e.rec.content.top \in Int
<1>1. e.rec \in MrtRecord
  BY DEF Emissions
<1>2. e.rec.content \in Contents
  BY <1>1 DEF MrtRecord
<1>3. NoPeer \in Int
  BY DEF NoPeer
<1>4. Nat \cup {NoPeer} \subseteq Int
  BY <1>3
<1>5. QED
  BY <1>2, <1>4 DEF Contents

(* Every record of the sections is built by Case.                          *)
LEMMA CaseShape ==
  ASSUME NEW type \in MrtTypes, NEW us \in BOOLEAN,
         NEW class \in Expectations, NEW table \in Peers, NEW top \in Peers
  PROVE  Sorted(Case(type, class, us, table, top), class, table, top)
<1> DEFINE content == [table |-> table, top |-> top]
           rec == [type |-> type, us |-> us, body |-> BodyLen[type],
                   content |-> content, declared |-> Computed]
           e == [rec |-> rec, expect |-> class, raw |-> FALSE, keep |-> 0]
<1>1. content \in Contents /\ content.table = table /\ content.top = top
  BY DEF Contents, Peers
<1>2. BodyLen[type] \in Nat
  BY SectionsAssumption
<1>3. e = Case(type, class, us, table, top)
  BY Zenon DEF Case
<1> HIDE DEF content
<1>4. rec \in MrtRecord /\ rec.content = content
  BY <1>1, <1>2 DEF MrtRecord
<1> HIDE DEF rec
<1>5. e \in Emissions /\ e.expect = class /\ e.rec = rec
  BY <1>4 DEF Emissions
<1> HIDE DEF e
<1>6. QED
  BY <1>1, <1>3, <1>4, <1>5, Zenon DEF Sorted

(* Behind a table of CorpusPeers these mean what their class says; and     *)
(* these do not refer to the peer that does not exist.                     *)
Resolving ==
  {e \in Emissions : e.expect = "valid" =>
     e.rec.content.table = NoPeer /\ e.rec.content.top < CorpusPeers}

NotAstray == {e \in Emissions : e.expect = "skip" => e.rec.content.top # BadPeerIndex}

(* Which of the two sets the constructors of the sections build for.       *)
LEMMA CasesAreSorted ==
  ASSUME NEW type \in MrtTypes, NEW class \in {"valid", "skip"}, NEW k \in Nat
  PROVE  /\ Plain(type, class) \in Resolving \cap NotAstray
         /\ Et(type, class) \in Resolving \cap NotAstray
         /\ PeerTable("skip", k) \in Resolving \cap NotAstray
         /\ PeerTable(class, k) \in NotAstray
         /\ Rib("skip", k) \in Resolving /\ Rib(class, NoPeer) \in Resolving \cap NotAstray
         /\ k < CorpusPeers => Rib(class, k) \in Resolving
         /\ k # BadPeerIndex => Rib(class, k) \in NotAstray
<1>1. /\ class \in Expectations /\ "valid" \in Expectations /\ "skip" \in Expectations
      /\ "TABLE_DUMP_V2" \in MrtTypes
  BY DEF Expectations, MrtTypes
<1>2. k \in Peers /\ NoPeer \in Peers
  BY DEF Peers
<1>3. NoPeer = -1 /\ CorpusPeers = 4 /\ BadPeerIndex = 99
  BY DEF NoPeer, CorpusPeers, BadPeerIndex
<1>4. NoPeer < CorpusPeers /\ NoPeer # BadPeerIndex
  BY <1>3
<1>5. ASSUME NEW e, NEW c, NEW table, Sorted(e, c, table, NoPeer)
      PROVE  /\ e \in NotAstray
             /\ c = "skip" \/ table = NoPeer => e \in Resolving
  BY <1>4, <1>5 DEF Resolving, NotAstray, Sorted
<1>6. ASSUME NEW e, NEW c, Sorted(e, c, NoPeer, k)
      PROVE  /\ c = "skip" \/ k < CorpusPeers => e \in Resolving
             /\ k # BadPeerIndex => e \in NotAstray
  BY <1>4, <1>6 DEF Resolving, NotAstray, Sorted
<1>7. TRUE \in BOOLEAN /\ FALSE \in BOOLEAN
  OBVIOUS
<1>8. /\ Sorted(Plain(type, class), class, NoPeer, NoPeer)
      /\ Sorted(Et(type, class), class, NoPeer, NoPeer)
  BY <1>1, <1>2, <1>7, CaseShape DEF Plain, Et
<1>9. /\ Sorted(PeerTable("skip", k), "skip", k, NoPeer)
      /\ Sorted(PeerTable(class, k), class, k, NoPeer)
      /\ Sorted(Rib("skip", k), "skip", NoPeer, k)
      /\ Sorted(Rib(class, NoPeer), class, NoPeer, NoPeer)
      /\ Sorted(Rib(class, k), class, NoPeer, k)
  BY <1>1, <1>2, <1>7, CaseShape DEF PeerTable, Rib
<1>10. /\ Plain(type, class) \in Resolving \cap NotAstray
       /\ Et(type, class) \in Resolving \cap NotAstray
  BY <1>5, <1>8, Zenon
<1>11. /\ PeerTable("skip", k) \in Resolving \cap NotAstray
       /\ PeerTable(class, k) \in NotAstray
  BY <1>5, <1>9, Zenon
<1>12. /\ Rib("skip", k) \in Resolving /\ Rib(class, NoPeer) \in Resolving \cap NotAstray
       /\ k < CorpusPeers => Rib(class, k) \in Resolving
       /\ k # BadPeerIndex => Rib(class, k) \in NotAstray
  BY <1>5, <1>6, <1>9, Zenon
<1>13. QED
  BY <1>10, <1>11, <1>12

(* Sections are repeated cases, optional parts and concatenations.         *)
LEMMA TimesIn ==
  ASSUME NEW S, NEW k \in Nat, NEW case \in S
  PROVE  Times(k, case) \in Seq(S) /\ Len(Times(k, case)) = k
BY DEF Times

(* A section that is switched off is empty.                                *)
LEMMA WhenIn ==
  ASSUME NEW S, NEW s, NEW cond, cond => s \in Seq(S)
  PROVE  When(cond, s) \in Seq(S)
BY DEF When

(* Two sections of a set make one.                                         *)
LEMMA JoinIn ==
  ASSUME NEW S, NEW s \in Seq(S), NEW r \in Seq(S)
  PROVE  s \o r \in Seq(S)
OBVIOUS

(* A sequence of one case of its own, and then cases of a set.             *)
Headed(s, head, S) ==
  /\ s \in Seq(S \cup {head}) /\ s # << >> /\ s[1] = head
  /\ \A i \in 2 .. Len(s) : s[i] \in S

(* The case alone, and whatever follows it.                                *)
LEMMA HeadedBegins ==
  ASSUME NEW S, NEW head
  PROVE  Headed(<<head>>, head, S)
BY DEF Headed

(* What follows the first case is still of the set.                        *)
LEMMA HeadedGoesOn ==
  ASSUME NEW S, NEW head, NEW s, Headed(s, head, S), NEW r \in Seq(S)
  PROVE  Headed(s \o r, head, S)
<1>1. /\ s \in Seq(S \cup {head}) /\ s # << >> /\ s[1] = head
      /\ \A i \in 2 .. Len(s) : s[i] \in S
      /\ r \in Seq(S \cup {head})
  BY DEF Headed
<1>2. Len(s) \in Nat /\ Len(s) >= 1 /\ Len(r) \in Nat
  BY <1>1
<1>3. /\ s \o r \in Seq(S \cup {head}) /\ Len(s \o r) = Len(s) + Len(r)
      /\ \A i \in 1 .. Len(s) : (s \o r)[i] = s[i]
      /\ \A i \in 1 .. Len(r) : (s \o r)[Len(s) + i] = r[i]
  BY <1>1
<1> DEFINE x == s \o r
<1> HIDE DEF x
<1>4. ASSUME NEW i \in 2 .. Len(s) + Len(r) PROVE x[i] \in S
  <2>1. CASE i <= Len(s)
    BY <1>1, <1>2, <1>3, <2>1 DEF x
  <2>2. CASE ~ (i <= Len(s))
    <3>1. i - Len(s) \in 1 .. Len(r) /\ Len(s) + (i - Len(s)) = i
      BY <1>2, <2>2
    <3>2. x[i] = r[i - Len(s)]
      BY <1>3, <3>1 DEF x
    <3>3. QED
      BY <3>1, <3>2
  <2>3. QED
    BY <2>1, <2>2
<1>5. x # << >> /\ x[1] = head
  BY <1>1, <1>2, <1>3 DEF x
<1>6. QED
  BY <1>3, <1>4, <1>5 DEF Headed, x
-----------------------------------------------------------------------------
(* The cases of the sections, by what they resolve to.                     *)
LEMMA ResolvingCases ==
  /\ \A class \in {"valid", "skip"} :
       /\ Plain("TABLE_DUMP", class) \in Resolving /\ Plain("BGP4MP", class) \in Resolving
       /\ Plain("OSPFV2", class) \in Resolving /\ Plain("OSPFV3", class) \in Resolving
       /\ Plain("ISIS", class) \in Resolving /\ Plain("UNKNOWN", class) \in Resolving
       /\ Et("BGP4MP_ET", class) \in Resolving /\ Et("OSPFV3_ET", class) \in Resolving
       /\ Et("ISIS_ET", class) \in Resolving
  /\ Rib("valid", 1) \in Resolving /\ Rib("valid", 2) \in Resolving
  /\ Rib("skip", NoPeer) \in Resolving /\ Rib("skip", 0) \in Resolving
  /\ Rib("skip", 1) \in Resolving /\ Rib("skip", 2) \in Resolving
  /\ Rib("skip", BadPeerIndex) \in Resolving /\ PeerTable("skip", 10) \in Resolving
<1>1. \A type \in MrtTypes : \A class \in {"valid", "skip"} : \A k \in Nat :
        /\ Plain(type, class) \in Resolving /\ Et(type, class) \in Resolving
        /\ PeerTable("skip", k) \in Resolving
        /\ Rib("skip", k) \in Resolving /\ Rib("skip", NoPeer) \in Resolving
        /\ k < CorpusPeers => Rib(class, k) \in Resolving
  <2> TAKE type \in MrtTypes
  <2> TAKE class \in {"valid", "skip"}
  <2> TAKE k \in Nat
  <2>1. "skip" \in {"valid", "skip"}
    OBVIOUS
  <2>2. Rib("skip", NoPeer) \in Resolving
    BY <2>1, CasesAreSorted
  <2>3. QED
    BY <2>2, CasesAreSorted
<1>2. /\ 0 \in Nat /\ 1 \in Nat /\ 2 \in Nat /\ 10 \in Nat /\ BadPeerIndex \in Nat
      /\ 1 < CorpusPeers /\ 2 < CorpusPeers
  BY DEF BadPeerIndex, CorpusPeers
<1>3. {"TABLE_DUMP", "BGP4MP", "OSPFV2", "OSPFV3", "ISIS", "UNKNOWN", "BGP4MP_ET",
       "OSPFV3_ET", "ISIS_ET"} \subseteq MrtTypes
  BY DEF MrtTypes
<1>4. "valid" \in {"valid", "skip"} /\ "skip" \in {"valid", "skip"}
  OBVIOUS
<1>5. QED
  BY <1>1, <1>2, <1>3, <1>4

(* And by where they do not refer.                                         *)
LEMMA NotAstrayCases ==
  /\ \A class \in {"valid", "skip"} :
       /\ Plain("BGP4MP", class) \in NotAstray
       /\ Plain("OSPFV2", class) \in NotAstray /\ Plain("OSPFV3", class) \in NotAstray
       /\ Plain("ISIS", class) \in NotAstray /\ Et("BGP4MP_ET", class) \in NotAstray
  /\ Rib("valid", NoPeer) \in NotAstray /\ Rib("valid", 0) \in NotAstray
  /\ Rib("valid", 2) \in NotAstray /\ Rib("skip", 0) \in NotAstray
  /\ PeerTable("valid", 0) \in NotAstray /\ PeerTable("skip", 1) \in NotAstray
<1>1. \A type \in MrtTypes : \A class \in {"valid", "skip"} : \A k \in Nat :
        /\ Plain(type, class) \in NotAstray /\ Et(type, class) \in NotAstray
        /\ PeerTable(class, k) \in NotAstray /\ Rib(class, NoPeer) \in NotAstray
        /\ k # BadPeerIndex => Rib(class, k) \in NotAstray
  BY CasesAreSorted
<1>2. /\ 0 \in Nat /\ 1 \in Nat /\ 2 \in Nat
      /\ 0 # BadPeerIndex /\ 2 # BadPeerIndex
  BY DEF BadPeerIndex
<1>3. {"BGP4MP", "OSPFV2", "OSPFV3", "ISIS", "BGP4MP_ET"} \subseteq MrtTypes
  BY DEF MrtTypes
<1>4. "valid" \in {"valid", "skip"} /\ "skip" \in {"valid", "skip"}
  OBVIOUS
<1>5. QED
  BY <1>1, <1>2, <1>3, <1>4

-----------------------------------------------------------------------------
(* emit_valid puts the table first, and refers to its peers only.          *)
LEMMA ValidIsHeaded == Headed(EmitValid, PeerTable("valid", CorpusPeers), Resolving)
<1> DEFINE head == PeerTable("valid", CorpusPeers)
           b1 == Plain("BGP4MP", "valid")
           r1 == Rib("valid", 1)
           r2 == Rib("valid", 2)
           td == Plain("TABLE_DUMP", "valid")
           last == <<b1, Et("BGP4MP_ET", "valid")>>
           igp == <<Plain("OSPFV2", "valid"), Plain("OSPFV3", "valid"), Et("OSPFV3_ET", "valid"),
                    Plain("ISIS", "valid"), Et("ISIS_ET", "valid")>>
           messages == Times(2, td) \o Times(2, b1) \o Times(4, b1) \o Times(7, b1) \o last
           tables == <<head>> \o Times(4, r1) \o Times(4, r2) \o Times(2, r1) \o <<r1, r2>>
<1>1. /\ b1 \in Resolving /\ r1 \in Resolving /\ r2 \in Resolving /\ td \in Resolving
      /\ last \in Seq(Resolving) /\ igp \in Seq(Resolving)
  BY ResolvingCases
<1>2. EmitValid = tables \o messages \o igp
  BY Zenon DEF EmitValid, EmitValidTables, EmitValidMessages, EmitValidIgp
<1> HIDE DEF head, b1, r1, r2, td, last, igp
<1>3. <<r1, r2>> \in Seq(Resolving)
  BY <1>1
<1>4. \A k \in {2, 4, 7} : \A e \in Resolving : Times(k, e) \in Seq(Resolving)
  BY TimesIn
<1>5. messages \in Seq(Resolving)
  BY <1>1, <1>4, JoinIn
<1>6. Headed(tables, head, Resolving)
  BY <1>1, <1>3, <1>4, HeadedBegins, HeadedGoesOn
<1> HIDE DEF messages, tables
<1>7. QED
  BY <1>1, <1>2, <1>5, <1>6, HeadedGoesOn DEF head

(* emit_skip and its table of ten peers, which a parser skips.             *)
LEMMA SkipResolves == EmitSkip \in Seq(Resolving)
<1> DEFINE b == Plain("BGP4MP", "skip")
           r0 == Rib("skip", 0)
           first == <<Plain("UNKNOWN", "skip"), Rib("skip", NoPeer), b>>
           tables == <<r0, r0, Rib("skip", 2), r0, r0, PeerTable("skip", 10),
                       Plain("TABLE_DUMP", "skip")>>
<1>1. b \in Resolving /\ first \in Seq(Resolving) /\ tables \in Seq(Resolving)
  BY ResolvingCases
<1>2. EmitSkip = (first \o Times(6, b) \o Times(2, b) \o Times(5, b)) \o tables
  BY Zenon DEF EmitSkip, EmitSkipMessages, EmitSkipTables
<1> HIDE DEF b, first, tables
<1>3. \A k \in {2, 5, 6} : Times(k, b) \in Seq(Resolving)
  BY <1>1, TimesIn
<1>4. QED
  BY <1>1, <1>2, <1>3, JoinIn

(* The combinations refer to peers 1 and 2.                                *)
LEMMA ComboResolves == EmitCombo \in Seq(Resolving)
<1> DEFINE b == Plain("BGP4MP", "skip")
           r1 == Rib("valid", 1)
           s1 == Rib("skip", 1)
           middle == <<Rib("valid", 2), r1, Plain("BGP4MP", "valid")>>
<1>1. b \in Resolving /\ r1 \in Resolving /\ s1 \in Resolving /\ middle \in Seq(Resolving)
  BY ResolvingCases
<1>2. EmitCombo = (Times(3, r1) \o middle \o Times(2, r1)) \o (Times(6, s1) \o Times(2, b))
  BY Zenon DEF EmitCombo, EmitComboLegal, EmitComboIllegal
<1> HIDE DEF b, r1, s1, middle
<1>3. \A k \in {2, 3, 6} : \A e \in Resolving : Times(k, e) \in Seq(Resolving)
  BY TimesIn
<1>4. QED
  BY <1>1, <1>2, <1>3, JoinIn

(* The attribute errors, with the one peer index that does not exist.      *)
LEMMA AttrErrorsResolve == EmitAttrErrors \in Seq(Resolving)
<1> DEFINE b == Plain("BGP4MP", "skip")
           v == Plain("BGP4MP", "valid")
           last == <<v, b, Rib("skip", BadPeerIndex), Plain("BGP4MP_ET", "skip")>>
<1>1. b \in Resolving /\ v \in Resolving
  BY ResolvingCases
<1>2. Plain("BGP4MP_ET", "skip") \in Resolving
  <2>1. "BGP4MP_ET" \in MrtTypes
    BY DEF MrtTypes
  <2>2. QED
    BY <2>1, CasesAreSorted
<1>3. last \in Seq(Resolving) /\ <<v>> \in Seq(Resolving)
  BY <1>1, <1>2, ResolvingCases
<1>4. EmitAttrErrors = Times(4, b) \o <<v>> \o Times(9, b) \o last
  BY Zenon DEF EmitAttrErrors
<1> HIDE DEF b, v, last
<1>5. \A k \in {4, 9} : Times(k, b) \in Seq(Resolving)
  BY <1>1, TimesIn
<1>6. QED
  BY <1>1, <1>3, <1>4, <1>5, JoinIn

(* So the historic sections begin with the table, when they have it.       *)
LEMMA HistoricShape ==
  ASSUME NEW c
  PROVE  /\ c.valid => Headed(Historic(c), PeerTable("valid", CorpusPeers), Resolving)
         /\ ~ c.valid => Historic(c) \in Seq(Resolving)
<1> DEFINE s2 == When(c.skip, EmitSkip)
           s3 == When(c.combo, EmitCombo)
           s4 == When(c.attr_errors, EmitAttrErrors)
<1>1. s2 \in Seq(Resolving) /\ s3 \in Seq(Resolving) /\ s4 \in Seq(Resolving)
  BY WhenIn, SkipResolves, ComboResolves, AttrErrorsResolve
<1>2. c.valid => When(c.valid, EmitValid) = EmitValid
  BY DEF When
<1>3. ~ c.valid => When(c.valid, EmitValid) \in Seq(Resolving)
  BY DEF When
<1>4. Historic(c) = When(c.valid, EmitValid) \o s2 \o s3 \o s4
  BY Zenon DEF Historic
<1> HIDE DEF s2, s3, s4
<1>5. c.valid => Headed(Historic(c), PeerTable("valid", CorpusPeers), Resolving)
  BY <1>1, <1>2, <1>4, ValidIsHeaded, HeadedGoesOn
<1>6. ~ c.valid => Historic(c) \in Seq(Resolving)
  BY <1>1, <1>3, <1>4, JoinIn
<1>7. QED
  BY <1>5, <1>6

(* The boundary cases refer to no peer that is meant not to exist.         *)
LEMMA EdgeCasesNotAstray ==
  ASSUME NEW valid, NEW skip
  PROVE  EmitEdgeCases(valid, skip) \in Seq(NotAstray)
<1> DEFINE v == Plain("BGP4MP", "valid")
           b == Plain("BGP4MP", "skip")
           r0 == Rib("valid", 0)
           et == Et("BGP4MP_ET", "valid")
           o2 == Plain("OSPFV2", "valid")
           o3 == Plain("OSPFV3", "valid")
           isis == Plain("ISIS", "valid")
           head == <<PeerTable("valid", 0), Rib("valid", NoPeer)>>
           r2 == <<Rib("valid", 2)>>
           tables == <<PeerTable("skip", 1), Rib("skip", 0), Et("BGP4MP_ET", "skip")>>
           igp == <<Plain("OSPFV2", "skip"), Plain("OSPFV3", "skip"),
                    Plain("ISIS", "skip"), Plain("ISIS", "skip")>>
<1>1. /\ v \in NotAstray /\ b \in NotAstray /\ r0 \in NotAstray /\ et \in NotAstray
      /\ o2 \in NotAstray /\ o3 \in NotAstray /\ isis \in NotAstray
      /\ head \in Seq(NotAstray) /\ r2 \in Seq(NotAstray)
      /\ tables \in Seq(NotAstray) /\ igp \in Seq(NotAstray)
  BY NotAstrayCases
<1>2. EmitEdgeValid = head \o Times(5, r0) \o r2 \o Times(5, v) \o Times(2, r0)
                      \o Times(10, et) \o EmitIgpEdgeCases(TRUE)
  BY Zenon DEF EmitEdgeValid
<1>3. EmitEdgeSkip = Times(12, b) \o tables \o EmitIgpEdgeCases(FALSE)
  BY Zenon DEF EmitEdgeSkip
<1>4. EmitIgpEdgeCases(TRUE) = Times(4, o2) \o Times(4, o3) \o Times(9, isis)
  BY Zenon DEF EmitIgpEdgeCases
<1>5. EmitIgpEdgeCases(FALSE) = igp
  BY Zenon DEF EmitIgpEdgeCases
<1> HIDE DEF v, b, r0, et, o2, o3, isis, head, r2, tables, igp
<1>6. \A k \in {2, 4, 5, 9, 10, 12} : \A e \in NotAstray : Times(k, e) \in Seq(NotAstray)
  BY TimesIn
<1>7. EmitIgpEdgeCases(TRUE) \in Seq(NotAstray)
  <2>1. Times(4, o2) \o Times(4, o3) \o Times(9, isis) \in Seq(NotAstray)
    BY <1>1, <1>6, JoinIn
  <2>2. QED
    BY <1>4, <2>1, Zenon
<1>8. EmitEdgeValid \in Seq(NotAstray)
  BY <1>1, <1>2, <1>6, <1>7, JoinIn
<1>9. EmitEdgeSkip \in Seq(NotAstray)
  BY <1>1, <1>3, <1>5, <1>6, JoinIn
<1>10. QED
  BY <1>8, <1>9, WhenIn, JoinIn DEF EmitEdgeCases

(* Where the elements of a concatenation stand.                            *)
Joins(x, s, r, S) ==
  /\ x \in Seq(S) /\ Len(x) = Len(s) + Len(r)
  /\ Len(s) \in Nat /\ Len(r) \in Nat
  /\ \A j \in 1 .. Len(s) : x[j] = s[j]
  /\ \A j \in 1 .. Len(r) : x[Len(s) + j] = r[j]

(* A concatenation joins its parts.                                        *)
LEMMA JoinPlaces ==
  ASSUME NEW S, NEW s \in Seq(S), NEW r \in Seq(S)
  PROVE  Joins(s \o r, s, r, S)
BY DEF Joins

(* A record with a class of its own and no peers.                          *)
Peerless == {e \in Emissions : e.rec.content.table = NoPeer /\ e.rec.content.top = NoPeer}

(* A message outside TABLE_DUMP_V2 is such a record.                       *)
LEMMA PlainIsPeerless ==
  ASSUME NEW type \in MrtTypes, NEW class \in {"valid", "skip"}
  PROVE  Plain(type, class) \in Peerless
<1>1. class \in Expectations /\ NoPeer \in Peers /\ FALSE \in BOOLEAN
  BY DEF Expectations, Peers
<1>2. Sorted(Plain(type, class), class, NoPeer, NoPeer)
  BY <1>1, CaseShape DEF Plain
<1>3. QED
  BY <1>2, Zenon DEF Sorted, Peerless

(* emit_stress brings a table of 65535 peers before it refers to them: of  *)
(* the records with peers the table is the first.                          *)
Stressed(s) ==
  /\ s \in Seq(Emissions)
  /\ \A i \in 1 .. Len(s) : s[i].expect = "skip" => s[i].rec.content.top = NoPeer
  /\ \A i \in 1 .. Len(s) : s[i].rec.content.top # NoPeer =>
       \E j \in 1 .. i - 1 :
         /\ s[j].expect = "valid" /\ s[j].rec.content.table # NoPeer
         /\ s[j].rec.content.table > s[i].rec.content.top
         /\ \A k \in j + 1 .. i - 1 : s[k].rec.content.table = NoPeer

(* Where nobody refers to peers, nothing is wrong.                         *)
LEMMA PeerlessIsStressed ==
  ASSUME NEW s \in Seq(Peerless)
  PROVE  Stressed(s)
<1>1. s \in Seq(Emissions)
  BY DEF Peerless
<1>2. \A i \in 1 .. Len(s) : s[i].rec.content.top = NoPeer
  BY DEF Peerless
<1>3. QED
  BY <1>1, <1>2 DEF Stressed

(* A section keeps its tables wherever it stands.                          *)
LEMMA StressedGoesOn ==
  ASSUME NEW s, NEW r, Stressed(s), Stressed(r)
  PROVE  Stressed(s \o r)
<1> DEFINE x == s \o r
           Skipped(e) == e.expect = "skip"
           Valid(e) == e.expect = "valid"
           Top(e) == e.rec.content.top
           Table(e) == e.rec.content.table
           Behind(y, i) == \E j \in 1 .. i - 1 :
             /\ Valid(y[j]) /\ Table(y[j]) # NoPeer
             /\ Table(y[j]) > Top(y[i])
             /\ \A k \in j + 1 .. i - 1 : Table(y[k]) = NoPeer
<1>1. /\ s \in Seq(Emissions) /\ r \in Seq(Emissions)
      /\ \A i \in 1 .. Len(s) : Skipped(s[i]) => Top(s[i]) = NoPeer
      /\ \A i \in 1 .. Len(r) : Skipped(r[i]) => Top(r[i]) = NoPeer
      /\ \A i \in 1 .. Len(s) : Top(s[i]) # NoPeer => Behind(s, i)
      /\ \A i \in 1 .. Len(r) : Top(r[i]) # NoPeer => Behind(r, i)
  BY Zenon DEF Stressed
<1>2. /\ x \in Seq(Emissions) /\ Len(x) = Len(s) + Len(r)
      /\ Len(s) \in Nat /\ Len(r) \in Nat
      /\ \A i \in 1 .. Len(s) : x[i] = s[i]
      /\ \A i \in 1 .. Len(r) : x[Len(s) + i] = r[i]
  BY <1>1
<1> HIDE DEF x, Skipped, Valid, Top, Table
<1>3. ASSUME NEW i \in 1 .. Len(s)
      PROVE  /\ Skipped(x[i]) => Top(x[i]) = NoPeer
             /\ Top(x[i]) # NoPeer => Behind(x, i)
  <2>1. x[i] = s[i] /\ (\A k \in 1 .. i - 1 : x[k] = s[k])
    BY <1>2
  <2>2. Top(s[i]) # NoPeer => Behind(x, i)
    <3>1. SUFFICES ASSUME Top(s[i]) # NoPeer PROVE Behind(x, i)
      OBVIOUS
    <3>2. PICK j \in 1 .. i - 1 :
            /\ Valid(s[j]) /\ Table(s[j]) # NoPeer
            /\ Table(s[j]) > Top(s[i])
            /\ \A k \in j + 1 .. i - 1 : Table(s[k]) = NoPeer
      BY <1>1, <3>1
    <3>3. \A k \in j + 1 .. i - 1 : k \in 1 .. i - 1
      BY <3>2
    <3>4. QED
      BY <2>1, <3>2, <3>3
  <2>3. QED
    BY <1>1, <2>1, <2>2
<1>4. ASSUME NEW i \in 1 .. Len(r)
      PROVE  /\ Skipped(x[Len(s) + i]) => Top(x[Len(s) + i]) = NoPeer
             /\ Top(x[Len(s) + i]) # NoPeer => Behind(x, Len(s) + i)
  <2>1. x[Len(s) + i] = r[i] /\ (\A k \in 1 .. i - 1 : x[Len(s) + k] = r[k])
    BY <1>2
  <2>2. Top(r[i]) # NoPeer => Behind(x, Len(s) + i)
    <3>1. SUFFICES ASSUME Top(r[i]) # NoPeer PROVE Behind(x, Len(s) + i)
      OBVIOUS
    <3>2. PICK j \in 1 .. i - 1 :
            /\ Valid(r[j]) /\ Table(r[j]) # NoPeer
            /\ Table(r[j]) > Top(r[i])
            /\ \A k \in j + 1 .. i - 1 : Table(r[k]) = NoPeer
      BY <1>1, <3>1
    <3>3. ASSUME NEW k \in (Len(s) + j) + 1 .. (Len(s) + i) - 1
          PROVE  Table(x[k]) = NoPeer
      <4>1. k - Len(s) \in j + 1 .. i - 1 /\ k - Len(s) \in 1 .. i - 1 /\ Len(s) + (k - Len(s)) = k
        BY <1>2, <3>2
      <4>2. x[k] = r[k - Len(s)]
        BY <2>1, <4>1
      <4>3. QED
        BY <3>2, <4>1, <4>2
    <3>4. Len(s) + j \in 1 .. (Len(s) + i) - 1 /\ x[Len(s) + j] = r[j]
      BY <1>2, <2>1, <3>2
    <3>5. QED
      BY <2>1, <3>2, <3>3, <3>4
  <2>3. QED
    BY <1>1, <2>1, <2>2
<1>5. ASSUME NEW i \in 1 .. Len(x)
      PROVE  /\ Skipped(x[i]) => Top(x[i]) = NoPeer
             /\ Top(x[i]) # NoPeer => Behind(x, i)
  <2>1. CASE i <= Len(s)
    BY <1>2, <1>3, <2>1
  <2>2. CASE ~ (i <= Len(s))
    <3>1. i - Len(s) \in 1 .. Len(r) /\ Len(s) + (i - Len(s)) = i
      BY <1>2, <2>2
    <3> DEFINE d == i - Len(s)
    <3> HIDE DEF d, Behind
    <3>2. d \in 1 .. Len(r) /\ Len(s) + d = i
      BY <3>1 DEF d
    <3>3. QED
      BY <1>4, <3>2, Zenon
  <2>3. QED
    BY <2>1, <2>2
<1>6. QED
  BY <1>2, <1>5, Zenon DEF Stressed, x, Skipped, Valid, Top, Table

(* The keepalives, the table, its entries and the bad NOTIFICATIONs.       *)
LEMMA StressShape ==
  ASSUME NEW valid, NEW skip
  PROVE  Stressed(EmitStress(valid, skip))
<1> DEFINE v == Plain("BGP4MP", "valid")
           b == Plain("BGP4MP", "skip")
           keep == Times(Keepalives, v)
           table == PeerTable("valid", U16Max)
           r1 == Rib("valid", U16Max - 1)
           r0 == Rib("valid", 0)
           full == <<table, r1, r0, r0>>
           before == When(valid, keep \o full)
           after == When(skip, Times(8, b))
<1>1. /\ Keepalives \in Nat /\ U16Max \in Nat /\ U16Max - 1 \in Nat /\ U16Max > 0
      /\ U16Max - 1 \in Peers /\ U16Max \in Peers /\ 0 \in Peers /\ NoPeer \in Peers
      /\ NoPeer = -1 /\ "valid" \in Expectations /\ FALSE \in BOOLEAN
      /\ "TABLE_DUMP_V2" \in MrtTypes /\ "BGP4MP" \in MrtTypes
  BY SectionsAssumption DEF Peers, NoPeer, BadPeerIndex, Expectations, MrtTypes
<1>2. v \in Peerless /\ b \in Peerless
  BY <1>1, PlainIsPeerless
<1>3. /\ Sorted(table, "valid", U16Max, NoPeer)
      /\ Sorted(r1, "valid", NoPeer, U16Max - 1)
      /\ Sorted(r0, "valid", NoPeer, 0)
  BY <1>1, CaseShape DEF PeerTable, Rib
<1>4. EmitStress(valid, skip) = before \o after
  BY Zenon DEF EmitStress
<1> HIDE DEF v, b, table, r1, r0
<1>5. keep \in Seq(Peerless) /\ Len(keep) = Keepalives
  BY <1>1, <1>2, TimesIn
<1>6. after \in Seq(Peerless)
  <2>1. Times(8, b) \in Seq(Peerless)
    BY <1>2, TimesIn
  <2>2. QED
    BY <2>1, WhenIn
<1> HIDE DEF keep, after
<1>7. Stressed(keep) /\ Stressed(after)
  BY <1>5, <1>6, PeerlessIsStressed
<1>8. Stressed(full)
  <2>1. full \in Seq(Emissions) /\ Len(full) = 4
    BY <1>3 DEF Sorted
  <2>2. full[1] = table /\ full[2] = r1 /\ full[3] = r0 /\ full[4] = r0
    OBVIOUS
  <2> HIDE DEF full
  <2>3. \A i \in 1 .. 4 : i = 1 \/ i = 2 \/ i = 3 \/ i = 4
    OBVIOUS
  <2>4. /\ full[1].expect = "valid" /\ full[1].rec.content.table = U16Max
        /\ full[1].rec.content.top = NoPeer
    BY <1>3, <2>2 DEF Sorted
  <2>5. \A i \in 2 .. 4 :
          /\ full[i].expect = "valid" /\ full[i].rec.content.table = NoPeer
          /\ full[i].rec.content.top < U16Max
    BY <1>1, <1>3, <2>2, <2>3 DEF Sorted
  <2>6. ASSUME NEW i \in 1 .. 4, full[i].rec.content.top # NoPeer
        PROVE  \E j \in 1 .. i - 1 :
                 /\ full[j].expect = "valid" /\ full[j].rec.content.table # NoPeer
                 /\ full[j].rec.content.table > full[i].rec.content.top
                 /\ \A k \in j + 1 .. i - 1 : full[k].rec.content.table = NoPeer
    <3>1. i \in 2 .. 4 /\ 1 \in 1 .. i - 1
      BY <2>4, <2>6
    <3>2. \A k \in 1 + 1 .. i - 1 : full[k].rec.content.table = NoPeer
      BY <2>5, <3>1
    <3>3. /\ full[1].rec.content.table # NoPeer
          /\ full[1].rec.content.table > full[i].rec.content.top
      BY <1>1, <2>4, <2>5, <3>1
    <3>4. QED
      BY <2>4, <3>1, <3>2, <3>3
  <2>7. \A i \in 1 .. 4 : full[i].expect # "skip"
    BY <2>3, <2>4, <2>5
  <2>8. QED
    BY <2>1, <2>6, <2>7 DEF Stressed
<1> HIDE DEF full
<1>9. Stressed(before)
  <2>1. Stressed(<< >>)
    <3>1. << >> \in Seq(Peerless)
      OBVIOUS
    <3>2. QED
      BY <3>1, PeerlessIsStressed
  <2>2. Stressed(keep \o full)
    BY <1>7, <1>8, StressedGoesOn
  <2>3. QED
    BY <2>1, <2>2 DEF When
<1> HIDE DEF before
<1>10. QED
  BY <1>4, <1>7, <1>9, StressedGoesOn

(* An abort-class tail, if any, is all that generate_profile ends with.    *)
Tails == {TailLengthOverrunsEof(1000, 16), TailTruncatedHeader(7),
          TailLengthOverrunsEof(U32 - 1, 8)}

(* generate_profile knows three tails, all abort-class.                    *)
LEMMA FatalAborts ==
  ASSUME NEW fatal
  PROVE  /\ EmitFatal(fatal) \in Seq(Tails)
         /\ \A e \in Tails : e.expect = "abort"
<1>1. \A e \in Tails : e.expect = "abort"
  BY DEF Tails, TailLengthOverrunsEof, TailTruncatedHeader, FatalTail
<1>2. EmitFatal(fatal) \in Seq(Tails)
  <2>1. CASE fatal = "length_overruns_eof"
    BY <2>1 DEF EmitFatal, Tails
  <2>2. CASE fatal = "truncated_header"
    BY <2>2 DEF EmitFatal, Tails
  <2>3. CASE fatal = "huge_length"
    BY <2>3 DEF EmitFatal, Tails
  <2>4. CASE fatal \notin {"length_overruns_eof", "truncated_header", "huge_length"}
    BY <2>4 DEF EmitFatal
  <2>5. QED
    BY <2>1, <2>2, <2>3, <2>4
<1>3. QED
  BY <1>1, <1>2
-----------------------------------------------------------------------------
(* The table a parser knows at record i is the last well-formed one.       *)
IsTable(j) == bytes[j].content.table # NoPeer /\ entries[j].expect = "valid"

(* With a table at p and none since, p is in force.                        *)
LEMMA LastTableInForce ==
  ASSUME NEW i \in Nat, NEW p \in 1 .. i - 1, IsTable(p),
         \A j \in p + 1 .. i - 1 : ~ IsTable(j)
  PROVE  PeersInForce(i) = bytes[p].content.table
<1> DEFINE T == TablesBefore(i)
<1>1. T = {j \in 1 .. i - 1 : IsTable(j)}
  BY DEF TablesBefore, IsTable
<1>2. p \in T /\ T \subseteq Int /\ \A j \in T : p >= j
  BY <1>1
<1> HIDE DEF T
<1>3. \E x \in T : \A j \in T : x >= j
  BY <1>2
<1>4. Max(T) \in T /\ \A j \in T : Max(T) >= j
  BY <1>3, Zenon DEF Max
<1>5. Max(T) = p
  <2> DEFINE m == Max(T)
  <2>1. m \in T /\ m >= p
    BY <1>2, <1>4, Zenon
  <2> HIDE DEF m
  <2>2. m = p
    BY <1>2, <2>1
  <2>3. QED
    BY <2>2 DEF m
<1>6. T # {}
  BY <1>2
<1>7. QED
  BY <1>5, <1>6, Zenon DEF PeersInForce, T

(* With no table yet, there are no peers.                                  *)
LEMMA NoTableInForce ==
  ASSUME NEW i \in Nat, \A j \in 1 .. i - 1 : ~ IsTable(j)
  PROVE  PeersInForce(i) = 0
BY DEF PeersInForce, TablesBefore, IsTable

(* Where the records of generate_profile stand.                            *)
StandsAt(i, x, h, e, s, f) ==
  \/ i \in 1 .. Len(h) /\ \A j \in 1 .. i : x[j] = h[j]
  \/ /\ i \in Len(h) + 1 .. Len(h) + Len(e)
     /\ i - Len(h) \in 1 .. Len(e)
     /\ x[i] = e[i - Len(h)]
  \/ \E k \in 1 .. Len(s) :
       /\ i = (Len(h) + Len(e)) + k
       /\ \A j \in 1 .. k : x[(Len(h) + Len(e)) + j] = s[j]
  \/ \E k \in 1 .. Len(f) : x[i] = f[k]

(* A record of four sections in a row is of one of them.                   *)
LEMMA SectionAt ==
  ASSUME NEW S, NEW h \in Seq(S), NEW e \in Seq(S), NEW s \in Seq(S), NEW f \in Seq(S),
         NEW a, a = h \o e, NEW b, b = a \o s, NEW x, x = b \o f,
         NEW i \in 1 .. Len(x)
  PROVE  StandsAt(i, x, h, e, s, f)
<1> USE DEF StandsAt
<1>1. Joins(a, h, e, S)
  BY JoinPlaces
<1>2. Joins(b, a, s, S)
  <2>1. a \in Seq(S)
    BY <1>1 DEF Joins
  <2>2. Joins(a \o s, a, s, S)
    BY <2>1, JoinPlaces, Zenon
  <2>3. QED
    BY <2>2
<1>3. Joins(x, b, f, S)
  <2>1. b \in Seq(S)
    BY <1>2 DEF Joins
  <2>2. Joins(b \o f, b, f, S)
    BY <2>1, JoinPlaces, Zenon
  <2>3. QED
    BY <2>2
<1>4. i \in 1 .. Len(x)
  OBVIOUS
<1> USE DEF Joins
<1>5. CASE i <= Len(h)
  <2>1. \A j \in 1 .. i : j \in 1 .. Len(h) /\ j \in 1 .. Len(a) /\ j \in 1 .. Len(b)
    BY <1>1, <1>2, <1>4, <1>5
  <2>2. \A j \in 1 .. i : x[j] = h[j]
    BY <1>1, <1>2, <1>3, <2>1
  <2>3. QED
    BY <1>4, <1>5, <2>2
<1>6. CASE Len(h) < i /\ i <= Len(a)
  <2> DEFINE d == i - Len(h)
  <2>1. d \in 1 .. Len(e) /\ Len(h) + d = i /\ i \in 1 .. Len(a) /\ i \in 1 .. Len(b)
    BY <1>1, <1>2, <1>4, <1>6
  <2>2. i \in Len(h) + 1 .. Len(h) + Len(e)
    BY <1>1, <1>4, <1>6
  <2> HIDE DEF d
  <2>3. x[i] = e[d]
    BY <1>1, <1>2, <1>3, <2>1
  <2>4. QED
    BY <2>1, <2>2, <2>3 DEF d
<1>7. CASE Len(a) < i /\ i <= Len(b)
  <2> DEFINE d == i - Len(a)
  <2>1. d \in 1 .. Len(s) /\ Len(a) + d = i
    BY <1>1, <1>2, <1>4, <1>7
  <2> HIDE DEF d
  <2>2. \A j \in 1 .. d : j \in 1 .. Len(s) /\ Len(a) + j \in 1 .. Len(b)
    BY <1>1, <1>2, <2>1
  <2>3. \A j \in 1 .. d : x[Len(a) + j] = s[j]
    BY <1>2, <1>3, <2>2
  <2>4. Len(a) = Len(h) + Len(e)
    BY <1>1
  <2>5. \E k \in 1 .. Len(s) :
          /\ i = (Len(h) + Len(e)) + k
          /\ \A j \in 1 .. k : x[(Len(h) + Len(e)) + j] = s[j]
    BY <2>1, <2>3, <2>4, Zenon
  <2>6. QED
    BY <2>5, Zenon
<1>8. CASE Len(b) < i
  <2> DEFINE d == i - Len(b)
  <2>1. d \in 1 .. Len(f) /\ Len(b) + d = i
    BY <1>1, <1>2, <1>3, <1>4, <1>8
  <2> HIDE DEF d
  <2>2. x[i] = f[d]
    BY <1>3, <2>1
  <2>3. QED
    BY <2>1, <2>2, Zenon
<1>9. QED
  <2>1. \/ i <= Len(h)
        \/ Len(h) < i /\ i <= Len(a)
        \/ Len(a) < i /\ i <= Len(b)
        \/ Len(b) < i
    <3>1. i \in Int /\ Len(h) \in Int /\ Len(a) \in Int /\ Len(b) \in Int
      BY <1>1, <1>2, <1>3, <1>4
    <3>2. QED
      BY <3>1
  <2>2. QED
    BY <1>5, <1>6, <1>7, <1>8, <2>1, Zenon
-----------------------------------------------------------------------------
(* The program of a configuration, section by section.                     *)
Boundary(c) == EmitEdgeCases(c.valid, c.skip)
Stress(c)   == When(c.profile = "stress", EmitStress(c.valid, c.skip))
Before(c)   == Len(Historic(c)) + Len(Boundary(c))

(* The table of emit_valid declares the peers of corpus_peers.             *)
LEMMA HeadIsTable == Sorted(PeerTable("valid", CorpusPeers), "valid", CorpusPeers, NoPeer)
<1>1. /\ CorpusPeers \in Peers /\ NoPeer \in Peers /\ "valid" \in Expectations
      /\ "TABLE_DUMP_V2" \in MrtTypes /\ FALSE \in BOOLEAN
  BY DEF CorpusPeers, Peers, Expectations, MrtTypes
<1>2. QED
  BY <1>1, CaseShape DEF PeerTable

(* With or without the stress profile.                                     *)
LEMMA StressIsStressed == ASSUME NEW c PROVE Stressed(Stress(c))
<1>1. Stressed(<< >>)
  <2>1. << >> \in Seq(Peerless)
    OBVIOUS
  <2>2. QED
    BY <2>1, PeerlessIsStressed
<1>2. QED
  BY <1>1, StressShape DEF Stress, When

(* Record i of a configuration is of one of its sections.                  *)
LEMMA ProgramAt ==
  ASSUME NEW c, NEW x, x = GenerateProfile(c), NEW i \in 1 .. Len(x)
  PROVE  StandsAt(i, x, Historic(c), Boundary(c), Stress(c), EmitFatal(c.fatal))
<1> DEFINE S == Emissions \cup Tails
           h == Historic(c)
           e == Boundary(c)
           s == Stress(c)
           f == EmitFatal(c.fatal)
           a == h \o e
           b == a \o s
<1>1. h \in Seq(S)
  <2>1. PeerTable("valid", CorpusPeers) \in Emissions
    BY HeadIsTable DEF Sorted
  <2>2. Resolving \subseteq S /\ Resolving \cup {PeerTable("valid", CorpusPeers)} \subseteq S
    BY <2>1 DEF Resolving
  <2>3. h \in Seq(Resolving) \/ h \in Seq(Resolving \cup {PeerTable("valid", CorpusPeers)})
    BY HistoricShape, Zenon DEF Headed
  <2> HIDE DEF S, h
  <2>4. QED
    BY <2>2, <2>3
<1>2. e \in Seq(S)
  <2>1. e \in Seq(NotAstray) /\ NotAstray \subseteq S
    BY EdgeCasesNotAstray DEF Boundary, NotAstray
  <2> HIDE DEF S, e
  <2>2. QED
    BY <2>1
<1>3. s \in Seq(S)
  <2>1. s \in Seq(Emissions) /\ Emissions \subseteq S
    BY StressIsStressed DEF Stressed
  <2> HIDE DEF S, s
  <2>2. QED
    BY <2>1
<1>4. f \in Seq(S)
  <2>1. f \in Seq(Tails) /\ Tails \subseteq S
    BY FatalAborts
  <2> HIDE DEF S, f
  <2>2. QED
    BY <2>1
<1>5. x = b \o f
  BY Zenon DEF GenerateProfile, Boundary, Stress
<1>6. a = h \o e /\ b = a \o s
  OBVIOUS
<1> HIDE DEF S, h, e, s, f, a, b
<1>7. StandsAt(i, x, h, e, s, f)
  BY <1>1, <1>2, <1>3, <1>4, <1>5, <1>6, SectionAt, Zenon
<1>8. QED
  BY <1>7, Zenon DEF h, e, s, f

-----------------------------------------------------------------------------
(* One record of a finished corpus refers to peers as its class says.      *)
MeansItsClass(i) ==
  /\ cfg.valid /\ entries[i].expect = "valid" /\ RefersToPeers(i) /\ i \notin BoundaryRecords
     => ~ Dangling(i)
  /\ entries[i].expect = "skip" /\ bytes[i].content.top = BadPeerIndex => Dangling(i)

Pushed(x) ==
  \A j \in 1 .. Len(x) : entries[j].expect = x[j].expect /\ bytes[j].content = x[j].rec.content

(* A record of the historic sections has emit_valid's table or none.       *)
LEMMA HistoricMeans ==
  ASSUME NEW x, Pushed(x), NEW i \in 1 .. Len(x), Len(x) \in Nat,
         i \in 1 .. Len(Historic(cfg)), \A j \in 1 .. i : x[j] = Historic(cfg)[j]
  PROVE  MeansItsClass(i)
<1> DEFINE h == Historic(cfg)
<1>1. /\ NoPeer = -1 /\ CorpusPeers = 4 /\ BadPeerIndex = 99
      /\ "valid" # "skip" /\ i \in Nat /\ i >= 1
  BY DEF NoPeer, CorpusPeers, BadPeerIndex
<1>2. \A j \in 1 .. i : entries[j].expect = h[j].expect /\ bytes[j].content = h[j].rec.content
  <2>1. \A j \in 1 .. i : j \in 1 .. Len(x)
    OBVIOUS
  <2>2. QED
    BY <2>1 DEF Pushed
<1>3. ASSUME NEW j \in 1 .. i, h[j] \in Resolving
      PROVE  /\ ~ IsTable(j)
             /\ entries[j].expect = "valid" => bytes[j].content.top < CorpusPeers
  BY <1>2, <1>3 DEF Resolving, IsTable
<1> HIDE DEF h
<1>4. CASE cfg.valid
  <2>1. Headed(h, PeerTable("valid", CorpusPeers), Resolving)
    BY <1>4, HistoricShape DEF h
  <2>2. h[1] = PeerTable("valid", CorpusPeers) /\ \A j \in 2 .. Len(h) : h[j] \in Resolving
    BY <2>1 DEF Headed
  <2>3. 1 \in 1 .. i
    BY <1>1
  <2>4. /\ entries[1].expect = "valid" /\ bytes[1].content.table = CorpusPeers
        /\ bytes[1].content.top = NoPeer
    BY <1>2, <2>2, <2>3, HeadIsTable, Zenon DEF Sorted
  <2>5. CASE i = 1
    BY <1>1, <2>4, <2>5 DEF MeansItsClass, RefersToPeers
  <2>6. CASE i # 1
    <3>1. i \in Nat /\ 1 \in 1 .. i - 1 /\ i \in 2 .. Len(h) /\ Len(h) \in Nat
      BY <1>1, <2>6, <2>1 DEF h, Headed
    <3>2. \A j \in 1 + 1 .. i - 1 : j \in 1 .. i /\ j \in 2 .. Len(h)
      BY <3>1
    <3>3. \A j \in 1 + 1 .. i - 1 : ~ IsTable(j)
      BY <1>3, <2>2, <3>2
    <3>4. IsTable(1)
      BY <1>1, <2>4 DEF IsTable
    <3>5. PeersInForce(i) = CorpusPeers
      BY <2>4, <3>1, <3>3, <3>4, LastTableInForce
    <3>6. i \in 1 .. i /\ h[i] \in Resolving
      BY <2>2, <3>1
    <3>7. entries[i].expect = "valid" => bytes[i].content.top < CorpusPeers
      BY <1>3, <3>6
    <3>8. entries[i].expect = "valid" => bytes[i].content.top \in Int
      <4>1. h[i] \in Emissions
        BY <3>6 DEF Resolving
      <4>2. h[i].rec.content.top \in Int
        BY <4>1, ContentsAreNumbers
      <4>3. QED
        BY <3>6, <4>2, <1>2
    <3>9. QED
      BY <1>1, <3>5, <3>7, <3>8 DEF MeansItsClass, Dangling
  <2>7. QED
    BY <2>5, <2>6
<1>5. CASE ~ cfg.valid
  <2>1. h \in Seq(Resolving)
    BY <1>5, HistoricShape DEF h
  <2>2. \A j \in 1 .. i - 1 : j \in 1 .. i /\ h[j] \in Resolving
    BY <1>1, <2>1 DEF h
  <2>3. PeersInForce(i) = 0
    BY <1>1, <1>3, <2>2, NoTableInForce
  <2>4. QED
    BY <1>1, <1>5, <2>3 DEF MeansItsClass, Dangling
<1>6. QED
  BY <1>4, <1>5

(* The boundary section is exempt, and pushes no bad index.                *)
LEMMA BoundaryMeans ==
  ASSUME NEW x, Pushed(x), NEW i \in 1 .. Len(x),
         i \in Len(Historic(cfg)) + 1 .. Before(cfg),
         i - Len(Historic(cfg)) \in 1 .. Len(Boundary(cfg)),
         x[i] = Boundary(cfg)[i - Len(Historic(cfg))]
  PROVE  MeansItsClass(i)
<1>1. i \in BoundaryRecords
  BY DEF BoundaryRecords, Before, Boundary
<1>2. x[i] \in NotAstray
  BY EdgeCasesNotAstray DEF Boundary
<1>3. entries[i].expect = "skip" => bytes[i].content.top # BadPeerIndex
  BY <1>2 DEF Pushed, NotAstray
<1>4. QED
  BY <1>1, <1>3, Zenon DEF MeansItsClass

(* A record of emit_stress has the table that section brings.              *)
LEMMA StressMeans ==
  ASSUME NEW x, Pushed(x), NEW i \in 1 .. Len(x), Len(x) \in Nat, Before(cfg) \in Nat,
         NEW k \in 1 .. Len(Stress(cfg)), i = Before(cfg) + k,
         \A j \in 1 .. k : x[Before(cfg) + j] = Stress(cfg)[j]
  PROVE  MeansItsClass(i)
<1> DEFINE s == Stress(cfg)
           m == Before(cfg)
<1>1. NoPeer = -1 /\ BadPeerIndex = 99
  BY DEF NoPeer, BadPeerIndex
<1>2. Stressed(s)
  BY StressIsStressed
<1>3. s \in Seq(Emissions) /\ k \in Nat /\ k >= 1 /\ Len(s) \in Nat /\ k <= Len(s) /\ m \in Nat
  BY <1>2 DEF Stressed
<1>4. \A j \in 1 .. k : /\ entries[m + j].expect = s[j].expect
                        /\ bytes[m + j].content = s[j].rec.content
  <2>1. \A j \in 1 .. k : m + j \in 1 .. Len(x)
    BY <1>3
  <2>2. QED
    BY <2>1 DEF Pushed
<1>5. i = m + k /\ k \in 1 .. k /\ i \in Nat
  BY <1>3
<1>6. /\ s[k].expect = "skip" => s[k].rec.content.top = NoPeer
      /\ s[k].rec.content.top # NoPeer =>
           \E j \in 1 .. k - 1 :
             /\ s[j].expect = "valid" /\ s[j].rec.content.table # NoPeer
             /\ s[j].rec.content.table > s[k].rec.content.top
             /\ \A q \in j + 1 .. k - 1 : s[q].rec.content.table = NoPeer
  BY <1>2, Zenon DEF Stressed
<1>7. entries[i].expect = s[k].expect /\ bytes[i].content = s[k].rec.content
  BY <1>4, <1>5, Zenon
<1> HIDE DEF s, m
<1>8. entries[i].expect = "skip" => bytes[i].content.top # BadPeerIndex
  BY <1>1, <1>6, <1>7
<1>9. ASSUME bytes[i].content.top # NoPeer
      PROVE  ~ Dangling(i)
  <2>1. PICK j \in 1 .. k - 1 :
          /\ s[j].expect = "valid" /\ s[j].rec.content.table # NoPeer
          /\ s[j].rec.content.table > s[k].rec.content.top
          /\ \A q \in j + 1 .. k - 1 : s[q].rec.content.table = NoPeer
    BY <1>6, <1>7, <1>9
  <2>2. j \in 1 .. k /\ m + j \in 1 .. i - 1
    BY <1>3, <1>5
  <2>3. IsTable(m + j)
    BY <1>4, <2>1, <2>2 DEF IsTable
  <2>4. ASSUME NEW q \in (m + j) + 1 .. i - 1
        PROVE  ~ IsTable(q)
    <3>1. q - m \in j + 1 .. k - 1 /\ q - m \in 1 .. k /\ m + (q - m) = q
      BY <1>3, <1>5, <2>2
    <3>2. bytes[q].content.table = NoPeer
      BY <1>4, <2>1, <3>1
    <3>3. QED
      BY <3>2 DEF IsTable
  <2>5. PeersInForce(i) = bytes[m + j].content.table
    BY <1>5, <2>2, <2>3, <2>4, LastTableInForce
  <2>6. PeersInForce(i) = s[j].rec.content.table /\ bytes[i].content.top = s[k].rec.content.top
    BY <1>4, <1>7, <2>2, <2>5
  <2>7. s[j].rec.content.table \in Int /\ s[k].rec.content.top \in Int
    <3>1. s[j] \in Emissions /\ s[k] \in Emissions
      BY <1>3, <2>2
    <3>2. QED
      BY <3>1, ContentsAreNumbers
  <2>8. QED
    BY <2>1, <2>6, <2>7 DEF Dangling
<1>10. QED
  BY <1>8, <1>9, Zenon DEF MeansItsClass, RefersToPeers

(* A finished corpus of the generator is the program of its configuration. *)
LEMMA RecordsMeanTheirClass ==
  ASSUME IInv, Finished, NEW i \in 1 .. Len(entries)
  PROVE  MeansItsClass(i)
<1> DEFINE x == GenerateProfile(cfg)
<1>1. cfg \in Configs /\ phase = "done"
  BY DEF Finished, IInv, BuilderInv, BuilderTypeOK
<1>2. Program[cfg] = x
  BY GeneratedAssumption DEF Finished
<1>3. /\ Len(entries) = Len(Program[cfg])
      /\ \A j \in 1 .. Len(entries) :
           /\ entries[j].expect = Program[cfg][j].expect
           /\ bytes[j].content = Program[cfg][j].rec.content
      /\ Len(entries) \in Nat
  BY <1>1 DEF IInv, BuilderInv, BuilderTypeOK, FromProgram
<1> HIDE DEF x
<1>4. Pushed(x) /\ i \in 1 .. Len(x) /\ Len(x) \in Nat
  BY <1>2, <1>3, Zenon DEF Pushed
<1>5. StandsAt(i, x, Historic(cfg), Boundary(cfg), Stress(cfg), EmitFatal(cfg.fatal))
  BY <1>4, ProgramAt, Zenon DEF x
<1>6. CASE i \in 1 .. Len(Historic(cfg)) /\ \A j \in 1 .. i : x[j] = Historic(cfg)[j]
  BY <1>4, <1>6, HistoricMeans, Zenon
<1>7. CASE /\ i \in Len(Historic(cfg)) + 1 .. Before(cfg)
           /\ i - Len(Historic(cfg)) \in 1 .. Len(Boundary(cfg))
           /\ x[i] = Boundary(cfg)[i - Len(Historic(cfg))]
  BY <1>4, <1>7, BoundaryMeans, Zenon
<1>8. CASE \E k \in 1 .. Len(Stress(cfg)) :
             /\ i = Before(cfg) + k
             /\ \A j \in 1 .. k : x[Before(cfg) + j] = Stress(cfg)[j]
  <2>1. Before(cfg) \in Nat
    <3>1. Len(Boundary(cfg)) \in Nat
      BY EdgeCasesNotAstray DEF Boundary
    <3>2. Len(Historic(cfg)) \in Nat
      BY HistoricShape DEF Headed
    <3>3. QED
      BY <3>1, <3>2 DEF Before
  <2>2. QED
    BY <1>4, <1>8, <2>1, StressMeans, Zenon
<1>9. CASE \E k \in 1 .. Len(EmitFatal(cfg.fatal)) : x[i] = EmitFatal(cfg.fatal)[k]
  <2>1. x[i].expect = "abort"
    BY <1>9, FatalAborts
  <2>2. entries[i].expect = "abort"
    BY <1>4, <2>1 DEF Pushed
  <2>3. QED
    BY <2>2 DEF MeansItsClass
<1>10. QED
  BY <1>5, <1>6, <1>7, <1>8, <1>9, Zenon DEF StandsAt, Before

(* When the program is generate_profile's, what a RIB entry refers to is   *)
(* what its class says, in every configuration, for every number of        *)
(* keepalives and every limit of the index fields: a valid one outside the *)
(* boundary section names a peer of the table in force, the one pushed     *)
(* with a peer index that does not exist names none.                       *)
THEOREM PeerIndicesAreRight == Spec => []PeerIndicesMeanTheirClass
<1>1. IInv => PeerIndicesMeanTheirClass
  <2> SUFFICES ASSUME IInv, Finished PROVE PeerIndicesMeanTheirClass
    BY Zenon DEF PeerIndicesMeanTheirClass
  <2>1. \A i \in 1 .. Len(entries) : MeansItsClass(i)
    BY RecordsMeanTheirClass
  <2>2. \A i \in ValidRibs :
          i \in 1 .. Len(entries) /\ entries[i].expect = "valid" /\ RefersToPeers(i)
    BY Zenon DEF ValidRibs
  <2>3. QED
    BY <2>1, <2>2, Zenon DEF PeerIndicesMeanTheirClass, MeansItsClass
<1>2. QED
  BY <1>1, SpecInv, PTL
=============================================================================
