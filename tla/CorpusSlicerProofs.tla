------------------------- MODULE CorpusSlicerProofs -------------------------
(***************************************************************************)
(* For every set of corpora whose manifests describe their files, and for  *)
(* every selection: a slice of a corpus is a corpus again, so that it can  *)
(* be sliced and judged like one; with a foreign manifest the sizes tell;  *)
(* and the recovery corpora are what they are named for.                   *)
(***************************************************************************)
EXTENDS CorpusSlicer, DataFacts, SequenceTheorems, TLAPS

(***************************************************************************)
(* The inductive invariant.                                                *)
(***************************************************************************)

Typed ==
  /\ job \in Jobs
  /\ at \in 1 .. Len(Source.records) + 1
  /\ out \in Seq(Octets)
  /\ records \in Seq(Entries)
  /\ counts \in [Expectations -> Nat]
  /\ phase \in {"working", "done", "refused"}
  /\ phase = "done" => at = Len(Source.records) + 1

(* Where the octets of kept entry j end.                                   *)
KeptEnd(j) == IF j = Len(records) THEN Len(out) ELSE records[j + 1].offset

(* Entry j is the entry of source record i in its new place, and its       *)
(* octets are what the input had where record i is said to be.             *)
Copied(i, j) ==
  LET r == Source.records[i]
  IN /\ records[j].index = j - 1
     /\ records[j].size = r.size
     /\ records[j].kind = r.kind
     /\ records[j].expect = r.expect
     /\ KeptEnd(j) = records[j].offset + Len(OctetsOf(r))
     /\ KeptEnd(j) <= Len(out)
     /\ SubSeq(out, records[j].offset + 1, KeptEnd(j)) = OctetsOf(r)

(* The picked records before the one at hand are the ones kept, in order.  *)
InOrder ==
  /\ Len(records) = Place(at - 1)
  /\ \A i \in Picked : i < at => Place(i) \in 1 .. Len(records) /\ Copied(i, Place(i))
  /\ \A j \in 1 .. Len(records) : \E i \in Picked : i < at /\ Place(i) = j

Counted ==
  \A x \in Expectations :
    counts[x] = Cardinality({j \in 1 .. Len(records) : records[j].expect = x})

TailIsLast ==
  \A j \in 1 .. Len(records) :
    records[j].expect = "abort" => j = Len(records) /\ at = Len(Source.records) + 1

SliceInv ==
  job.program = "slice" =>
    /\ IF records = << >> THEN out = << >> ELSE records[1].offset = 0
    /\ InOrder
    /\ Counted
    /\ TailIsLast

(* There is a sentinel, and each damaged record before the one at hand has *)
(* its file, or a later one of its kind has.                               *)
MadeBefore == {i \in DamagedPlaces : i < at}

RecoveryInv ==
  job.program = "recovery" =>
    /\ at # 1 \/ phase = "done" => Sentinels # {}
    /\ DOMAIN made = {Source.records[i].kind : i \in MadeBefore}
    /\ \A i \in MadeBefore :
         LastOfKind(i, MadeBefore) =>
           made[Source.records[i].kind] = RecoveryPair(Source.records[i])

IInv == Typed /\ SliceInv /\ RecoveryInv

-----------------------------------------------------------------------------
(* What the inputs are.                                                    *)
LEMMA Inputs ==
  ASSUME job \in Jobs
  PROVE  /\ Data \in Seq(Octets)
         /\ Source \in Manifests
         /\ Source.records \in Seq(Entries)
         /\ Describes(Corpora[job.manifest])
         /\ AbortComesLast(Source.records)
         /\ job.program \in {"slice", "recovery"}
<1>1. job \in Jobs
  OBVIOUS
<1>2. job.mrt \in DOMAIN Corpora /\ job.manifest \in DOMAIN Corpora
  BY <1>1, JobsAssumption
<1>3. Source \in Manifests /\ Data \in Seq(Octets)
  BY <1>2, CorporaAssumption DEF Source, Data
<1>4. Source.records \in Seq(Entries)
  BY <1>3, Zenon DEF Manifests
<1>5. QED
  BY <1>1, <1>2, <1>3, <1>4, CorporaAssumption, JobsAssumption DEF Source

LEMMA EntryFields ==
  ASSUME NEW r \in Entries
  PROVE  /\ r.index \in Nat /\ r.offset \in Nat
         /\ r.size \in Nat /\ r.size > 0
         /\ r.expect \in Expectations
         /\ EndOf(r) \in Nat /\ EndOf(r) = r.offset + r.size
<1>1. r.index \in Nat /\ r.offset \in Nat /\ r.size \in Nat \ {0} /\ r.expect \in Expectations
  BY Zenon DEF Entries
<1>2. QED
  BY <1>1 DEF EndOf

(* An entry stands for as many octets as it says exactly when it ends      *)
(* inside the file.                                                        *)
LEMMA OctetsFound ==
  ASSUME Data \in Seq(Octets), NEW r \in Entries
  PROVE  /\ OctetsOf(r) \in Seq(Octets)
         /\ Len(OctetsOf(r)) \in Nat
         /\ Len(OctetsOf(r)) = r.size <=> EndOf(r) <= Len(Data)
<1> DEFINE stop == IF EndOf(r) < Len(Data) THEN EndOf(r) ELSE Len(Data)
<1>1. /\ r.offset \in Nat /\ r.size \in Nat /\ r.size > 0
      /\ EndOf(r) \in Nat /\ EndOf(r) = r.offset + r.size
  BY EntryFields
<1>2. Len(Data) \in Nat
  OBVIOUS
<1>3. stop \in Int /\ r.offset + 1 \in Int /\ stop <= Len(Data)
  BY <1>1, <1>2
<1>4. OctetsOf(r) = SubSeq(Data, r.offset + 1, stop)
  BY DEF OctetsOf, Slice
<1>5. \A i \in r.offset + 1 .. stop : Data[i] \in Octets
  <2>1. SUFFICES ASSUME NEW i \in r.offset + 1 .. stop
                 PROVE  Data[i] \in Octets
    OBVIOUS
  <2>2. i \in 1 .. Len(Data)
    BY <1>1, <1>2, <1>3
  <2>3. QED
    BY <2>2, ElementOfSeq
<1>6. stop = IF EndOf(r) < Len(Data) THEN EndOf(r) ELSE Len(Data)
  OBVIOUS
<1> HIDE DEF stop
<1>7. /\ OctetsOf(r) \in Seq(Octets)
      /\ Len(OctetsOf(r)) = IF r.offset + 1 <= stop THEN stop - (r.offset + 1) + 1 ELSE 0
  BY <1>3, <1>4, <1>5, SubSeqProperties
<1>8. QED
  BY <1>1, <1>2, <1>3, <1>6, <1>7

-----------------------------------------------------------------------------
(* The entries of a corpus end inside its file: the last one does, and     *)
(* each ends where the next begins.                                        *)
LEMMA EndsInside ==
  ASSUME NEW pair, Len(pair.file) \in Nat, pair.manifest.records \in Seq(Entries),
         SizesAddUp(pair)
  PROVE  \A i \in 1 .. Len(pair.manifest.records) :
           EndOf(pair.manifest.records[i]) <= Len(pair.file)
<1> DEFINE list == pair.manifest.records
           P == {d \in Nat : d < Len(list) => EndOf(list[Len(list) - d]) <= Len(pair.file)}
<1>1. list \in Seq(Entries) /\ Len(list) \in Nat
  OBVIOUS
<1>2. \A i \in 1 .. Len(list) :
        EndOf(list[i]) = IF i = Len(list) THEN Len(pair.file) ELSE list[i + 1].offset
  BY <1>1 DEF SizesAddUp
<1> HIDE DEF list
<1>3. 0 \in P
  <2>1. SUFFICES ASSUME 0 < Len(list)
                 PROVE  EndOf(list[Len(list) - 0]) <= Len(pair.file)
    OBVIOUS
  <2>2. Len(list) - 0 = Len(list) /\ Len(list) \in 1 .. Len(list)
    BY <1>1, <2>1
  <2>3. EndOf(list[Len(list)]) = Len(pair.file)
    BY <1>2, <2>2
  <2>4. EndOf(list[Len(list)]) <= Len(pair.file)
    BY <2>3
  <2>5. QED
    BY <2>2, <2>4
<1>4. ASSUME NEW d \in Nat, d \in P
      PROVE  d + 1 \in P
  <2>1. SUFFICES ASSUME d + 1 < Len(list)
                 PROVE  EndOf(list[Len(list) - (d + 1)]) <= Len(pair.file)
    OBVIOUS
  <2> DEFINE i == Len(list) - (d + 1)
  <2>2. i \in 1 .. Len(list) /\ i # Len(list) /\ i + 1 = Len(list) - d /\ i + 1 \in 1 .. Len(list)
    BY <1>1, <2>1
  <2> HIDE DEF i
  <2>3. EndOf(list[i]) = list[i + 1].offset
    BY <1>2, <2>2
  <2>4. EndOf(list[i + 1]) <= Len(pair.file)
    BY <1>1, <1>4, <2>1, <2>2
  <2>5. list[i + 1] \in Entries
    BY <1>1, <2>2, ElementOfSeq
  <2>6. list[i + 1].offset <= EndOf(list[i + 1])
    BY <2>5, EntryFields
  <2>7. EndOf(list[i]) <= Len(pair.file)
    BY <2>3, <2>4, <2>5, <2>6, EntryFields
  <2>8. QED
    BY <2>7 DEF i
<1> HIDE DEF P
<1>5. \A d \in Nat : d \in P
  BY <1>3, <1>4, SetInduction
<1>6. ASSUME NEW i \in 1 .. Len(list)
      PROVE  EndOf(list[i]) <= Len(pair.file)
  <2>1. Len(list) - i \in Nat /\ Len(list) - i < Len(list) /\ Len(list) - (Len(list) - i) = i
    BY <1>1
  <2>2. Len(list) - i \in P
    BY <1>5, <2>1
  <2>3. QED
    BY <2>1, <2>2 DEF P
<1>7. QED
  BY <1>6 DEF list

-----------------------------------------------------------------------------
(* Counting the picked records from the front.                             *)
LEMMA Places ==
  ASSUME job \in Jobs
  PROVE  /\ Picked \subseteq 1 .. Len(Source.records)
         /\ IsFiniteSet(Picked)
         /\ Place(0) = 0
         /\ \A n \in Nat : Place(n) \in Nat
         /\ \A n \in Nat : Place(n + 1) = IF n + 1 \in Picked THEN Place(n) + 1 ELSE Place(n)
         /\ Place(Len(Source.records)) = Cardinality(Picked)
<1>1. Source.records \in Seq(Entries) /\ Len(Source.records) \in Nat
  BY Inputs
<1>2. Picked \subseteq 1 .. Len(Source.records)
  BY <1>1 DEF Picked
<1>3. IsFiniteSet(1 .. Len(Source.records))
  BY <1>1, FS_Interval
<1>4. IsFiniteSet(Picked)
  BY <1>2, <1>3, FS_Subset
<1>13. \A k \in Picked : k \in Nat /\ 1 <= k /\ k <= Len(Source.records)
  BY <1>1, <1>2
<1> DEFINE Upto(n) == {k \in Picked : k <= n}
<1>5. \A n : Place(n) = Cardinality(Upto(n))
  BY DEF Place
<1>6. \A n : IsFiniteSet(Upto(n))
  <2>1. \A n : Upto(n) \in SUBSET Picked
    OBVIOUS
  <2> HIDE DEF Upto
  <2>2. QED
    BY <1>4, <2>1, FS_Subset
<1>7. Upto(0) = {}
  BY <1>13
<1>8. Upto(Len(Source.records)) = Picked
  BY <1>13
<1>9. ASSUME NEW n \in Nat
      PROVE  Place(n + 1) = IF n + 1 \in Picked THEN Place(n) + 1 ELSE Place(n)
  <2>1. CASE n + 1 \in Picked
    <3>1. Upto(n + 1) = Upto(n) \cup {n + 1}
      BY <1>13, <2>1
    <3>2. n + 1 \notin Upto(n)
      BY <1>9
    <3> HIDE DEF Upto
    <3>3. QED
      BY <2>1, <3>1, <3>2, <1>5, <1>6, FS_AddElement
  <2>2. CASE n + 1 \notin Picked
    <3>1. Upto(n + 1) = Upto(n)
      BY <1>13, <2>2
    <3>2. QED
      BY <2>2, <3>1, <1>5
  <2>3. QED
    BY <2>1, <2>2
<1> HIDE DEF Upto
<1>10. \A n : Place(n) \in Nat
  BY <1>5, <1>6, FS_CardinalityType
<1>11. Place(0) = 0
  BY <1>5, <1>7, FS_EmptySet
<1>12. QED
  BY <1>2, <1>4, <1>5, <1>8, <1>9, <1>10, <1>11

-----------------------------------------------------------------------------
(* The inputs stay what they are.                                          *)
LEMMA SameJob ==
  ASSUME job' = job
  PROVE  /\ Source' = Source /\ Data' = Data
         /\ Picked' = Picked
         /\ Sentinels' = Sentinels
         /\ DamagedPlaces' = DamagedPlaces
         /\ \A n : Place(n)' = Place(n)
         /\ \A r : OctetsOf(r)' = OctetsOf(r)
         /\ \A r : RecoveryPair(r)' = RecoveryPair(r)
<1>1. Source' = Source /\ Data' = Data
  BY DEF Source, Data
<1>2. Picked' = Picked
  BY <1>1 DEF Picked
<1>3. \A n : Place(n)' = Place(n)
  BY <1>2 DEF Place
<1>4. \A r : OctetsOf(r)' = OctetsOf(r)
  BY <1>1 DEF OctetsOf, Slice
<1>5. Sentinels' = Sentinels
  BY <1>1 DEF Sentinels
<1>6. DamagedPlaces' = DamagedPlaces
  BY <1>1 DEF DamagedPlaces, Damaged
<1>7. Sentinel' = Sentinel
  BY <1>1, <1>5 DEF Sentinel
<1>8. \A r : RecoveryPair(r)' = RecoveryPair(r)
  BY <1>4, <1>7 DEF RecoveryPair
<1>9. QED
  BY <1>1, <1>2, <1>3, <1>4, <1>5, <1>6, <1>8

LEMMA InitInv == Init => IInv
<1> SUFFICES ASSUME Init
             PROVE  IInv
  OBVIOUS
<1>1. job \in Jobs /\ at = 1 /\ records = << >> /\ out = << >> /\ made = << >>
  BY DEF Init
<1>2. Len(Source.records) \in Nat
  BY <1>1, Inputs
<1>3. Typed
  BY <1>1, <1>2 DEF Typed, Init
<1>4. SliceInv
  <2>1. Len(records) = Place(at - 1)
    BY <1>1, Places
  <2>2. \A i \in Picked : ~ (i < at)
    BY <1>1, <1>2, Places
  <2>3. Counted
    <3>1. ASSUME NEW x \in Expectations
          PROVE  counts[x] = Cardinality({j \in 1 .. Len(records) : records[j].expect = x})
      <4>1. {j \in 1 .. Len(records) : records[j].expect = x} = {}
        BY <1>1
      <4>2. counts[x] = 0
        BY DEF Init
      <4>3. QED
        BY <4>1, <4>2, FS_EmptySet
    <3>2. QED
      BY <3>1 DEF Counted
  <2>4. QED
    BY <1>1, <2>1, <2>2, <2>3 DEF SliceInv, InOrder, TailIsLast
<1>5. RecoveryInv
  <2>1. MadeBefore = {}
    BY <1>1, <1>2, Inputs DEF MadeBefore, DamagedPlaces
  <2>2. DOMAIN made = {}
    BY <1>1
  <2>3. at = 1 /\ phase # "done"
    BY DEF Init
  <2>4. QED
    BY <2>1, <2>2, <2>3 DEF RecoveryInv
<1>6. QED
  BY <1>3, <1>4, <1>5 DEF IInv

-----------------------------------------------------------------------------
(* Octets behind others are found where they were put.                     *)
LEMMA FoundInFront ==
  ASSUME NEW s \in Seq(Octets), NEW t \in Seq(Octets), NEW a \in Nat, NEW b \in Nat,
         b <= Len(s)
  PROVE  SubSeq(s \o t, a + 1, b) = SubSeq(s, a + 1, b)
<1>1. CASE b < a + 1
  <2>1. SubSeq(s \o t, a + 1, b) = << >>
    BY <1>1, SubSeqEmpty
  <2>2. SubSeq(s, a + 1, b) = << >>
    BY <1>1, SubSeqEmpty
  <2>3. QED
    BY <2>1, <2>2
<1>2. CASE a + 1 <= b
  <2>1. a + 1 \in 1 .. Len(s) /\ b \in 1 .. Len(s)
    BY <1>2
  <2>2. QED
    BY <2>1, SubSeqOfConcat1
<1>3. QED
  BY <1>1, <1>2

LEMMA FoundBehind ==
  ASSUME NEW s \in Seq(Octets), NEW t \in Seq(Octets)
  PROVE  SubSeq(s \o t, Len(s) + 1, Len(s) + Len(t)) = t
<1>1. Len(s) \in Nat /\ Len(t) \in Nat
  OBVIOUS
<1>2. CASE t = << >>
  <2>1. Len(t) = 0
    BY <1>2
  <2>2. SubSeq(s \o t, Len(s) + 1, Len(s) + Len(t)) = << >>
    BY <1>1, <2>1, SubSeqEmpty
  <2>3. QED
    BY <1>2, <2>2
<1>3. CASE t # << >>
  <2>1. Len(t) > 0
    BY <1>3
  <2> DEFINE m == Len(s) + 1
             n == Len(s) + Len(t)
  <2>2. m \in Len(s) + 1 .. Len(s) + Len(t) /\ n \in Len(s) + 1 .. Len(s) + Len(t)
    BY <1>1, <2>1
  <2>3. m - Len(s) = 1 /\ n - Len(s) = Len(t)
    BY <1>1
  <2> HIDE DEF m, n
  <2>4. SubSeq(s \o t, m, n) = SubSeq(t, m - Len(s), n - Len(s))
    BY <2>2, SubSeqOfConcat2
  <2>5. SubSeq(s \o t, m, n) = SubSeq(t, 1, Len(t))
    BY <2>3, <2>4
  <2>6. SubSeq(t, 1, Len(t)) = t
    BY SubSeqFull
  <2>7. QED
    BY <2>5, <2>6 DEF m, n
<1>4. QED
  BY <1>2, <1>3

(* What Keep does, in the terms of the invariant.                          *)
LEMMA KeepFacts ==
  ASSUME Typed, SliceInv, Keep
  PROVE  /\ job' = job /\ phase' = phase /\ at' = at + 1
         /\ at \in Picked /\ at \in 1 .. Len(Source.records)
         /\ Record = Source.records[at] /\ Record \in Entries
         /\ Place(at) = Len(records) + 1
         /\ OctetsOf(Record) \in Seq(Octets)
         /\ out' = out \o OctetsOf(Record)
         /\ out' \in Seq(Octets)
         /\ Len(out') = Len(out) + Len(OctetsOf(Record))
         /\ records' \in Seq(Entries)
         /\ Len(records') = Len(records) + 1
         /\ \A j \in 1 .. Len(records) : records'[j] = records[j]
         /\ records'[Len(records) + 1].index = Len(records)
         /\ records'[Len(records) + 1].offset = Len(out)
         /\ records'[Len(records) + 1].size = Record.size
         /\ records'[Len(records) + 1].kind = Record.kind
         /\ records'[Len(records) + 1].expect = Record.expect
<1> DEFINE new == Renumbered(Record, Len(records), Len(out))
<1>1. /\ job \in Jobs /\ at \in 1 .. Len(Source.records) + 1
      /\ out \in Seq(Octets) /\ records \in Seq(Entries)
  BY DEF Typed
<1>2. Source.records \in Seq(Entries) /\ Len(Source.records) \in Nat /\ Data \in Seq(Octets)
  BY <1>1, Inputs
<1>3. job' = job /\ phase' = phase /\ at' = at + 1 /\ job.program = "slice"
  BY DEF Keep, Working
<1>4. at \in 1 .. Len(Source.records)
  BY <1>1, <1>2 DEF Keep, Working
<1>5. Record = Source.records[at] /\ Record \in Entries
  BY <1>2, <1>4, ElementOfSeq DEF Record
<1>6. at \in Picked
  BY <1>2, <1>4, <1>5 DEF Keep, Picked
<1>7. Place(at) = Len(records) + 1
  <2>1. at - 1 \in Nat /\ at - 1 + 1 = at
    BY <1>4
  <2>2. Place(at - 1) = Len(records)
    BY <1>3 DEF SliceInv, InOrder
  <2>3. QED
    BY <1>1, <1>6, <2>1, <2>2, Places
<1>8. OctetsOf(Record) \in Seq(Octets)
  BY <1>2, <1>5, OctetsFound
<1>9. /\ out' = out \o OctetsOf(Record) /\ out' \in Seq(Octets)
      /\ Len(out') = Len(out) + Len(OctetsOf(Record))
  BY <1>1, <1>8, ConcatProperties DEF Keep
<1>10. Len(records) \in Nat /\ Len(out) \in Nat
  BY <1>1
<1>11. new = [Record EXCEPT !.index = Len(records), !.offset = Len(out)]
  BY DEF Renumbered
<1>12. /\ new.index = Len(records) /\ new.offset = Len(out) /\ new.size = Record.size
       /\ new.kind = Record.kind /\ new.expect = Record.expect
       /\ new \in Entries
  BY <1>5, <1>10, <1>11 DEF Entries
<1>13. records' = Append(records, new)
  BY DEF Keep
<1> HIDE DEF new
<1>14. /\ records' \in Seq(Entries) /\ Len(records') = Len(records) + 1
       /\ \A j \in 1 .. Len(records) : records'[j] = records[j]
       /\ records'[Len(records) + 1] = new
  BY <1>1, <1>12, <1>13, AppendProperties
<1>15. QED
  BY <1>3, <1>4, <1>5, <1>6, <1>7, <1>8, <1>9, <1>12, <1>14

(* The entries kept before keep their octets, and the new one has its own. *)
LEMMA KeepCopies ==
  ASSUME Typed, SliceInv, Keep
  PROVE  \A i \in Picked : i < at' => Place(i) \in 1 .. Len(records') /\ Copied(i, Place(i))'
<1> DEFINE n == Len(records)
           oct == OctetsOf(Record)
<1>1. /\ out \in Seq(Octets) /\ records \in Seq(Entries) /\ job \in Jobs
      /\ n \in Nat /\ Len(out) \in Nat
  BY DEF Typed
<1>2. job.program = "slice"
  BY DEF Keep, Working
<1>3. \A i \in Picked : i < at => Place(i) \in 1 .. n /\ Copied(i, Place(i))
  BY <1>2 DEF SliceInv, InOrder
<1>4. /\ at' = at + 1 /\ at \in Picked /\ at \in 1 .. Len(Source.records)
      /\ Place(at) = n + 1 /\ Record = Source.records[at]
      /\ oct \in Seq(Octets) /\ out' = out \o oct /\ Len(out') = Len(out) + Len(oct)
      /\ Len(records') = n + 1
  BY KeepFacts
<1>5. /\ \A j \in 1 .. n : records'[j] = records[j]
      /\ records'[n + 1].index = n /\ records'[n + 1].offset = Len(out)
      /\ records'[n + 1].size = Record.size /\ records'[n + 1].kind = Record.kind
      /\ records'[n + 1].expect = Record.expect
  BY KeepFacts
<1>6. Source' = Source /\ \A r : OctetsOf(r)' = OctetsOf(r)
  BY KeepFacts, SameJob
<1>7. Len(oct) \in Nat
  BY <1>4
<1>8. \A j \in 1 .. n : KeptEnd(j)' = KeptEnd(j)
  <2>1. SUFFICES ASSUME NEW j \in 1 .. n
                 PROVE  KeptEnd(j)' = KeptEnd(j)
    OBVIOUS
  <2>2. KeptEnd(j)' = records'[j + 1].offset
    BY <1>1, <1>4 DEF KeptEnd
  <2>3. CASE j = n
    BY <1>5, <2>2, <2>3 DEF KeptEnd
  <2>4. CASE j # n
    <3>1. j + 1 \in 1 .. n
      BY <1>1, <2>4
    <3>2. QED
      BY <1>5, <2>2, <2>4, <3>1 DEF KeptEnd
  <2>5. QED
    BY <2>3, <2>4
<1>9. ASSUME NEW m, m = n + 1
      PROVE  KeptEnd(m)' = Len(out) + Len(oct)
  BY <1>4, <1>9 DEF KeptEnd
<1> HIDE DEF n, oct
<1>10. ASSUME NEW i \in Picked, i < at
       PROVE  Copied(i, Place(i))'
  <2> DEFINE r == Source.records[i]
             j == Place(i)
  <2>1. j \in 1 .. n /\ Copied(i, j)
    BY <1>3, <1>10
  <2>2. i \in 1 .. Len(Source.records) /\ r \in Entries
    BY <1>1, Inputs, Places, ElementOfSeq
  <2>3. OctetsOf(r) \in Seq(Octets) /\ Len(OctetsOf(r)) \in Nat
    BY <1>1, <2>2, Inputs, OctetsFound
  <2>4. records[j] \in Entries
    BY <1>1, <2>1, ElementOfSeq DEF n
  <2>5. records[j].offset \in Nat
    BY <2>4, EntryFields
  <2> HIDE DEF r, j
  <2>6. /\ records[j].index = j - 1 /\ records[j].size = r.size
        /\ records[j].kind = r.kind /\ records[j].expect = r.expect
        /\ KeptEnd(j) = records[j].offset + Len(OctetsOf(r))
        /\ KeptEnd(j) <= Len(out)
        /\ SubSeq(out, records[j].offset + 1, KeptEnd(j)) = OctetsOf(r)
    BY <2>1 DEF Copied, r
  <2>7. KeptEnd(j) \in Nat
    BY <2>3, <2>5, <2>6
  <2>8. SubSeq(out', records[j].offset + 1, KeptEnd(j)) = SubSeq(out, records[j].offset + 1, KeptEnd(j))
    BY <1>1, <1>4, <2>5, <2>6, <2>7, FoundInFront
  <2>9. KeptEnd(j) <= Len(out')
    BY <1>1, <1>4, <1>7, <2>6, <2>7
  <2>10. j' = j /\ r' = r
    BY <1>6, KeepFacts, SameJob DEF j, r
  <2>11. /\ records'[j] = records[j] /\ KeptEnd(j)' = KeptEnd(j)
         /\ OctetsOf(r)' = OctetsOf(r)
    BY <1>5, <1>6, <1>8, <2>1, <2>10
  <2>12. Copied(i, j)'
    BY <2>6, <2>8, <2>9, <2>10, <2>11 DEF Copied, r
  <2>13. QED
    BY <2>12 DEF j
<1>11. ASSUME NEW i, i = at, NEW m, m = n + 1
       PROVE  Copied(i, m)'
  <2>1. SubSeq(out', Len(out) + 1, Len(out) + Len(oct)) = oct
    BY <1>1, <1>4, FoundBehind
  <2>2. KeptEnd(m)' = Len(out) + Len(oct)
    BY <1>9, <1>11
  <2>3. OctetsOf(Source.records[i])' = oct /\ Source'.records[i] = Record
    BY <1>4, <1>6, <1>11 DEF oct
  <2>4. records'[m].offset = Len(out) /\ m - 1 = n
    BY <1>1, <1>5, <1>11
  <2>5. /\ records'[m].index = m - 1 /\ records'[m].size = Record.size
        /\ records'[m].kind = Record.kind /\ records'[m].expect = Record.expect
    BY <1>5, <1>11, <2>4
  <2>6. KeptEnd(m)' <= Len(out')
    BY <1>1, <1>4, <1>7, <2>2
  <2>7. SubSeq(out', records'[m].offset + 1, KeptEnd(m)') = oct
    BY <2>1, <2>2, <2>4
  <2>8. QED
    BY <2>2, <2>3, <2>4, <2>5, <2>6, <2>7 DEF Copied
<1>12. ASSUME NEW i \in Picked, i < at'
       PROVE  Place(i) \in 1 .. Len(records') /\ Copied(i, Place(i))'
  <2>1. CASE i = at
    <3>1. Place(i) = n + 1
      BY <1>4, <2>1
    <3>2. Place(i)' = Place(i)
      BY KeepFacts, SameJob
    <3>3. \A m : m = Place(i) => Copied(i, m)'
      BY <1>11, <2>1, <3>1
    <3>4. Copied(i, Place(i))'
      BY <3>2, <3>3
    <3>5. QED
      BY <1>1, <1>4, <3>1, <3>4
  <2>2. CASE i # at
    <3>1. i < at
      BY <1>1, <1>4, <1>12, <2>2, Inputs, Places
    <3>2. QED
      BY <1>1, <1>3, <1>4, <1>10, <3>1
  <2>3. QED
    BY <2>1, <2>2
<1>13. QED
  BY <1>12

(* The counts are still those of the entries.                              *)
LEMMA KeepCounts ==
  ASSUME Typed, SliceInv, Keep
  PROVE  Counted' /\ counts' \in [Expectations -> Nat]
<1>1. /\ counts \in [Expectations -> Nat] /\ records \in Seq(Entries) /\ Len(records) \in Nat
      /\ Counted
  BY DEF Typed, SliceInv, Keep, Working
<1>2. /\ Len(records') = Len(records) + 1
      /\ \A j \in 1 .. Len(records) : records'[j] = records[j]
      /\ records'[Len(records) + 1].expect = Record.expect
      /\ Record \in Entries
  BY KeepFacts
<1>3. Record.expect \in Expectations
  BY <1>2, EntryFields
<1>4. counts' = [counts EXCEPT ![Record.expect] = counts[Record.expect] + 1]
  BY DEF Keep
<1>5. counts' \in [Expectations -> Nat]
  BY <1>1, <1>3, <1>4
<1>6. ASSUME NEW x \in Expectations
      PROVE  counts'[x] = Cardinality({j \in 1 .. Len(records') : records'[j].expect = x})
  <2> DEFINE S == {j \in 1 .. Len(records) : records[j].expect = x}
             T == {j \in 1 .. Len(records') : records'[j].expect = x}
  <2>1. IsFiniteSet(S)
    <3>1. S \in SUBSET (1 .. Len(records))
      OBVIOUS
    <3>2. IsFiniteSet(1 .. Len(records))
      BY <1>1, FS_Interval
    <3>3. QED
      BY <3>1, <3>2, FS_Subset
  <2>2. counts[x] = Cardinality(S)
    BY <1>1 DEF Counted
  <2>3. CASE x = Record.expect
    <3>1. T = S \cup {Len(records) + 1}
      BY <1>1, <1>2, <2>3
    <3>2. Len(records) + 1 \notin S
      BY <1>1
    <3> HIDE DEF S, T
    <3>3. Cardinality(T) = Cardinality(S) + 1
      BY <2>1, <3>1, <3>2, FS_AddElement
    <3>4. counts'[x] = counts[x] + 1
      BY <1>1, <1>4, <2>3
    <3>5. QED
      BY <2>2, <3>3, <3>4 DEF T
  <2>4. CASE x # Record.expect
    <3>1. T = S
      BY <1>1, <1>2, <2>4
    <3>2. counts'[x] = counts[x]
      BY <1>1, <1>3, <1>4, <2>4
    <3> HIDE DEF S, T
    <3>3. QED
      BY <2>2, <3>1, <3>2 DEF T
  <2>5. QED
    BY <2>3, <2>4
<1>7. QED
  BY <1>5, <1>6 DEF Counted

LEMMA KeepKeeps ==
  ASSUME IInv, Keep
  PROVE  IInv'
<1>1. Typed /\ SliceInv
  BY DEF IInv
<1>2. /\ job \in Jobs /\ at \in 1 .. Len(Source.records) + 1 /\ records \in Seq(Entries)
      /\ Len(records) \in Nat /\ phase = "working" /\ job.program = "slice"
      /\ Len(Source.records) \in Nat
  BY <1>1, Inputs DEF Typed, Keep, Working
<1>3. /\ job' = job /\ phase' = phase /\ at' = at + 1
      /\ at \in Picked /\ at \in 1 .. Len(Source.records)
      /\ Place(at) = Len(records) + 1
      /\ Record = Source.records[at]
      /\ out' \in Seq(Octets) /\ records' \in Seq(Entries) /\ Len(records') = Len(records) + 1
  BY <1>1, KeepFacts
<1>4. /\ \A j \in 1 .. Len(records) : records'[j] = records[j]
      /\ records'[Len(records) + 1].offset = Len(out)
      /\ records'[Len(records) + 1].expect = Record.expect
  BY <1>1, KeepFacts
<1>5. Source' = Source /\ Picked' = Picked /\ \A n : Place(n)' = Place(n)
  BY <1>3, SameJob
<1>6. Counted' /\ counts' \in [Expectations -> Nat]
  BY <1>1, KeepCounts
<1>7. Typed'
  BY <1>2, <1>3, <1>5, <1>6 DEF Typed
<1>8. records' # << >> /\ records'[1].offset = 0
  <2>3. records' # << >>
    <3>1. Len(records') # 0
      BY <1>2, <1>3
    <3>2. QED
      BY <3>1
  <2>1. CASE records = << >>
    <3>1. Len(records) = 0 /\ out = << >>
      BY <1>1, <1>2, <2>1 DEF SliceInv
    <3>2. Len(out) = 0
      BY <3>1
    <3>3. records'[1].offset = 0
      BY <1>4, <3>1, <3>2
    <3>4. QED
      BY <2>3, <3>3
  <2>2. CASE records # << >>
    <3>1. 1 \in 1 .. Len(records) /\ records[1].offset = 0
      BY <1>1, <1>2, <2>2 DEF SliceInv
    <3>2. records'[1].offset = 0
      BY <1>4, <3>1
    <3>3. QED
      BY <2>3, <3>2
  <2>4. QED
    BY <2>1, <2>2
<1>9. InOrder'
  <2>1. at' - 1 = at
    BY <1>2, <1>3
  <2>2. Len(records') = Place(at' - 1)
    BY <1>3, <2>1
  <2>3. Len(records') = Place(at - 1)'
    BY <1>5, <2>2
  <2>4. \A i \in Picked : i < at' => Place(i) \in 1 .. Len(records') /\ Copied(i, Place(i))'
    BY <1>1, KeepCopies
  <2>5. ASSUME NEW j \in 1 .. Len(records')
        PROVE  \E i \in Picked : i < at' /\ Place(i) = j
    <3>1. CASE j = Len(records) + 1
      BY <1>2, <1>3, <3>1
    <3>2. CASE j # Len(records) + 1
      <4>1. j \in 1 .. Len(records)
        BY <1>2, <1>3, <3>2
      <4>2. PICK i \in Picked : i < at /\ Place(i) = j
        BY <1>1, <1>2, <4>1 DEF SliceInv, InOrder
      <4>3. i \in Nat
        BY <1>2, Places
      <4>4. i < at'
        BY <1>2, <1>3, <4>2, <4>3
      <4>5. QED
        BY <4>2, <4>4
    <3>3. QED
      BY <3>1, <3>2
  <2>6. QED
    BY <1>5, <2>3, <2>4, <2>5 DEF InOrder
<1>10. TailIsLast'
  <2>1. SUFFICES ASSUME NEW j \in 1 .. Len(records'), records'[j].expect = "abort"
                 PROVE  j = Len(records') /\ at' = Len(Source.records) + 1
    BY <1>5 DEF TailIsLast
  <2>2. CASE j = Len(records) + 1
    <3>1. Source.records[at].expect = "abort"
      BY <1>3, <1>4, <2>1, <2>2
    <3>2. at = Len(Source.records)
      BY <1>2, <1>3, <3>1, Inputs DEF AbortComesLast
    <3>3. QED
      BY <1>3, <2>2, <3>2
  <2>3. CASE j # Len(records) + 1
    <3>1. j \in 1 .. Len(records) /\ records[j].expect = "abort"
      BY <1>2, <1>3, <1>4, <2>1, <2>3
    <3>2. at = Len(Source.records) + 1
      BY <1>1, <1>2, <3>1 DEF SliceInv, TailIsLast
    <3>3. QED
      BY <1>2, <1>3, <3>2
  <2>4. QED
    BY <2>2, <2>3
<1>11. SliceInv' /\ RecoveryInv'
  BY <1>2, <1>3, <1>6, <1>8, <1>9, <1>10 DEF SliceInv, RecoveryInv
<1>12. QED
  BY <1>7, <1>11 DEF IInv

-----------------------------------------------------------------------------
(* A record that is not picked leaves everything where it is.              *)
LEMMA DropKeeps ==
  ASSUME IInv, Drop
  PROVE  IInv'
<1>1. Typed /\ SliceInv
  BY DEF IInv
<1>2. /\ job \in Jobs /\ at \in 1 .. Len(Source.records) + 1
      /\ phase = "working" /\ job.program = "slice"
      /\ Len(Source.records) \in Nat
      /\ at <= Len(Source.records) /\ ~ Selected(job, Record)
      /\ at' = at + 1 /\ UNCHANGED <<job, out, records, counts, made, phase>>
  BY <1>1, Inputs DEF Typed, Drop, Working
<1>3. /\ Source' = Source /\ Picked' = Picked /\ \A n : Place(n)' = Place(n)
      /\ \A r : OctetsOf(r)' = OctetsOf(r)
  BY <1>2, SameJob
<1>4. at \notin Picked
  BY <1>2 DEF Picked, Record
<1>5. Place(at' - 1) = Place(at - 1)
  <2>1. at - 1 \in Nat /\ (at - 1) + 1 = at /\ at' - 1 = at
    BY <1>2
  <2>2. QED
    BY <1>2, <1>4, <2>1, Places
<1>6. Typed'
  BY <1>1, <1>2, <1>3 DEF Typed
<1>7. \A i, j : Copied(i, j)' <=> Copied(i, j)
  BY <1>2, <1>3 DEF Copied, KeptEnd
<1>8. \A i \in Picked : i < at' <=> i < at
  <2>1. SUFFICES ASSUME NEW i \in Picked
                 PROVE  i < at' <=> i < at
    OBVIOUS
  <2>2. i # at
    BY <1>4
  <2>3. i \in Nat
    BY <1>2, Places
  <2>4. QED
    BY <1>2, <2>2, <2>3
<1>9. InOrder'
  <2>1. InOrder
    BY <1>1, <1>2 DEF SliceInv
  <2>2. Len(records') = Place(at - 1)'
    BY <1>2, <1>3, <1>5, <2>1 DEF InOrder
  <2>3. ASSUME NEW i \in Picked, i < at'
        PROVE  Place(i)' \in 1 .. Len(records') /\ Copied(i, Place(i))'
    <3>1. Place(i) \in 1 .. Len(records) /\ Copied(i, Place(i))
      BY <1>8, <2>1, <2>3 DEF InOrder
    <3>2. Place(i)' = Place(i)
      BY <1>3
    <3>3. \A j : j = Place(i) => Copied(i, j)'
      BY <1>7, <3>1
    <3>4. Copied(i, Place(i))'
      BY <3>2, <3>3
    <3>5. QED
      BY <1>2, <3>1, <3>2, <3>4
  <2>4. \A j \in 1 .. Len(records') : \E i \in Picked : i < at' /\ Place(i) = j
    BY <1>2, <1>8, <2>1 DEF InOrder
  <2>5. QED
    BY <1>3, <2>2, <2>3, <2>4 DEF InOrder
<1>10. Counted'
  BY <1>1, <1>2 DEF SliceInv, Counted
<1>11. TailIsLast'
  BY <1>1, <1>2, <1>3 DEF SliceInv, TailIsLast
<1>12. SliceInv' /\ RecoveryInv'
  BY <1>1, <1>2, <1>9, <1>10, <1>11 DEF SliceInv, RecoveryInv
<1>13. QED
  BY <1>6, <1>12 DEF IInv

(* The ends of a run.                                                      *)
LEMMA EndsKeep ==
  ASSUME IInv, RefuseSentinel \/ Finish \/ UNCHANGED vars
  PROVE  IInv'
<1>1. Typed /\ SliceInv /\ RecoveryInv
  BY DEF IInv
<1>2. UNCHANGED <<job, at, out, records, counts, made>>
  BY DEF RefuseSentinel, Finish, vars
<1>3. /\ Source' = Source /\ Picked' = Picked /\ \A n : Place(n)' = Place(n)
      /\ \A r : OctetsOf(r)' = OctetsOf(r)
      /\ \A r : RecoveryPair(r)' = RecoveryPair(r)
      /\ Sentinels' = Sentinels /\ DamagedPlaces' = DamagedPlaces
  BY <1>2, SameJob
<1>4. /\ job \in Jobs /\ Len(Source.records) \in Nat /\ at \in 1 .. Len(Source.records) + 1
      /\ job.program \in {"slice", "recovery"}
  BY <1>1, Inputs DEF Typed
<1>5. /\ phase' \in {"working", "done", "refused"}
      /\ phase' = "done" => at = Len(Source.records) + 1
      /\ phase' = "done" /\ job.program = "recovery" => Sentinels # {}
  BY <1>1, <1>4 DEF Typed, RecoveryInv, RefuseSentinel, Finish, vars
<1>6. Typed'
  BY <1>1, <1>2, <1>3, <1>5 DEF Typed
<1>7. SliceInv'
  <2>1. \A i, j : Copied(i, j)' <=> Copied(i, j)
    BY <1>2, <1>3 DEF Copied, KeptEnd
  <2>2. InOrder => InOrder'
    <3>1. SUFFICES ASSUME InOrder
                   PROVE  InOrder'
      OBVIOUS
    <3>2. Len(records') = Place(at - 1)'
      BY <1>2, <1>3, <3>1 DEF InOrder
    <3>3. ASSUME NEW i \in Picked, i < at
          PROVE  Place(i)' \in 1 .. Len(records') /\ Copied(i, Place(i))'
      <4>1. Place(i) \in 1 .. Len(records) /\ Copied(i, Place(i))
        BY <3>1, <3>3 DEF InOrder
      <4>2. Place(i)' = Place(i)
        BY <1>3
      <4>3. \A j : j = Place(i) => Copied(i, j)'
        BY <2>1, <4>1
      <4>4. Copied(i, Place(i))'
        BY <4>2, <4>3
      <4>5. QED
        BY <1>2, <4>1, <4>2, <4>4
    <3>4. QED
      BY <1>2, <1>3, <3>1, <3>2, <3>3 DEF InOrder
  <2>3. (Counted => Counted') /\ (TailIsLast => TailIsLast')
    BY <1>2, <1>3 DEF Counted, TailIsLast
  <2>4. QED
    BY <1>1, <1>2, <2>2, <2>3 DEF SliceInv
<1>8. RecoveryInv'
  <2>1. MadeBefore' = MadeBefore
    BY <1>2, <1>3 DEF MadeBefore
  <2>2. \A i : LastOfKind(i, MadeBefore)' <=> LastOfKind(i, MadeBefore)
    BY <1>3, <2>1 DEF LastOfKind
  <2>3. QED
    BY <1>1, <1>2, <1>3, <1>5, <2>1, <2>2 DEF RecoveryInv
<1>9. QED
  BY <1>6, <1>7, <1>8 DEF IInv

-----------------------------------------------------------------------------
(* What both actions of the recovery maker find.                           *)
LEMMA AtRecovery ==
  ASSUME IInv, Working("recovery"), Sentinels # {}, at' = at + 1,
         UNCHANGED <<job, out, records, counts, phase>>
  PROVE  /\ Typed' /\ SliceInv'
         /\ job.program = "recovery" /\ phase' # "done"
         /\ at \in 1 .. Len(Source.records) /\ MadeBefore \subseteq Nat
         /\ Record = Source.records[at]
         /\ Source' = Source /\ Sentinels' = Sentinels
         /\ MadeBefore' = IF Damaged(Record) THEN MadeBefore \cup {at} ELSE MadeBefore
         /\ \A r : RecoveryPair(r)' = RecoveryPair(r)
<1>1. Typed
  BY DEF IInv
<1>2. /\ job \in Jobs /\ Len(Source.records) \in Nat /\ at \in 1 .. Len(Source.records) + 1
      /\ Source.records \in Seq(Entries)
      /\ job.program = "recovery" /\ phase = "working" /\ at <= Len(Source.records)
  BY <1>1, Inputs DEF Typed, Working
<1>3. at \in 1 .. Len(Source.records)
  BY <1>2
<1>4. /\ Source' = Source /\ Sentinels' = Sentinels /\ DamagedPlaces' = DamagedPlaces
      /\ \A r : RecoveryPair(r)' = RecoveryPair(r)
  BY SameJob
<1>5. Typed'
  BY <1>1, <1>2, <1>3, <1>4 DEF Typed
<1>6. SliceInv'
  BY <1>2 DEF SliceInv
<1>7. \A i \in DamagedPlaces : i \in 1 .. Len(Source.records) /\ i \in Nat
  BY <1>2 DEF DamagedPlaces
<1>8. at \in DamagedPlaces <=> Damaged(Record)
  BY <1>2, <1>3 DEF DamagedPlaces, Record
<1>9. MadeBefore' = {i \in DamagedPlaces : i < at + 1}
  BY <1>4 DEF MadeBefore
<1>10. MadeBefore' = IF Damaged(Record) THEN MadeBefore \cup {at} ELSE MadeBefore
  <2>1. CASE Damaged(Record)
    <3>1. at \in DamagedPlaces
      BY <1>8, <2>1
    <3>2. \A i \in DamagedPlaces : i < at + 1 <=> i < at \/ i = at
      BY <1>2, <1>7
    <3>3. MadeBefore' = MadeBefore \cup {at}
      BY <1>9, <3>1, <3>2 DEF MadeBefore
    <3>4. QED
      BY <2>1, <3>3
  <2>2. CASE ~ Damaged(Record)
    <3>1. at \notin DamagedPlaces
      BY <1>8, <2>2
    <3>2. \A i \in DamagedPlaces : i # at
      BY <3>1
    <3>3. \A i : i \in MadeBefore' <=> i \in MadeBefore
      BY <1>2, <1>7, <1>9, <3>2 DEF MadeBefore
    <3>4. QED
      BY <2>2, <3>3
  <2>3. QED
    BY <2>1, <2>2
<1>11. MadeBefore \subseteq Nat
  BY <1>7 DEF MadeBefore
<1>12. QED
  BY <1>2, <1>3, <1>4, <1>5, <1>6, <1>10, <1>11 DEF Record

(* A record that is not damaged is passed over.                            *)
LEMMA PassOverKeeps ==
  ASSUME IInv, PassOver
  PROVE  IInv'
<1>1. /\ Typed' /\ SliceInv' /\ job.program = "recovery" /\ Source' = Source
      /\ Sentinels' = Sentinels /\ Sentinels # {} /\ made' = made
      /\ MadeBefore' = MadeBefore /\ \A r : RecoveryPair(r)' = RecoveryPair(r)
  BY AtRecovery DEF PassOver
<1>2. \A i : LastOfKind(i, MadeBefore)' <=> LastOfKind(i, MadeBefore)
  BY <1>1 DEF LastOfKind
<1>3. RecoveryInv'
  BY <1>1, <1>2 DEF RecoveryInv, IInv
<1>4. QED
  BY <1>1, <1>3 DEF IInv

(* The file of a damaged record replaces that of an earlier one of its     *)
(* kind and no other.                                                      *)
LEMMA MakeKeeps ==
  ASSUME IInv, MakeRecovery
  PROVE  IInv'
<1> DEFINE kind(i) == Source.records[i].kind
<1>1. /\ Typed' /\ SliceInv' /\ job.program = "recovery" /\ Source' = Source
      /\ Sentinels' = Sentinels /\ Sentinels # {}
      /\ at \in 1 .. Len(Source.records) /\ MadeBefore \subseteq Nat
      /\ Record = Source.records[at]
      /\ MadeBefore' = MadeBefore \cup {at} /\ \A r : RecoveryPair(r)' = RecoveryPair(r)
  BY AtRecovery DEF MakeRecovery
<1>2. Len(Source.records) \in Nat
  BY Inputs DEF IInv, Typed
<1>3. \A i \in MadeBefore : i < at
  BY DEF MadeBefore
<1>4. /\ DOMAIN made = {kind(i) : i \in MadeBefore}
      /\ \A i \in MadeBefore :
           LastOfKind(i, MadeBefore) => made[kind(i)] = RecoveryPair(Source.records[i])
  BY <1>1 DEF IInv, RecoveryInv
<1>5. made' = [k \in DOMAIN made \cup {kind(at)} |->
                IF k = kind(at) THEN RecoveryPair(Record) ELSE made[k]]
  BY <1>1 DEF MakeRecovery
<1>6. DOMAIN made' = {kind(i) : i \in MadeBefore'}
  BY <1>1, <1>4, <1>5
<1>7. ASSUME NEW i \in MadeBefore', LastOfKind(i, MadeBefore')
      PROVE  made'[kind(i)] = RecoveryPair(Source.records[i])
  <2>1. CASE i = at
    BY <1>1, <1>5, <2>1
  <2>2. CASE i # at
    <3>1. i \in MadeBefore /\ i \in Nat
      BY <1>1, <2>2
    <3>2. kind(i) # kind(at)
      <4>1. SUFFICES ASSUME kind(i) = kind(at)
                     PROVE  FALSE
        OBVIOUS
      <4>2. at <= i
        BY <1>1, <1>7, <4>1 DEF LastOfKind
      <4>3. QED
        BY <1>1, <1>2, <1>3, <3>1, <4>2
    <3>3. LastOfKind(i, MadeBefore)
      BY <1>1, <1>7 DEF LastOfKind
    <3>4. made[kind(i)] = RecoveryPair(Source.records[i]) /\ kind(i) \in DOMAIN made
      BY <1>4, <3>1, <3>3
    <3>5. QED
      BY <1>5, <3>2, <3>4
  <2>3. QED
    BY <2>1, <2>2
<1>8. ASSUME NEW i \in MadeBefore', LastOfKind(i, MadeBefore)'
      PROVE  made'[Source'.records[i].kind] = RecoveryPair(Source.records[i])'
  <2>1. LastOfKind(i, MadeBefore')
    BY <1>1, <1>8 DEF LastOfKind
  <2>2. made'[kind(i)] = RecoveryPair(Source.records[i])
    BY <1>7, <2>1
  <2>3. RecoveryPair(Source.records[i])' = RecoveryPair(Source.records[i])
    BY <1>1
  <2>4. QED
    BY <1>1, <2>2, <2>3
<1>9. RecoveryInv'
  BY <1>1, <1>6, <1>8 DEF RecoveryInv
<1>10. QED
  BY <1>1, <1>9 DEF IInv

LEMMA NextInv == IInv /\ [Next]_vars => IInv'
<1> SUFFICES ASSUME IInv, [Next]_vars
             PROVE  IInv'
  OBVIOUS
<1>1. CASE Keep
  BY <1>1, KeepKeeps
<1>2. CASE Drop
  BY <1>2, DropKeeps
<1>3. CASE RefuseSentinel \/ Finish \/ UNCHANGED vars
  BY <1>3, EndsKeep
<1>4. CASE MakeRecovery
  BY <1>4, MakeKeeps
<1>5. CASE PassOver
  BY <1>5, PassOverKeeps
<1>6. QED
  BY <1>1, <1>2, <1>3, <1>4, <1>5 DEF Next

(* The inductive invariant holds.                                          *)
THEOREM SpecInv == Spec => []IInv
<1>1. QED
  BY InitInv, NextInv, PTL DEF Spec

-----------------------------------------------------------------------------
(***************************************************************************)
(* What the invariant is for.                                              *)
(***************************************************************************)

(* The parts of the slice that is written.                                 *)
LEMMA SlicedParts ==
  ASSUME job \in Jobs
  PROVE  /\ Sliced.file = out
         /\ Sliced.manifest.size = Len(out)
         /\ Sliced.manifest.counts = counts
         /\ Sliced.manifest.records = records
<1>1. Source \in Manifests
  BY Inputs
<1>2. Source = [size |-> Source.size, counts |-> Source.counts, records |-> Source.records]
  BY <1>1 DEF Manifests
<1>3. QED
  BY <1>2 DEF Sliced

Inside == \A i \in Picked : EndOf(Source.records[i]) <= Len(Data)

(* A finished slice: every entry is that of a picked record, and the two   *)
(* agree about where its octets end if and only if the record was inside   *)
(* the file.                                                               *)
LEMMA SliceDone ==
  ASSUME IInv, phase = "done", job.program = "slice"
  PROVE  /\ Len(records) \in Nat
         /\ Len(records) = Cardinality(Picked)
         /\ \A i \in Picked :
              /\ Place(i) \in 1 .. Len(records) /\ Copied(i, Place(i))
              /\ Source.records[i] \in Entries
              /\ records[Place(i)] \in Entries
              /\ EndOf(records[Place(i)]) = KeptEnd(Place(i))
                   <=> EndOf(Source.records[i]) <= Len(Data)
         /\ \A j \in 1 .. Len(records) : \E i \in Picked : Place(i) = j
<1>1. /\ job \in Jobs /\ at = Len(Source.records) + 1 /\ records \in Seq(Entries)
      /\ Len(records) \in Nat /\ InOrder
  BY DEF IInv, Typed, SliceInv
<1>2. /\ Len(Source.records) \in Nat /\ Source.records \in Seq(Entries)
      /\ Data \in Seq(Octets)
  BY <1>1, Inputs
<1>3. at - 1 = Len(Source.records)
  BY <1>1, <1>2
<1>4. Len(records) = Cardinality(Picked)
  <2>1. Len(records) = Place(at - 1)
    BY <1>1 DEF InOrder
  <2>2. QED
    BY <1>1, <1>3, <2>1, Places
<1>5. ASSUME NEW i \in Picked
      PROVE  /\ Place(i) \in 1 .. Len(records) /\ Copied(i, Place(i))
             /\ Source.records[i] \in Entries
             /\ records[Place(i)] \in Entries
             /\ EndOf(records[Place(i)]) = KeptEnd(Place(i))
                  <=> EndOf(Source.records[i]) <= Len(Data)
  <2> DEFINE j == Place(i)
             r == Source.records[i]
  <2>0. i \in 1 .. Len(Source.records)
    BY <1>1, Places
  <2>1. i \in 1 .. Len(Source.records) /\ i < at
    BY <1>1, <1>2, <2>0
  <2>2. r \in Entries
    BY <1>2, <2>1, ElementOfSeq
  <2>3. j \in 1 .. Len(records) /\ Copied(i, j)
    BY <1>1, <2>1 DEF InOrder
  <2>4. records[j] \in Entries
    BY <1>1, <2>3, ElementOfSeq
  <2> HIDE DEF j, r
  <2>5. /\ KeptEnd(j) = records[j].offset + Len(OctetsOf(r))
        /\ records[j].size = r.size
    BY <2>3 DEF Copied, r
  <2>6. /\ Len(OctetsOf(r)) \in Nat
        /\ Len(OctetsOf(r)) = r.size <=> EndOf(r) <= Len(Data)
    BY <1>2, <2>2, OctetsFound
  <2>7. /\ EndOf(records[j]) = records[j].offset + records[j].size
        /\ records[j].offset \in Nat /\ r.size \in Nat
    BY <2>2, <2>4, EntryFields
  <2>8. EndOf(records[j]) = KeptEnd(j) <=> EndOf(r) <= Len(Data)
    BY <2>5, <2>6, <2>7
  <2>9. QED
    BY <2>2, <2>3, <2>4, <2>8 DEF j, r
<1>6. \A j \in 1 .. Len(records) : \E i \in Picked : Place(i) = j
  BY <1>1 DEF InOrder
<1>7. QED
  BY <1>1, <1>4, <1>5, <1>6

LEMMA SizesTell ==
  ASSUME IInv, phase = "done", job.program = "slice"
  PROVE  /\ SizesAddUp(Sliced) <=> Inside
         /\ Describes(Sliced) <=> Inside
<1>1. job \in Jobs /\ Len(records) \in Nat /\ records \in Seq(Entries) /\ SliceInv
  BY DEF IInv, Typed
<1>2. SizesAddUp(Sliced) <=> \A j \in 1 .. Len(records) : EndOf(records[j]) = KeptEnd(j)
  BY <1>1, SlicedParts DEF SizesAddUp, KeptEnd
<1>3. /\ \A i \in Picked :
           /\ Place(i) \in 1 .. Len(records) /\ Copied(i, Place(i))
           /\ EndOf(records[Place(i)]) = KeptEnd(Place(i))
                <=> EndOf(Source.records[i]) <= Len(Data)
      /\ \A j \in 1 .. Len(records) : \E i \in Picked : Place(i) = j
  BY SliceDone
<1>4. SizesAddUp(Sliced) <=> Inside
  <2>1. ASSUME SizesAddUp(Sliced), NEW i \in Picked
        PROVE  EndOf(Source.records[i]) <= Len(Data)
    BY <1>2, <1>3, <2>1
  <2>2. ASSUME Inside, NEW j \in 1 .. Len(records)
        PROVE  EndOf(records[j]) = KeptEnd(j)
    BY <1>3, <2>2 DEF Inside
  <2>3. QED
    BY <1>2, <2>1, <2>2 DEF Inside
<1>5. \A j \in 1 .. Len(records) : records[j].index = j - 1
  BY <1>3 DEF Copied
<1>6. IF records = << >> THEN Len(out) = 0 ELSE records[1].offset = 0
  BY <1>1 DEF SliceInv
<1>7. \A x \in Expectations :
        counts[x] = Cardinality({j \in 1 .. Len(records) : records[j].expect = x})
  BY <1>1 DEF SliceInv, Counted
<1>8. DOMAIN records = 1 .. Len(records)
  BY <1>1
<1>9. Describes(Sliced) <=> SizesAddUp(Sliced)
  <2> HIDE DEF Sliced
  <2>1. QED
    BY <1>1, <1>5, <1>6, <1>7, <1>8, SlicedParts DEF Describes
<1>10. QED
  BY <1>4, <1>9

(* A slice of a corpus is a corpus.                                        *)
THEOREM SlicesAreCorpora == Spec => []SliceIsACorpus
<1>1. ASSUME IInv PROVE SliceIsACorpus
  <2>1. SUFFICES ASSUME phase = "done", job.program = "slice", Matched
                 PROVE  /\ Describes(Sliced)
                        /\ Len(records) = Cardinality(Picked)
                        /\ \A i \in Picked : SameOctets(Sliced, Place(i), Source.records[i])
                        /\ AbortComesLast(records)
    BY DEF SliceIsACorpus
  <2>2. job \in Jobs /\ records \in Seq(Entries) /\ DOMAIN records = 1 .. Len(records) /\ TailIsLast
    BY <1>1, <2>1 DEF IInv, Typed, SliceInv
  <2>3. Inside
    <3> DEFINE pair == Corpora[job.manifest]
    <3>1. Data = pair.file /\ Source = pair.manifest
      BY <2>1 DEF Matched, Data, Source
    <3>2. SizesAddUp(pair) /\ pair.manifest.records \in Seq(Entries) /\ Len(pair.file) \in Nat
      BY <2>2, <3>1, Inputs DEF Describes
    <3> HIDE DEF pair
    <3>3. \A i \in 1 .. Len(Source.records) : EndOf(Source.records[i]) <= Len(Data)
      BY <3>1, <3>2, EndsInside
    <3>4. QED
      BY <2>2, <3>3, Places DEF Inside
  <2>4. Describes(Sliced)
    BY <1>1, <2>1, <2>3, SizesTell
  <2>5. ASSUME NEW i \in Picked
        PROVE  SameOctets(Sliced, Place(i), Source.records[i])
    <3>1. Copied(i, Place(i)) /\ EndOf(records[Place(i)]) = KeptEnd(Place(i))
      BY <1>1, <2>1, <2>3, SliceDone DEF Inside
    <3>2. Sliced.file = out /\ Sliced.manifest.records = records
      BY <2>2, SlicedParts
    <3>3. QED
      BY <3>1, <3>2 DEF SameOctets, Copied
  <2>6. AbortComesLast(records)
    BY <2>2 DEF AbortComesLast, TailIsLast
  <2>7. QED
    BY <1>1, <2>1, <2>4, <2>5, <2>6, SliceDone
<1>2. QED
  BY <1>1, SpecInv, PTL

(* What CorporaAssumption asks of an input holds of the slice again, so    *)
(* that slices can be sliced and made into recovery corpora in turn.       *)
THEOREM SlicesAreInputs ==
  Spec => [](phase = "done" /\ job.program = "slice" /\ Matched =>
               /\ Sliced.file \in Seq(Octets)
               /\ Sliced.manifest \in Manifests
               /\ Describes(Sliced)
               /\ AbortComesLast(Sliced.manifest.records))
<1>1. ASSUME IInv PROVE Sliced.file \in Seq(Octets) /\ Sliced.manifest \in Manifests
  <2>1. /\ job \in Jobs /\ out \in Seq(Octets) /\ Len(out) \in Nat /\ records \in Seq(Entries)
        /\ counts \in [Expectations -> Nat]
    BY <1>1 DEF IInv, Typed
  <2>2. Sliced.manifest = [Source EXCEPT !.size = Len(out), !.counts = counts, !.records = records]
    BY DEF Sliced
  <2>3. Source \in Manifests
    BY <2>1, Inputs
  <2>4. Sliced.manifest \in Manifests
    BY <2>1, <2>2, <2>3 DEF Manifests
  <2>5. QED
    BY <2>1, <2>4, SlicedParts
<1>2. IInv => Sliced.manifest.records = records
  BY SlicedParts DEF IInv, Typed
<1>3. SliceIsACorpus /\ phase = "done" /\ job.program = "slice" /\ Matched =>
        Describes(Sliced) /\ AbortComesLast(records)
  BY DEF SliceIsACorpus
<1>4. IInv /\ SliceIsACorpus =>
        (phase = "done" /\ job.program = "slice" /\ Matched =>
           /\ Sliced.file \in Seq(Octets)
           /\ Sliced.manifest \in Manifests
           /\ Describes(Sliced)
           /\ AbortComesLast(Sliced.manifest.records))
  BY <1>1, <1>2, <1>3
<1>5. QED
  BY <1>4, SpecInv, SlicesAreCorpora, PTL

(* A foreign manifest shows in the sizes, and only when a picked record    *)
(* reaches beyond the file.                                                *)
THEOREM SizesShowMismatches == Spec => []MismatchShowsInSizes
<1>1. ASSUME IInv PROVE MismatchShowsInSizes
  <2>1. SUFFICES ASSUME phase = "done", job.program = "slice"
                 PROVE  Inside = SizesAddUp(Sliced) /\ Inside = Describes(Sliced)
    BY DEF MismatchShowsInSizes, Inside
  <2>2. (SizesAddUp(Sliced) <=> Inside) /\ (Describes(Sliced) <=> Inside)
    BY <1>1, <2>1, SizesTell
  <2>3. Inside \in BOOLEAN /\ SizesAddUp(Sliced) \in BOOLEAN /\ Describes(Sliced) \in BOOLEAN
    BY DEF Inside, SizesAddUp, Describes
  <2>4. QED
    BY <2>2, <2>3
<1>2. QED
  BY <1>1, SpecInv, PTL

-----------------------------------------------------------------------------
(* The sentinel is the last record of its kind.                            *)
LEMMA SentinelIs ==
  ASSUME job \in Jobs, Sentinels # {}
  PROVE  \E i \in 1 .. Len(Source.records) : Sentinel = Source.records[i]
<1>1. Source.records \in Seq(Entries) /\ Len(Source.records) \in Nat
  BY Inputs
<1>2. Sentinels \subseteq 1 .. Len(Source.records)
  BY <1>1 DEF Sentinels
<1> DEFINE T == {Len(Source.records) - i : i \in Sentinels}
<1>3. T \subseteq Nat /\ T # {}
  <2>1. \A i \in Sentinels : i \in 1 .. Len(Source.records)
    BY <1>2
  <2>2. \A i \in Sentinels : Len(Source.records) - i \in Nat
    BY <1>1, <2>1
  <2>3. QED
    BY <2>2
<1> HIDE DEF T
<1>4. PICK m \in T : \A k \in T : m <= k
  BY <1>3, LeastNumber
<1>5. PICK i \in Sentinels : m = Len(Source.records) - i
  BY DEF T
<1>6. \A k \in Sentinels : k <= i
  <2>1. SUFFICES ASSUME NEW k \in Sentinels
                 PROVE  k <= i
    OBVIOUS
  <2>2. Len(Source.records) - i <= Len(Source.records) - k
    BY <1>4, <1>5 DEF T
  <2>3. i \in Nat /\ k \in Nat
    BY <1>1, <1>2
  <2>4. QED
    BY <1>1, <2>2, <2>3
<1> DEFINE c == CHOOSE n \in Sentinels : \A k \in Sentinels : k <= n
<1>7. c \in Sentinels
  BY <1>6
<1>8. Sentinel = Source.records[c]
  BY DEF Sentinel
<1> HIDE DEF c
<1>9. QED
  BY <1>2, <1>7, <1>8

(* Two entries end to end, one damaged and one valid, with their octets.   *)
TwoEntries(pair, first, second, a, b) ==
  /\ pair.file = first \o second
  /\ pair.manifest.size = Len(first) + Len(second)
  /\ pair.manifest.counts = [valid |-> 1, skip |-> 1, abort |-> 0]
  /\ pair.manifest.records = <<a, b>>
  /\ a.index = 0 /\ a.offset = 0 /\ a.size = Len(first) /\ a.expect = "skip"
  /\ b.index = 1 /\ b.offset = Len(first) /\ b.size = Len(second) /\ b.expect = "valid"

LEMMA PairOfTwo ==
  ASSUME NEW first \in Seq(Octets), NEW second \in Seq(Octets),
         NEW a \in Entries, NEW b \in Entries, NEW pair,
         TwoEntries(pair, first, second, a, b)
  PROVE  /\ Describes(pair)
         /\ SubSeq(pair.file, a.offset + 1, EndOf(a)) = first
         /\ SubSeq(pair.file, b.offset + 1, EndOf(b)) = second
<1> USE DEF TwoEntries
<1>1. Len(first) \in Nat /\ Len(second) \in Nat
  OBVIOUS
<1>2. EndOf(a) = Len(first) /\ EndOf(b) = Len(first) + Len(second)
  BY <1>1 DEF EndOf
<1>3. Len(pair.file) = Len(first) + Len(second)
  BY ConcatProperties
<1> DEFINE list == pair.manifest.records
<1>4. DOMAIN list = {1, 2} /\ Len(list) = 2 /\ list[1] = a /\ list[2] = b /\ list # << >>
  OBVIOUS
<1> HIDE DEF list
<1>5. SizesAddUp(pair)
  <2>1. EndOf(list[1]) = list[2].offset /\ EndOf(list[2]) = Len(pair.file)
    BY <1>2, <1>3, <1>4
  <2>2. \A i \in DOMAIN list :
          EndOf(list[i]) = IF i = Len(list) THEN Len(pair.file) ELSE list[i + 1].offset
    BY <1>4, <2>1
  <2>3. QED
    BY <2>2 DEF SizesAddUp, list
<1>6. ASSUME NEW x \in Expectations
      PROVE  pair.manifest.counts[x] = Cardinality({i \in DOMAIN list : list[i].expect = x})
  <2> DEFINE S == {i \in DOMAIN list : list[i].expect = x}
  <2>5. /\ pair.manifest.counts["valid"] = 1 /\ pair.manifest.counts["skip"] = 1
        /\ pair.manifest.counts["abort"] = 0
    OBVIOUS
  <2>1. CASE x = "valid"
    <3>1. S = {2}
      BY <1>4, <2>1
    <3> HIDE DEF S
    <3>2. Cardinality(S) = 1
      BY <3>1, FS_Singleton
    <3>3. QED
      BY <2>1, <2>5, <3>2 DEF S
  <2>2. CASE x = "skip"
    <3>1. S = {1}
      BY <1>4, <2>2
    <3> HIDE DEF S
    <3>2. Cardinality(S) = 1
      BY <3>1, FS_Singleton
    <3>3. QED
      BY <2>2, <2>5, <3>2 DEF S
  <2>3. CASE x = "abort"
    <3>1. S = {}
      BY <1>4, <2>3
    <3> HIDE DEF S
    <3>2. Cardinality(S) = 0
      BY <3>1, FS_EmptySet
    <3>3. QED
      BY <2>3, <2>5, <3>2 DEF S
  <2>4. QED
    BY <2>1, <2>2, <2>3 DEF Expectations
<1>7. \A i \in DOMAIN list : list[i].index = i - 1
  BY <1>4
<1>8. list # << >> /\ list[1].offset = 0
  BY <1>4
<1>9. Describes(pair)
  BY <1>3, <1>5, <1>6, <1>7, <1>8 DEF Describes, list
<1>10. SubSeq(pair.file, a.offset + 1, EndOf(a)) = first
  <2>1. SubSeq(first \o second, 0 + 1, Len(first)) = SubSeq(first, 0 + 1, Len(first))
    BY <1>1, FoundInFront
  <2>2. SubSeq(first, 1, Len(first)) = first
    BY SubSeqFull
  <2>3. QED
    BY <1>2, <2>1, <2>2
<1>11. SubSeq(pair.file, b.offset + 1, EndOf(b)) = second
  BY <1>2, FoundBehind
<1>12. QED
  BY <1>9, <1>10, <1>11

(* A pair of the recovery maker is a corpus of its two records.            *)
LEMMA RecoveryPairs ==
  ASSUME IInv, Matched, NEW r \in Entries, EndOf(r) <= Len(Data), r.expect = "skip",
         Sentinel \in Entries, EndOf(Sentinel) <= Len(Data), Sentinel.expect = "valid"
  PROVE  /\ Describes(RecoveryPair(r))
         /\ SameOctets(RecoveryPair(r), 1, r)
         /\ SameOctets(RecoveryPair(r), 2, Sentinel)
<1> DEFINE first == OctetsOf(r)
           second == OctetsOf(Sentinel)
           a == Renumbered(r, 0, 0)
           b == Renumbered(Sentinel, 1, Len(first))
           pair == RecoveryPair(r)
<1>1. Data \in Seq(Octets)
  BY Inputs DEF IInv, Typed
<1>2. /\ first \in Seq(Octets) /\ Len(first) \in Nat /\ Len(first) = r.size
      /\ second \in Seq(Octets) /\ Len(second) \in Nat /\ Len(second) = Sentinel.size
  BY <1>1, OctetsFound
<1>3. /\ pair.file = first \o second
      /\ pair.manifest.size = Len(first) + Len(second)
      /\ pair.manifest.counts = [valid |-> 1, skip |-> 1, abort |-> 0]
      /\ pair.manifest.records = <<a, b>>
  BY DEF RecoveryPair
<1> HIDE DEF first, second, pair
<1>4. /\ a \in Entries /\ a.index = 0 /\ a.offset = 0 /\ a.size = r.size
      /\ a.kind = r.kind /\ a.expect = r.expect
  BY DEF Renumbered, Entries
<1>5. /\ b \in Entries /\ b.index = 1 /\ b.offset = Len(first) /\ b.size = Sentinel.size
      /\ b.kind = Sentinel.kind /\ b.expect = Sentinel.expect
  BY <1>2 DEF Renumbered, Entries
<1> HIDE DEF a, b
<1>6. /\ Describes(pair)
      /\ SubSeq(pair.file, a.offset + 1, EndOf(a)) = first
      /\ SubSeq(pair.file, b.offset + 1, EndOf(b)) = second
  <2>1. /\ first \in Seq(Octets) /\ second \in Seq(Octets) /\ a \in Entries /\ b \in Entries
    BY <1>2, <1>4, <1>5
  <2>2. /\ a.index = 0 /\ a.offset = 0 /\ a.size = Len(first) /\ a.expect = "skip"
        /\ b.index = 1 /\ b.offset = Len(first) /\ b.size = Len(second) /\ b.expect = "valid"
    BY <1>2, <1>4, <1>5
  <2>3. TwoEntries(pair, first, second, a, b)
    BY <1>3, <2>2 DEF TwoEntries
  <2>4. QED
    BY <2>1, <2>3, PairOfTwo
<1>7. pair.manifest.records[1] = a /\ pair.manifest.records[2] = b
  BY <1>3
<1>8. SameOctets(pair, 1, r) /\ SameOctets(pair, 2, Sentinel)
  BY <1>4, <1>5, <1>6, <1>7 DEF SameOctets, first, second
<1>9. QED
  BY <1>6, <1>8 DEF pair

(* Every recoverable error has a corpus of its own.                        *)
THEOREM RecoveriesAreCorpora == Spec => []RecoveryIsDamagedThenSentinel
<1>1. ASSUME IInv PROVE RecoveryIsDamagedThenSentinel
  <2>1. SUFFICES ASSUME phase = "done", job.program = "recovery", Matched,
                        Sentinel.expect = "valid"
                 PROVE  /\ DOMAIN made = {Source.records[i].kind : i \in DamagedPlaces}
                        /\ \A i \in DamagedPlaces : LastOfKind(i, DamagedPlaces) =>
                             LET pair == made[Source.records[i].kind]
                             IN /\ Describes(pair)
                                /\ SameOctets(pair, 1, Source.records[i])
                                /\ SameOctets(pair, 2, Sentinel)
    BY DEF RecoveryIsDamagedThenSentinel
  <2>2. job \in Jobs /\ at = Len(Source.records) + 1 /\ Sentinels # {}
    BY <1>1, <2>1 DEF IInv, Typed, RecoveryInv
  <2>3. Source.records \in Seq(Entries) /\ Len(Source.records) \in Nat
    BY <2>2, Inputs
  <2>4. \A i \in DamagedPlaces : i \in 1 .. Len(Source.records) /\ i < at
    BY <2>2, <2>3 DEF DamagedPlaces
  <2>5. MadeBefore = DamagedPlaces
    BY <2>4 DEF MadeBefore
  <2>6. /\ DOMAIN made = {Source.records[i].kind : i \in DamagedPlaces}
        /\ \A i \in DamagedPlaces : LastOfKind(i, DamagedPlaces) =>
             made[Source.records[i].kind] = RecoveryPair(Source.records[i])
    BY <1>1, <2>1, <2>5 DEF IInv, RecoveryInv
  <2>7. \A i \in 1 .. Len(Source.records) :
          Source.records[i] \in Entries /\ EndOf(Source.records[i]) <= Len(Data)
    <3> DEFINE pair == Corpora[job.manifest]
    <3>1. Data = pair.file /\ Source = pair.manifest
      BY <2>1 DEF Matched, Data, Source
    <3>2. SizesAddUp(pair) /\ pair.manifest.records \in Seq(Entries) /\ Len(pair.file) \in Nat
      BY <2>2, <3>1, Inputs DEF Describes
    <3> HIDE DEF pair
    <3>3. \A i \in 1 .. Len(Source.records) : EndOf(Source.records[i]) <= Len(Data)
      BY <3>1, <3>2, EndsInside
    <3>4. QED
      BY <2>3, <3>3, ElementOfSeq
  <2>8. Sentinel \in Entries /\ EndOf(Sentinel) <= Len(Data)
    BY <2>2, <2>7, SentinelIs
  <2>9. ASSUME NEW i \in DamagedPlaces, LastOfKind(i, DamagedPlaces)
        PROVE  /\ Describes(made[Source.records[i].kind])
               /\ SameOctets(made[Source.records[i].kind], 1, Source.records[i])
               /\ SameOctets(made[Source.records[i].kind], 2, Sentinel)
    <3> DEFINE r == Source.records[i]
    <3>1. r.expect = "skip"
      BY DEF DamagedPlaces, Damaged
    <3>2. r \in Entries /\ EndOf(r) <= Len(Data)
      BY <2>4, <2>7
    <3>3. made[Source.records[i].kind] = RecoveryPair(r)
      BY <2>6, <2>9
    <3> HIDE DEF r
    <3>4. /\ Describes(RecoveryPair(r)) /\ SameOctets(RecoveryPair(r), 1, r)
          /\ SameOctets(RecoveryPair(r), 2, Sentinel)
      BY <1>1, <2>1, <2>8, <3>1, <3>2, RecoveryPairs
    <3>5. QED
      BY <3>3, <3>4 DEF r
  <2>10. QED
    BY <2>6, <2>9
<1>2. QED
  BY <1>1, SpecInv, PTL
=============================================================================
