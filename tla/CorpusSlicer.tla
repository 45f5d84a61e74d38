---------------------------- MODULE CorpusSlicer ----------------------------
(***************************************************************************)
(* The two Python programs of tests/parsers that cut a corpus by its       *)
(* manifest: slice-corpus.py, which keeps the records of a selection, and  *)
(* make-recovery-corpora.py, which puts every skip-class record before a   *)
(* valid one in a file of their own.  Both read the file and the manifest  *)
(* apart, take the manifest at its word, and slice as Python does: what a  *)
(* range has beyond the end of the file is silently not there.             *)
(***************************************************************************)
EXTENDS Naturals, Sequences, FiniteSets

CONSTANTS
  Octets,     \* an octet is known by its corpus, its record and its place
  Kinds,
  MrtTypes,
  Corpora,    \* corpora, each its file and the manifest written with it
  Jobs        \* which program, on which corpus's file, with which corpus's
              \* manifest, and with what arguments

Expectations == {"valid", "skip", "abort"}

Entries ==
  [index : Nat, offset : Nat, size : Nat \ {0}, kind : Kinds, expect : Expectations,
   type : MrtTypes]

Manifests == [size : Nat, counts : [Expectations -> Nat], records : Seq(Entries)]

EndOf(r) == r.offset + r.size

SizesAddUp(pair) ==
  \A i \in DOMAIN pair.manifest.records :
    EndOf(pair.manifest.records[i]) =
      IF i = Len(pair.manifest.records) THEN Len(pair.file)
      ELSE pair.manifest.records[i + 1].offset

(* A manifest describes a file: entries end to end from the first octet to *)
(* the last, numbered, counted.                                            *)
Describes(pair) ==
  LET m == pair.manifest
  IN /\ m.size = Len(pair.file)
     /\ IF m.records = << >> THEN m.size = 0 ELSE m.records[1].offset = 0
     /\ SizesAddUp(pair)
     /\ \A i \in DOMAIN m.records : m.records[i].index = i - 1
     /\ \A x \in Expectations :
          m.counts[x] = Cardinality({i \in DOMAIN m.records : m.records[i].expect = x})

AbortComesLast(list) == \A i \in DOMAIN list : list[i].expect = "abort" => i = Len(list)

(* What the generator writes: the manifest describes its file, and nothing *)
(* follows a fatal tail.                                                   *)
ASSUME CorporaAssumption ==
  \A name \in DOMAIN Corpora :
    /\ Corpora[name].file \in Seq(Octets)
    /\ Corpora[name].manifest \in Manifests
    /\ Describes(Corpora[name])
    /\ AbortComesLast(Corpora[name].manifest.records)

(* A selection is the options of slice-corpus.py, "any" for one that is    *)
(* not given and only = {} likewise.                                       *)
ASSUME JobsAssumption ==
  \A j \in Jobs :
    /\ j.program \in {"slice", "recovery"}
    /\ {j.mrt, j.manifest} \subseteq DOMAIN Corpora
    /\ j.expect \in Expectations \cup {"any"}

VARIABLES
  job,        \* the invocation
  at,         \* the record of the input manifest at hand
  out,        \* slice: the octets kept so far
  records,    \* slice: the entries kept so far
  counts,     \* slice: the counts so far
  made,       \* recovery: the pairs written, by the kind they are named for
  phase       \* "working", "done" or "refused"

vars == <<job, at, out, records, counts, made, phase>>

Data == Corpora[job.mrt].file
Source == Corpora[job.manifest].manifest

(* data[start:end], which ends where the data does.                        *)
Slice(start, end) == SubSeq(Data, start + 1, IF end < Len(Data) THEN end ELSE Len(Data))

(* Slip: a record's size for its end.                                      *)
OctetsToSize(r) == Slice(r.offset, r.size)

OctetsOf(r) == Slice(r.offset, EndOf(r))

Selected(j, r) ==
  /\ j.types = "any" \/ r.type \in j.of
  /\ r.kind \notin j.drop
  /\ j.only = {} \/ r.kind \in j.only
  /\ j.expect = "any" \/ r.expect = j.expect

(* Slip: the offset of the source kept.                                    *)
KeptOffset(r, index, offset) == [r EXCEPT !.index = index]

(* dict(record), renumbered.                                               *)
Renumbered(r, index, offset) == [r EXCEPT !.index = index, !.offset = offset]

-----------------------------------------------------------------------------
Init ==
  /\ job \in Jobs
  /\ at = 1
  /\ out = << >>
  /\ records = << >>
  /\ counts = [x \in Expectations |-> 0]
  /\ made = << >>
  /\ phase = "working"

Working(program) ==
  phase = "working" /\ job.program = program /\ at <= Len(Source.records)

Record == Source.records[at]

Keep ==
  /\ Working("slice")
  /\ Selected(job, Record)
  /\ records' = Append(records, Renumbered(Record, Len(records), Len(out)))
  /\ out' = out \o OctetsOf(Record)
  /\ counts' = [counts EXCEPT ![Record.expect] = @ + 1]
  /\ at' = at + 1
  /\ UNCHANGED <<job, made, phase>>

Drop ==
  /\ Working("slice")
  /\ ~ Selected(job, Record)
  /\ at' = at + 1
  /\ UNCHANGED <<job, out, records, counts, made, phase>>

-----------------------------------------------------------------------------
(* by_kind: of the records of one kind the last.                           *)
Sentinels == {i \in DOMAIN Source.records : Source.records[i].kind = job.sentinel}

Sentinel == Source.records[CHOOSE i \in Sentinels : \A k \in Sentinels : k <= i]

Damaged(r) == r.expect = "skip" /\ r.type \in job.of

(* The file and the manifest made of one damaged record.                   *)
RecoveryPair(r) ==
  [file |-> OctetsOf(r) \o OctetsOf(Sentinel),
   manifest |-> [size |-> Len(OctetsOf(r)) + Len(OctetsOf(Sentinel)),
                 counts |-> [valid |-> 1, skip |-> 1, abort |-> 0],
                 records |-> <<Renumbered(r, 0, 0),
                               Renumbered(Sentinel, 1, Len(OctetsOf(r)))>>]]

RefuseSentinel ==
  /\ phase = "working"
  /\ job.program = "recovery"
  /\ at = 1
  /\ Sentinels = {}
  /\ phase' = "refused"
  /\ UNCHANGED <<job, at, out, records, counts, made>>

(* Slip: a path that is there is not written again.                        *)
MakeRecoveryOnce ==
  /\ Working("recovery")
  /\ Sentinels # {}
  /\ Damaged(Record)
  /\ made' = [k \in DOMAIN made \cup {Record.kind} |->
               IF k \in DOMAIN made THEN made[k] ELSE RecoveryPair(Record)]
  /\ at' = at + 1
  /\ UNCHANGED <<job, out, records, counts, phase>>

(* Two damaged records of one kind are written to the same path.           *)
MakeRecovery ==
  /\ Working("recovery")
  /\ Sentinels # {}
  /\ Damaged(Record)
  /\ made' = [k \in DOMAIN made \cup {Record.kind} |->
               IF k = Record.kind THEN RecoveryPair(Record) ELSE made[k]]
  /\ at' = at + 1
  /\ UNCHANGED <<job, out, records, counts, phase>>

PassOver ==
  /\ Working("recovery")
  /\ Sentinels # {}
  /\ ~ Damaged(Record)
  /\ at' = at + 1
  /\ UNCHANGED <<job, out, records, counts, made, phase>>

Finish ==
  /\ phase = "working"
  /\ at > Len(Source.records)
  /\ job.program = "recovery" => Sentinels # {}
  /\ phase' = "done"
  /\ UNCHANGED <<job, at, out, records, counts, made>>

Next == Keep \/ Drop \/ RefuseSentinel \/ MakeRecovery \/ PassOver \/ Finish

Spec == Init /\ [][Next]_vars
-----------------------------------------------------------------------------
(* The manifest that slice-corpus.py writes: that of the input with its    *)
(* size, counts and records replaced.                                      *)
Sliced == [file |-> out,
           manifest |-> [Source EXCEPT !.size = Len(out), !.counts = counts, !.records = records]]

(* Entry i of a pair stands for the octets that source entry r stood for.  *)
SameOctets(pair, i, r) ==
  /\ SubSeq(pair.file, pair.manifest.records[i].offset + 1, EndOf(pair.manifest.records[i]))
     = OctetsOf(r)
  /\ pair.manifest.records[i].kind = r.kind
  /\ pair.manifest.records[i].expect = r.expect

Matched == job.mrt = job.manifest

(* The records to keep, and which record of the slice each of them is.     *)
Picked == {i \in DOMAIN Source.records : Selected(job, Source.records[i])}

Place(i) == Cardinality({k \in Picked : k <= i})

(* A slice of a corpus is a corpus: its manifest describes its file, and   *)
(* it holds the octets of the selected records, all of them and in order,  *)
(* under their own kinds and classes; an abort-class tail that is kept is  *)
(* still the last.                                                         *)
SliceIsACorpus ==
  phase = "done" /\ job.program = "slice" /\ Matched =>
    /\ Describes(Sliced)
    /\ Len(records) = Cardinality(Picked)
    /\ \A i \in Picked : SameOctets(Sliced, Place(i), Source.records[i])
    /\ AbortComesLast(records)

(* What a file cut by the manifest of another one can look like: the       *)
(* entries still begin where their octets do and the counts are theirs,    *)
(* and sizes and file disagree exactly when a selected record reaches      *)
(* beyond the file, which is the only sign of it that is left: records of  *)
(* a longer file are cut wherever the other manifest says.                 *)
MismatchShowsInSizes ==
  phase = "done" /\ job.program = "slice" =>
    LET inside == \A i \in Picked : EndOf(Source.records[i]) <= Len(Data)
    IN /\ inside = SizesAddUp(Sliced)
       /\ inside = Describes(Sliced)

DamagedPlaces == {i \in DOMAIN Source.records : Damaged(Source.records[i])}

LastOfKind(i, places) ==
  \A k \in places : Source.records[k].kind = Source.records[i].kind => k <= i

(* Every recoverable error has a corpus of its own: the octets of the last *)
(* damaged record of each kind, where kinds repeat as they do in route     *)
(* lists, and behind them those of the sentinel, each under the entry that *)
(* stood for it in the source, described by a manifest whose offsets, size *)
(* and written-out counts are true, provided that the sentinel is valid.   *)
RecoveryIsDamagedThenSentinel ==
  phase = "done" /\ job.program = "recovery" /\ Matched /\ Sentinel.expect = "valid" =>
    /\ DOMAIN made = {Source.records[i].kind : i \in DamagedPlaces}
    /\ \A i \in DamagedPlaces : LastOfKind(i, DamagedPlaces) =>
         LET pair == made[Source.records[i].kind]
         IN /\ Describes(pair)
            /\ SameOctets(pair, 1, Source.records[i])
            /\ SameOctets(pair, 2, Sentinel)
=============================================================================
