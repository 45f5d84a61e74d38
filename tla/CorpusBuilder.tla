---------------------------- MODULE CorpusBuilder ---------------------------
(***************************************************************************)
(* The Builder of src/generator.rs: the sequence of push and push_raw      *)
(* calls a run makes (its program), the file image and the manifest that   *)
(* grow side by side, and the manifest that is closed over them.  Which    *)
(* records a configuration asks for is the constant Program; module        *)
(* GeneratorSections gives the one the generator runs.                     *)
(***************************************************************************)
EXTENDS MrtFraming, Sequences, FiniteSets

CONSTANTS
  Configs,    \* configurations: base_timestamp, checks (the overflow checks
              \* of the build), and whatever Program reads of them
  Program     \* for each configuration the records pushed, in order

Expectations == {"valid", "skip", "abort"}

(* A push of rec, or a push_raw of the first keep octets of encoded rec.   *)
Emissions == [rec : MrtRecord, expect : Expectations, raw : BOOLEAN, keep : Nat]

(* The framing of rec tells the truth.                                     *)
Honest(rec) == rec.declared = Computed /\ rec.body + MicroLen < U32

(* A reader cannot get past the octets: a piece of a header, or a Length   *)
(* that promises more than there is.                                       *)
Unreadable(e) ==
  /\ e.keep \in 1 .. EncodedLen(e.rec)
  /\ e.keep < HeaderLen \/ HeaderLen + WireLength(e.rec) > e.keep

ASSUME ConfigsAssumption ==
  \A c \in Configs : c.base \in 0 .. U32 - 1 /\ c.checks \in BOOLEAN

ASSUME ProgramAssumption ==
  /\ Program \in [Configs -> Seq(Emissions)]
  /\ \A c \in Configs : \A i \in 1 .. Len(Program[c]) :
       LET e == Program[c][i]
       IN IF e.raw
          THEN i = Len(Program[c]) /\ e.expect = "abort" /\ Unreadable(e)
          ELSE e.expect # "abort" /\ Honest(e.rec)

VARIABLES
  cfg,        \* the configuration of this run
  phase,      \* "emit", "done", or "panicked" on an overflow check
  bytes,      \* Builder.bytes: the pieces it is made of
  end,        \* Builder.bytes.len()
  entries,    \* Builder.entries, the manifest's records
  counts      \* Builder.counts

builderVars == <<cfg, phase, bytes, end, entries, counts>>

Entries == [index : Nat, offset : Nat, size : Nat, type : MrtTypes,
            timestamp : 0 .. U32 - 1, expect : Expectations]

BuilderTypeOK ==
  /\ cfg \in Configs
  /\ phase \in {"emit", "done", "panicked"}
  /\ bytes \in Seq(Chunks)
  /\ end \in Nat
  /\ entries \in Seq(Entries)
  /\ counts \in [Expectations -> Nat]

-----------------------------------------------------------------------------
BuilderInit ==
  /\ cfg \in Configs
  /\ phase = "emit"
  /\ bytes = << >>
  /\ end = 0
  /\ entries = << >>
  /\ counts = [x \in Expectations |-> 0]

Emitting == phase = "emit" /\ Len(entries) < Len(Program[cfg])

Emission == Program[cfg][Len(entries) + 1]

(* Slips: record 0 stamped base + 1, a sum that is not cut to 32 bits, a   *)
(* class that is always counted as valid.                                  *)
TimestampSumFromOne == cfg.base + ((Len(entries) + 1) % U32)
NextTimestampWide == cfg.base + (Len(entries) % U32)
CountedValid(class) == [counts EXCEPT !["valid"] = @ + 1]

(* base_timestamp + entries.len() as u32, before it is cut to 32 bits.     *)
TimestampSum == cfg.base + (Len(entries) % U32)

(* Builder::next_timestamp in a build without overflow checks wraps; one   *)
(* with them panics (Panic below) and never gets here.                     *)
NextTimestamp == TimestampSum % U32

TimestampFits == cfg.checks => TimestampSum < U32

(* The counts block with one more record of the class.                     *)
Counted(class) == [counts EXCEPT ![class] = @ + 1]

(* The manifest entry of the record that begins where the file now ends.   *)
Entry(rec, size, expect) ==
  [index |-> Len(entries), offset |-> end, size |-> size, type |-> rec.type,
   timestamp |-> NextTimestamp, expect |-> expect]

(* Builder::push.                                                          *)
Push ==
  /\ Emitting
  /\ ~ Emission.raw
  /\ TimestampFits
  /\ LET rec == Emission.rec
         out == Encode(rec, NextTimestamp, end)
     IN /\ bytes' = Append(bytes, out)
        /\ end' = end + out.size
        /\ counts' = Counted(Emission.expect)
        /\ entries' = Append(entries, Entry(rec, EncodedLen(rec), Emission.expect))
  /\ UNCHANGED <<cfg, phase>>

(* Builder::push_raw: the octets are counted as they are, always as abort. *)
PushRaw ==
  /\ Emitting
  /\ Emission.raw
  /\ TimestampFits
  /\ LET rec == Emission.rec
         out == Truncate(Encode(rec, NextTimestamp, end), Emission.keep)
     IN /\ bytes' = Append(bytes, out)
        /\ end' = end + out.size
        /\ counts' = Counted("abort")
        /\ entries' = Append(entries, Entry(rec, out.size, "abort"))
  /\ UNCHANGED <<cfg, phase>>

(* next_timestamp in a build with overflow checks: no corpus comes out.    *)
Panic ==
  /\ Emitting
  /\ ~ TimestampFits
  /\ phase' = "panicked"
  /\ UNCHANGED <<cfg, bytes, end, entries, counts>>

(* The end of generate_profile: the manifest takes file_size = end, counts *)
(* and entries as they stand, and nothing is pushed any more.              *)
CloseManifest ==
  /\ phase = "emit"
  /\ Len(entries) = Len(Program[cfg])
  /\ phase' = "done"
  /\ UNCHANGED <<cfg, bytes, end, entries, counts>>

BuilderNext == Push \/ PushRaw \/ Panic \/ CloseManifest
-----------------------------------------------------------------------------
EndOf(r) == r.offset + r.size

(* The manifest describes the file: entry i begins where entry i-1 ended,  *)
(* spans exactly the octets written for record i, and carries the          *)
(* timestamp and type of the header at its offset; the file size is where  *)
(* the last entry ends (Builder::push computes offset and size apart from  *)
(* the octets it writes, and push_raw in a third way).                     *)
ManifestMatchesFile ==
  /\ Len(entries) = Len(bytes)
  /\ \A i \in 1 .. Len(entries) :
       /\ entries[i].index = i - 1
       /\ entries[i].offset = (IF i = 1 THEN 0 ELSE EndOf(entries[i - 1]))
       /\ entries[i].offset = bytes[i].at
       /\ entries[i].size = bytes[i].size
       /\ entries[i].timestamp = bytes[i].timestamp
       /\ entries[i].type = bytes[i].type
  /\ end = (IF entries = << >> THEN 0 ELSE EndOf(entries[Len(entries)]))

(* The counts block agrees with the records it summarises.                 *)
CountsMatchEntries ==
  \A x \in Expectations :
    counts[x] = Cardinality({i \in 1 .. Len(entries) : entries[i].expect = x})

(* Record N is stamped base_timestamp + N in the arithmetic of a u32, and  *)
(* a build with overflow checks never wraps (while N itself is a u32: the  *)
(* cast of entries.len() is not checked in any build).                     *)
TimestampsFollowIndex ==
  \A i \in 1 .. Len(entries) :
    /\ entries[i].timestamp = (cfg.base + i - 1) % U32
    /\ cfg.checks /\ i <= U32 => entries[i].timestamp = cfg.base + i - 1
=============================================================================
