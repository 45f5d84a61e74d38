----------------------------- MODULE CorpusWalk -----------------------------
(***************************************************************************)
(* The builder composed with the reference reader of tests/corpus.rs       *)
(* (walk), which knows the file and not the manifest: it believes the      *)
(* Length field it finds at its position.  RecordStream is what the two    *)
(* together promise.                                                       *)
(***************************************************************************)
EXTENDS CorpusBuilder

VARIABLES
  off,       \* the reader's position
  n,         \* records it has walked
  verdict    \* "walking", "clean" (true, Some n) or "broken"

walkVars == <<off, n, verdict>>
vars == <<builderVars, walkVars>>

TypeOK ==
  /\ BuilderTypeOK
  /\ off \in Nat
  /\ n \in Nat
  /\ verdict \in {"walking", "clean", "broken"}

Init ==
  /\ BuilderInit
  /\ off = 0
  /\ n = 0
  /\ verdict = "walking"

-----------------------------------------------------------------------------
(* The pieces of the file whose header begins at p.                        *)
HeadersAt(p) == {i \in 1 .. Len(bytes) : bytes[i].at = p /\ bytes[i].size >= HeaderLen}

(* bytes[p+8 .. p+12] read as a u32: the Length field of the header there, *)
(* or, out of step with the records, any value at all.                     *)
LengthsAt(p) ==
  IF HeadersAt(p) = {} THEN 0 .. U32 - 1 ELSE {bytes[i].length : i \in HeadersAt(p)}

Walking == phase = "done" /\ verdict = "walking"

WalkRecord ==
  /\ Walking
  /\ off < end
  /\ end - off >= HeaderLen
  /\ \E len \in LengthsAt(off) :
       /\ off + HeaderLen + len <= end
       /\ off' = off + HeaderLen + len
       /\ n' = n + 1
  /\ UNCHANGED <<builderVars, verdict>>

(* Slips: a ragged end taken for the end of the file, an overrun that      *)
(* neither moves the reader nor stops it.                                  *)
WalkRaggedEnd ==
  /\ Walking
  /\ off < end
  /\ end - off < HeaderLen
  /\ verdict' = "clean"
  /\ UNCHANGED <<builderVars, off, n>>

WalkOverrunIgnored ==
  /\ Walking
  /\ off < end
  /\ \E len \in LengthsAt(off) : off + HeaderLen + len > end
  /\ UNCHANGED vars

WalkTruncatedHeader ==
  /\ Walking
  /\ off < end
  /\ end - off < HeaderLen
  /\ verdict' = "broken"
  /\ UNCHANGED <<builderVars, off, n>>

WalkOverrun ==
  /\ Walking
  /\ off < end
  /\ end - off >= HeaderLen
  /\ \E len \in LengthsAt(off) : off + HeaderLen + len > end
  /\ verdict' = "broken"
  /\ UNCHANGED <<builderVars, off, n>>

WalkEof ==
  /\ Walking
  /\ ~ off < end
  /\ verdict' = "clean"
  /\ UNCHANGED <<builderVars, off, n>>

Walk == WalkRecord \/ WalkTruncatedHeader \/ WalkOverrun \/ WalkEof

Next ==
  \/ BuilderNext /\ UNCHANGED walkVars
  \/ Walk

Spec == Init /\ [][Next]_vars

(* One thread runs the generator to its end and then the reader: neither   *)
(* stops while it has a step to take.                                      *)
FairSpec == Spec /\ WF_vars(Next)

-----------------------------------------------------------------------------
(* The reader is never out of step: after n records it stands where the    *)
(* manifest says record n begins, or at the end of the file.               *)
WalkInStep ==
  /\ n <= Len(entries)
  /\ off = (IF n = Len(entries) THEN end ELSE entries[n + 1].offset) \/ phase # "done"

(* What the test suite asks of walk: on a file with no abort-class tail it *)
(* ends cleanly after every record of the manifest, on one with a tail it  *)
(* stops, not cleanly, right before the tail.                              *)
WalkFindsEveryRecord ==
  /\ verdict = "clean" => n = Len(entries) /\ counts["abort"] = 0
  /\ verdict = "broken" => n + 1 = Len(entries) /\ counts["abort"] = 1

(* The classes in the manifest, read off the octets alone, are the stream  *)
(* the reader is given.                                                    *)
Promise == INSTANCE RecordStream WITH
  stream <- [i \in 1 .. Len(entries) |-> entries[i].expect],
  open   <- phase # "done",
  seen   <- n

StreamPromise == Promise!Spec

(* Every corpus that is generated is read to a verdict: the reader never   *)
(* stands still on a Length field.                                         *)
WalkEnds == phase = "done" ~> verdict # "walking"
=============================================================================
