---------------------------- MODULE RecordStream ----------------------------
(***************************************************************************)
(* What a generated corpus promises its reader, with no octets in sight: a *)
(* stream of records is written, then closed, then read from the front.    *)
(* Every record that is not abort-class is delivered, in order, and the    *)
(* reader ends cleanly exactly when nothing in the stream is abort-class.  *)
(* An abort-class record can only be the last one.                         *)
(***************************************************************************)
EXTENDS Naturals, Sequences

CONSTANT Expectations        \* the classes a record can be given

VARIABLES
  stream,    \* the class of each record written, in order
  open,      \* the writer has not closed the stream
  seen,      \* how many records the reader has been given
  verdict    \* "walking", "clean" or "broken"

streamVars == <<stream, open, seen, verdict>>

Damaged == \E i \in DOMAIN stream : stream[i] = "abort"

Init ==
  /\ stream = << >>
  /\ open = TRUE
  /\ seen = 0
  /\ verdict = "walking"

Write(class) ==
  /\ open
  /\ ~ Damaged
  /\ stream' = Append(stream, class)
  /\ UNCHANGED <<open, seen, verdict>>

Close ==
  /\ open
  /\ open' = FALSE
  /\ UNCHANGED <<stream, seen, verdict>>

Deliver ==
  /\ ~ open
  /\ verdict = "walking"
  /\ seen < Len(stream)
  /\ stream[seen + 1] # "abort"
  /\ seen' = seen + 1
  /\ UNCHANGED <<stream, open, verdict>>

EndClean ==
  /\ ~ open
  /\ verdict = "walking"
  /\ seen = Len(stream)
  /\ verdict' = "clean"
  /\ UNCHANGED <<stream, open, seen>>

EndBroken ==
  /\ ~ open
  /\ verdict = "walking"
  /\ seen + 1 = Len(stream)
  /\ stream[Len(stream)] = "abort"
  /\ verdict' = "broken"
  /\ UNCHANGED <<stream, open, seen>>

Next ==
  \/ \E class \in Expectations : Write(class)
  \/ Close
  \/ Deliver
  \/ EndClean
  \/ EndBroken

Spec == Init /\ [][Next]_streamVars
=============================================================================
