---------------------------- MODULE ManifestCases ---------------------------
(***************************************************************************)
(* A record as its manifest entry describes it: class, reason and, of the  *)
(* details, what a reader can find in the octets, as facts.                *)
(***************************************************************************)
EXTENDS RecordBuilders

Case(section, kind, expect, reason, rec, said) ==
  [section |-> section, kind |-> kind, expect |-> expect, reason |-> reason, rec |-> rec, said |-> said]

Valid(section, kind, rec, said) == Case(section, kind, "valid", "none", rec, said)
Skip(section, kind, reason, rec, said) == Case(section, kind, "skip", reason, rec, said)

Number(name, n) == <<name, n \div 65536, n % 65536>>
WordIs(name, w) == <<name, w[1], w[2]>>
AttrIs(code, length) == <<"attr", code, length>>
Holds(name, octets) == <<name>> \o octets
=============================================================================
