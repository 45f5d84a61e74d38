--------------------------- MODULE MCCorpusSlicer ---------------------------
(***************************************************************************)
(* Corpora of up to four small records, with and without a tail, a shorter *)
(* and a longer relative of the first, and a route list with a repeated    *)
(* kind; every option of both programs, on matching and mismatched pairs.  *)
(***************************************************************************)
EXTENDS CorpusSlicer, SequencesExt, TLC

Rec(kind, expect, type, size) == [kind |-> kind, expect |-> expect, type |-> type, size |-> size]

Update == Rec("update", "valid", "BGP4MP", 3)
Broken == Rec("broken", "skip", "BGP4MP", 2)
Origin == Rec("origin", "skip", "TABLE_DUMP_V2", 4)
Ospf   == Rec("ospf", "skip", "OSPFV2", 2)
Rib    == Rec("rib", "valid", "TABLE_DUMP_V2", 2)
TailRec == Rec("tail", "abort", "BGP4MP", 1)

Lists ==
  "plain"   :> <<Update, Broken, Ospf, Origin>> @@
  "tailed"  :> <<Rib, Origin, Update, TailRec>> @@
  "shorter" :> <<Broken, Update>> @@
  "shifted" :> <<Ospf, Update, Broken, Origin>> @@
  "routes"  :> <<Update, Broken, [Update EXCEPT !.size = 1], [Broken EXCEPT !.size = 3]>> @@
  "none"    :> << >>

OffsetOf(list, i) ==
  LET sum[k \in 0 .. Len(list)] == IF k = 0 THEN 0 ELSE sum[k - 1] + list[k].size
  IN sum[i - 1]

CorpusOf(name) ==
  LET list == Lists[name]
      total == OffsetOf(Append(list, Ospf), Len(list) + 1)
  IN [file |-> FlattenSeq([i \in DOMAIN list |-> [k \in 1 .. list[i].size |-> <<name, i, k>>]]),
      manifest |->
        [size |-> total,
         counts |-> [x \in Expectations |-> Cardinality({i \in DOMAIN list : list[i].expect = x})],
         records |-> [i \in DOMAIN list |->
           [index |-> i - 1, offset |-> OffsetOf(list, i), size |-> list[i].size,
            kind |-> list[i].kind, expect |-> list[i].expect, type |-> list[i].type]]]]

MCCorpora == [name \in DOMAIN Lists |-> CorpusOf(name)]

MCOctets == {<<name, i, k>> : name \in DOMAIN Lists, i \in 1 .. 4, k \in 1 .. 4}
MCKinds == {r.kind : r \in {Update, Broken, Origin, Ospf, Rib, TailRec}}
BgpTypes == {"TABLE_DUMP", "TABLE_DUMP_V2", "BGP4MP", "BGP4MP_ET"}
MCMrtTypes == BgpTypes \cup {"OSPFV2"}

Slices ==
  [program : {"slice"}, mrt : DOMAIN Lists, manifest : DOMAIN Lists,
   types : {"any", "given"}, of : {BgpTypes}, expect : {"any", "valid", "skip"},
   only : {{}, {"update", "origin"}}, drop : {{}, {"broken"}}, sentinel : {"update"}]

Recoveries ==
  [program : {"recovery"}, mrt : DOMAIN Lists, manifest : DOMAIN Lists,
   types : {"given"}, of : {BgpTypes, {"TABLE_DUMP_V2"}}, expect : {"any"},
   only : {{}}, drop : {{}}, sentinel : {"update", "rib", "origin"}]

MCJobs == Slices \cup Recoveries
=============================================================================
