----------------------------- MODULE RouteReader ----------------------------
(***************************************************************************)
(* A conforming parser reads the records of a route list: RouteOctets      *)
(* writes them, CaseReader reads them, and RouteCompiler, which has only   *)
(* their sizes, is held against both.                                      *)
(***************************************************************************)
EXTENDS CaseReader, RouteOctets

CONSTANT RouteList     \* routes, parsed or refused

Formats == {"td2", "bgp4mp"}

(* The routes that become a record, in one format or in both.              *)
EmittedIn(format) ==
  LET Becomes(r) == Accepts(r) /\ Fits(r, format)
      routes == SelectSeq(RouteList, Becomes)
  IN [i \in DOMAIN routes |-> [route |-> routes[i], format |-> format]]

Emitted == EmittedIn("td2") \o EmittedIn("bgp4mp")

(* Their cases, which keep what they were compiled of.                     *)
RouteCases ==
  LET emitted == Emitted
  IN [k \in DOMAIN emitted |-> RouteCase(emitted[k].route, emitted[k].format, k) @@ emitted[k]]

(* The peer table of a route list holds one peer per family.               *)
RoutePeers == 2

IsRoute == "route" \in DOMAIN case

-----------------------------------------------------------------------------
(* What RouteCompiler knows of a route: the sizes of its fields.           *)
Sizes == INSTANCE RouteSizes

Size(option, n) == [i \in DOMAIN option |-> n]
SizeOfAll(list, n) == IF list = << >> THEN << >> ELSE <<n * Len(list)>>

Extras(r) ==
  Size(r.med, 4) \o Size(r.localPref, 4) \o (IF r.atomic THEN <<0>> ELSE << >>) \o Size(r.aggregator, 8)
  \o SizeOfAll(r.std, 4) \o Size(r.originator, 4) \o SizeOfAll(r.clusters, 4) \o SizeOfAll(RouteExtComms(r), 8)
  \o SizeOfAll(r.ext6, 20) \o Size(r.aigp, 11) \o SizeOfAll(r.large, 12)
  \o [i \in DOMAIN r.raw |-> Len(r.raw[i].value)]

Shape(r) ==
  [expect |-> r.expect, carries |-> IF r.flow = << >> THEN {"prefix"} ELSE {"flowspec"}, v6 |-> r.v6,
   bits |-> IF r.flow = << >> THEN r.bits ELSE 0, canonical |-> r.flow # << >> \/ ~HasHostBits(r.addr, r.bits),
   parses |-> FieldsParse(r),
   nexthop |-> CASE Len(r.nexthop) = 4 -> "v4" [] Len(r.nexthop) = 16 -> "v6" [] OTHER -> "none",
   rd |-> r.rd # << >>, label |-> r.label # << >>, actions |-> r.actions # << >>, asns |-> Len(AsPath(r)),
   extras |-> Extras(r),
   flow |-> IF r.flow = << >> THEN 0 ELSE Len(r.flow[1]) - (IF r.flow[1][1] < 240 THEN 1 ELSE 2),
   pathId |-> r.pathId # << >>]

(* The sizes that RouteCompiler adds up, and from which its limits follow, *)
(* are those of the octets: the body of every record is as long as the     *)
(* shape of its route says, and no limit there would have stopped it.      *)
SizesAreReal ==
  Read /\ IsRoute =>
    LET shape == Shape(case.route)
    IN /\ Len(case.rec.body) = Sizes!BodyOf(shape, case.format)
       /\ Sizes!Compiles(shape, case.format)

(* A raw attribute is written as it comes.  A reader has no rules for one  *)
(* that is optional, of a code that is not assigned and the only one of    *)
(* its code; one that announces or withdraws would be read to its own end. *)
OnlyForeignRaw(r, format) ==
  /\ \A i \in DOMAIN r.raw :
       r.raw[i].code \notin Known \cup {0} /\ HasBit(RawFlags(r.raw[i]), Flag.OPTIONAL)
  /\ ~RawRepeats(r, format)

NoRawNlri(r) ==
  \A i \in DOMAIN r.raw : r.raw[i].code \notin {Attr.MP_REACH_NLRI, Attr.MP_UNREACH_NLRI}

(* What a skip route can be broken by: bits behind the prefix in its last  *)
(* octet (host bits in the octets behind that one are not written), an     *)
(* AS_PATH too long for its count, and a raw attribute.                    *)
StrayBits(r) ==
  r.flow = << >> /\ r.bits % 8 # 0 /\ r.addr[PrefixOctets(r.bits)] % (2 ^ (8 * PrefixOctets(r.bits) - r.bits)) # 0

MayBeBroken(r, format) == StrayBits(r) \/ Len(AsPath(r)) > 255 \/ ~OnlyForeignRaw(r, format)

(* A path of 256 ASNs announces none.  With more, what follows the first   *)
(* of them may happen to read as further segments.                         *)
MustBeBroken(r, format) == StrayBits(r) \/ Len(AsPath(r)) = 256 \/ RawRepeats(r, format)

-----------------------------------------------------------------------------
(* A valid case is valid: a conforming reader of every section finds       *)
(* nothing wrong in it, neither in its framing nor in an attribute.  Of    *)
(* routes this is said of those whose raw attributes a reader has no rules *)
(* for.  parse_route looks at none: one that repeats the ORIGIN of a valid *)
(* route makes a valid record of it that is malformed (see                 *)
(* AttributesAreTheRoutes).                                                *)
ValidIsSound ==
  Read /\ case.expect = "valid" /\ (IsRoute => OnlyForeignRaw(case.route, case.format)) => defects = {}

(* A damaged case of the corpora is damaged where its manifest entry says, *)
(* and nowhere else but that the UPDATE around the damage may lack         *)
(* attributes.  A skip route is broken by what it was given to be broken   *)
(* by, and by nothing else.  One that was given nothing of the kind is     *)
(* sound, although it says skip: 192.0.2.1/24 becomes 192.0.2.0/24.        *)
Missing == {"missing_origin", "missing_as_path", "missing_next_hop"}

DamageIsAsNamed ==
  Read /\ case.expect = "skip" =>
    IF IsRoute
    THEN /\ MustBeBroken(case.route, case.format) => defects # {}
         /\ defects # {} => MayBeBroken(case.route, case.format)
    ELSE /\ defects # {}
         /\ case.reason # "unnamed" =>
              /\ Symptoms(case.reason) \subseteq defects
              /\ defects \subseteq Symptoms(case.reason) \cup Missing

(* The manifest tells the truth about the octets: every number that the    *)
(* details of an entry give is one that a reader meets in the record, at   *)
(* least where no raw attribute sends it through NLRI of its own.          *)
DetailsAreOnTheWire ==
  Read /\ (IsRoute => NoRawNlri(case.route)) => case.said \subseteq facts

(* A parser finds the attributes that the route asks for and no others,    *)
(* and finds one twice exactly if a raw attribute repeats the code of a    *)
(* field that is there or of a raw attribute before it.                    *)
AttributesAreTheRoutes ==
  Read /\ IsRoute /\ case.expect = "valid" /\ NoRawNlri(case.route) =>
    /\ {f[2] : f \in {g \in facts : g[1] = "attr"}} = AskedFor(case.route, case.format)
    /\ "duplicate_attribute" \in defects <=> RawRepeats(case.route, case.format)

=============================================================================
