--------------------------- MODULE RouteCompiler ---------------------------
(***************************************************************************)
(* Route-list mode, src/routes.rs: every route of the list is parsed       *)
(* before any is encoded, then each becomes one record, behind a peer      *)
(* table in the TABLE_DUMP_V2 format; the first error ends it and nothing  *)
(* is written.  Sizes are the real ones, octet for octet: the encoders     *)
(* cast them to u8 and u16 fields without a check of their own, and what   *)
(* keeps the casts honest is checked elsewhere and later.                  *)
(***************************************************************************)
EXTENDS MrtFraming, Sequences, FiniteSets, FiniteSetsExt

CONSTANTS
  RouteLists,     \* lists of routes, as records of the fields of RouteSpec
  Formats,        \* "td2", "bgp4mp" or both
  Bases,          \* base timestamps
  Builds          \* whether the build has overflow checks

U16Max == 65535
U8Max  == 255
MaxMessage == 4096         \* of a BGP message
MaxFlow == 4096            \* of a FlowSpec NLRI, exclusive
PeersOfList == 2           \* the peer table of a route list: one peer per family

(* carries: what the route is about ("prefix", "flowspec", both or         *)
(* neither); canonical: no host bits, or every FlowSpec value inside its   *)
(* component's domain and none of it raw; parses: every string in it is    *)
(* well-formed; extras: the value sizes of the attributes after the next   *)
(* hop, its own and the raw ones; flow: the size of the components.        *)
Routes ==
  [expect : {"valid", "skip", "abort"}, carries : SUBSET {"prefix", "flowspec"},
   v6 : BOOLEAN, bits : 0 .. 128, canonical : BOOLEAN, parses : BOOLEAN,
   nexthop : {"none", "v4", "v6"}, rd : BOOLEAN, label : BOOLEAN,
   actions : BOOLEAN, asns : Nat, extras : Seq(Nat), flow : Nat, pathId : BOOLEAN]

ASSUME RouteListsAssumption ==
  /\ RouteLists \subseteq Seq(Routes)
  /\ Formats \subseteq {"td2", "bgp4mp"}
  /\ Bases \subseteq 0 .. U32 - 1
  /\ Builds \subseteq BOOLEAN

VARIABLES
  job,        \* the arguments: list, format, base timestamp, build
  phase,      \* "parse", "encode", "done", "refused" or "panicked"
  at,         \* the route at hand
  blame,      \* the route an error names, 0 for none
  bytes, end, entries, counts       \* as in the Builder

outVars == <<bytes, end, entries, counts>>
vars == <<job, phase, at, blame, outVars>>

-----------------------------------------------------------------------------
(* Sizes.                                                                  *)

Octets(bits) == (bits + 7) \div 8

(* bgp::attribute: a one-octet length up to 255, a two-octet one above.    *)
Attribute(value) == (IF value > U8Max THEN 4 ELSE 3) + value

SumOf(values) == LET s[i \in 0 .. Len(values)] == IF i = 0 THEN 0 ELSE s[i - 1] + values[i]
                 IN s[Len(values)]

AsPath(r) == IF r.asns = 0 THEN 0 ELSE 2 + 4 * r.asns

IsFlow(r) == "flowspec" \in r.carries

NextHop(r) == CASE r.nexthop = "none" -> 0 [] r.nexthop = "v4" -> 4 [] OTHER -> 16

(* common_attrs: origin and AS path before the next hop, the rest after.   *)
CommonAttrs(r) ==
  Attribute(1) + Attribute(AsPath(r))
  + SumOf([i \in DOMAIN r.extras |-> Attribute(r.extras[i])])

PathId(r) == IF r.pathId THEN 4 ELSE 0

(* flowspec::encode_nlri frames its components with one octet or two.      *)
FlowNlri(r) == (IF r.flow < 240 THEN 1 ELSE 2) + r.flow

Nlri(r) ==
  PathId(r) + (IF IsFlow(r) THEN FlowNlri(r)
               ELSE 1 + Octets(r.bits) + (IF r.rd THEN 3 + 8 ELSE 0))

Td2Carrier(r) ==
  IF r.rd THEN 1 + 8 + NextHop(r) ELSE IF r.v6 THEN 1 + NextHop(r) ELSE NextHop(r)

Td2Attrs(r) == CommonAttrs(r) + Attribute(Td2Carrier(r))

InMpReach(r) == IsFlow(r) \/ r.rd \/ r.v6

MpReach(r) == 2 + 1 + 1 + (IF r.rd THEN 8 ELSE 0) + NextHop(r) + 1 + Nlri(r)

UpdateAttrs(r) == CommonAttrs(r) + Attribute(IF InMpReach(r) THEN MpReach(r) ELSE NextHop(r))

Update(r) == 19 + 2 + 2 + UpdateAttrs(r) + (IF InMpReach(r) THEN 0 ELSE Nlri(r))

Body(r, format) ==
  IF format = "bgp4mp"
  THEN 4 + 4 + 2 + 2 + 2 * (IF r.v6 THEN 16 ELSE 4) + Update(r)
  ELSE IF r.rd THEN 4 + 3 + Nlri(r) + 2 + (2 + 4 + 2 + Td2Attrs(r))
  ELSE 4 + (Nlri(r) - PathId(r)) + 2 + (2 + 4 + PathId(r) + 2 + Td2Attrs(r))

(* peer_index_table with the view name "mrtgen-routes" and the two peers.  *)
PeerTableBody == 4 + 2 + 13 + 2 + (1 + 4 + 4 + 4) + (1 + 4 + 16 + 4)

-----------------------------------------------------------------------------
(* Slip: a limit of 65536 octets where the length field holds 65535.      *)
TooLargeByOne(r, format) ==
  IF format = "td2" THEN Td2Attrs(r) > U16Max + 1 ELSE Update(r) > MaxMessage

(* parse_route: everything it lets through.                                *)
Accepts(r) ==
  /\ r.expect # "abort"
  /\ Cardinality(r.carries) = 1
  /\ r.parses
  /\ r.expect = "valid" => r.canonical /\ r.asns <= U8Max
  /\ IsFlow(r) => r.flow \in 1 .. MaxFlow - 1 /\ ~ r.rd
  /\ ~ IsFlow(r) => r.bits <= (IF r.v6 THEN 128 ELSE 32)
  /\ r.actions => IsFlow(r)
  /\ r.label => r.rd
  /\ r.nexthop = "none" => IsFlow(r)
  /\ r.nexthop # "none" => r.nexthop = (IF r.v6 THEN "v6" ELSE "v4")

(* The limits generate_from_routes checks once a route is encoded.         *)
TooLarge(r, format) ==
  IF format = "td2" THEN Td2Attrs(r) > U16Max ELSE Update(r) > MaxMessage

(* .try_into().unwrap() on an address of the wrong size.                   *)
Unwraps(r, format) ==
  /\ ~ r.rd
  /\ format = "bgp4mp" => ~ IsFlow(r)
  /\ IsFlow(r) \/ (~ r.v6 /\ r.nexthop # "v4")

Kind(r, format) ==
  <<format, IF IsFlow(r) THEN "flowspec" ELSE IF r.rd THEN "vpn" ELSE "unicast",
    r.v6 /\ format = "td2", r.pathId>>

-----------------------------------------------------------------------------
TypeOK ==
  /\ job.list \in RouteLists /\ job.format \in Formats
  /\ phase \in {"parse", "encode", "done", "refused", "panicked"}
  /\ at \in 1 .. Len(job.list) + 1
  /\ blame \in 0 .. Len(job.list)
  /\ end \in Nat
  /\ \A i \in DOMAIN bytes : bytes[i] \in Chunks
  /\ counts \in [{"valid", "skip", "abort"} -> Nat]

Init ==
  /\ job \in [list : RouteLists, format : Formats, base : Bases, checks : Builds]
  /\ phase = "parse"
  /\ at = 1
  /\ blame = 0
  /\ bytes = << >>
  /\ end = 0
  /\ entries = << >>
  /\ counts = [x \in {"valid", "skip", "abort"} |-> 0]

Route == job.list[at]

(* Slips: a stamp in full; an entry with the size of the file; a peer of   *)
(* its own for every route.                                                *)
NextTimestampWide == job.base + Len(entries)
EntrySizeOfFile(rec) == end + EncodedLen(rec)
PeerPerRoute == at

(* base_timestamp + entries.len() as u32: the peer table takes the base.   *)
TimestampSum == job.base + (Len(entries) % U32)

NextTimestamp == TimestampSum % U32

Fits == job.checks => TimestampSum < U32

EntrySize(rec) == EncodedLen(rec)

(* Peer 0 answers the IPv4 routes, peer 1 the IPv6 routes.                 *)
PeerOfRoute == IF Route.v6 THEN 1 ELSE 0

(* The push closure of generate_from_routes.                               *)
Push(type, body, content, class, kind) ==
  LET rec == [type |-> type, us |-> FALSE, body |-> body, content |-> content,
              declared |-> Computed]
      out == Encode(rec, NextTimestamp, end)
  IN /\ bytes' = Append(bytes, out)
     /\ end' = end + out.size
     /\ counts' = [counts EXCEPT ![class] = @ + 1]
     /\ entries' = Append(entries,
          [index |-> Len(entries), offset |-> end, size |-> EntrySize(rec),
           type |-> type, timestamp |-> NextTimestamp, expect |-> class, kind |-> kind])

-----------------------------------------------------------------------------
ParseRoute ==
  /\ phase = "parse"
  /\ at <= Len(job.list)
  /\ Accepts(Route)
  /\ at' = at + 1
  /\ UNCHANGED <<job, phase, blame, outVars>>

RefuseRoute ==
  /\ phase = "parse"
  /\ at <= Len(job.list)
  /\ ~ Accepts(Route)
  /\ phase' = "refused"
  /\ blame' = at
  /\ UNCHANGED <<job, at, outVars>>

(* Slips: encoding starts behind the first route that parses; a FlowSpec   *)
(* rule is looked for in the first route only.                             *)
ParsedOne == phase = "parse" /\ (at > 1 \/ job.list = << >>)
FlowsAtHead(list) == {i \in DOMAIN list : i = 1 /\ IsFlow(list[i])}

Flows(list) == {i \in DOMAIN list : IsFlow(list[i])}

Parsed == phase = "parse" /\ at > Len(job.list)

(* TABLE_DUMP_V2 holds no FlowSpec; otherwise the peer table comes first.  *)
RefuseFlowspec ==
  /\ Parsed
  /\ job.format = "td2"
  /\ Flows(job.list) # {}
  /\ phase' = "refused"
  /\ blame' = Min(Flows(job.list))
  /\ UNCHANGED <<job, at, outVars>>

BeginTable ==
  /\ Parsed
  /\ job.format = "td2"
  /\ Flows(job.list) = {}
  /\ Push("TABLE_DUMP_V2", PeerTableBody, [table |-> PeersOfList, top |-> NoPeer],
          "valid", <<"peers">>)
  /\ phase' = "encode"
  /\ at' = 1
  /\ UNCHANGED <<job, blame>>

BeginUpdates ==
  /\ Parsed
  /\ job.format = "bgp4mp"
  /\ phase' = "encode"
  /\ at' = 1
  /\ UNCHANGED <<job, blame, outVars>>

Encoding == phase = "encode" /\ at <= Len(job.list)

EncodeRoute ==
  /\ Encoding
  /\ Fits
  /\ ~ Unwraps(Route, job.format)
  /\ ~ TooLarge(Route, job.format)
  /\ Push(IF job.format = "td2" THEN "TABLE_DUMP_V2" ELSE "BGP4MP", Body(Route, job.format),
          [table |-> NoPeer,
           top |-> IF job.format = "bgp4mp" THEN NoPeer ELSE PeerOfRoute],
          Route.expect, Kind(Route, job.format))
  /\ at' = at + 1
  /\ UNCHANGED <<job, phase, blame>>

RefuseTooLarge ==
  /\ Encoding
  /\ Fits
  /\ ~ Unwraps(Route, job.format)
  /\ TooLarge(Route, job.format)
  /\ phase' = "refused"
  /\ blame' = at
  /\ UNCHANGED <<job, at, outVars>>

(* An unwrap of the wrong size, or a timestamp that overflows in a build   *)
(* with overflow checks.                                                   *)
Panic ==
  /\ Encoding
  /\ ~ Fits \/ Unwraps(Route, job.format)
  /\ phase' = "panicked"
  /\ UNCHANGED <<job, at, blame, outVars>>

Finish ==
  /\ phase = "encode"
  /\ at > Len(job.list)
  /\ phase' = "done"
  /\ UNCHANGED <<job, at, blame, outVars>>

Next ==
  \/ ParseRoute \/ RefuseRoute
  \/ RefuseFlowspec \/ BeginTable \/ BeginUpdates
  \/ EncodeRoute \/ RefuseTooLarge \/ Panic
  \/ Finish

Spec == Init /\ [][Next]_vars

-----------------------------------------------------------------------------
Output == INSTANCE CorpusBuilder WITH
  Configs <- RouteLists, Program <- << >>, cfg <- job

(* The push closure, which is not the Builder's push, keeps the manifest   *)
(* in step with the file in the same way, and stamps record N of a route   *)
(* list too with base_timestamp + N, though the peer table takes a record  *)
(* number that no route has.                                               *)
ManifestMatchesFile == Output!ManifestMatchesFile /\ Output!TimestampsFollowIndex

EncodedRoutes ==
  IF phase \in {"encode", "done"} THEN {job.list[i] : i \in 1 .. at - 1} ELSE {}

(* No length or count that was cast to a narrower field lost anything: of  *)
(* every route that made it into the file the attribute lengths, the sum   *)
(* of them, the UPDATE and the VPN prefix length are what their u16 and u8 *)
(* fields say, and so is the AS count, except in routes marked as skip.    *)
(* attribute(), bgp_update() and nlri_vpn() cast without a check; the      *)
(* checks are on the total, in parse_route and after the encoding.         *)
NoLossyCast ==
  \A r \in EncodedRoutes :
    /\ \A value \in Range(r.extras) \cup {AsPath(r), NextHop(r)} : value <= U16Max
    /\ CommonAttrs(r) <= U16Max
    /\ r.expect = "valid" => r.asns <= U8Max
    /\ 24 + 64 + r.bits <= U8Max
    /\ job.format = "td2" => Td2Attrs(r) <= U16Max
    /\ job.format = "bgp4mp" =>
         MpReach(r) <= U16Max /\ UpdateAttrs(r) <= U16Max /\ Update(r) <= U16Max

(* The only panic is the timestamp of a build with overflow checks: the    *)
(* unwraps on addresses meet no address of the wrong size, whatever the    *)
(* list mixes (parse_nexthop and the FlowSpec refusal see to it).          *)
NoUnwrapPanic == phase = "panicked" => ~ Fits

(* What is wrong with a list: the routes that do not parse; if all do, in  *)
(* TABLE_DUMP_V2 the FlowSpec rules; if there are none, the oversized.     *)
Troubled ==
  LET bad == {i \in DOMAIN job.list : ~ Accepts(job.list[i])}
      flow == {i \in DOMAIN job.list : "flowspec" \in job.list[i].carries}
      big == {i \in DOMAIN job.list : TooLarge(job.list[i], job.format)}
  IN IF bad # {} THEN bad ELSE IF job.format = "td2" /\ flow # {} THEN flow ELSE big

(* The error does not depend on how far encoding got: it names the first   *)
(* route of the most basic trouble in the list, and a list is only done    *)
(* when there is none.                                                     *)
BlameIsDetermined ==
  /\ phase = "refused" => blame = Min(Troubled)
  /\ phase = "done" => Troubled = {}

(* A finished file is the peer table, in TABLE_DUMP_V2, and one record for *)
(* each route in the order of the list, with its class; every RIB entry    *)
(* names a peer of that table.                                             *)
OneRecordPerRoute ==
  phase = "done" =>
    LET lead == IF job.format = "td2" THEN 1 ELSE 0
    IN /\ Len(entries) = lead + Len(job.list)
       /\ \A i \in DOMAIN job.list :
            /\ entries[lead + i].expect = job.list[i].expect
            /\ entries[lead + i].kind = Kind(job.list[i], job.format)
       /\ lead = 1 =>
            \A i \in 2 .. Len(bytes) : bytes[i].content.top < bytes[1].content.table

(* "`kind` is a unique, stable identifier per test case -- key your CI     *)
(* assertions on it": no two records of one manifest share it.             *)
KindsIdentifyRecords ==
  \A i, j \in DOMAIN entries : entries[i].kind = entries[j].kind => i = j
=============================================================================
