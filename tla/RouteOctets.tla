----------------------------- MODULE RouteOctets ----------------------------
(***************************************************************************)
(* The record that generate_from_routes of src/routes.rs makes of a route, *)
(* octet by octet, in both formats, and what route_details says of it.     *)
(* RouteCompiler has the list, the manifest and the order of the errors;   *)
(* this is the inside of its EncodeRoute.  The NLRI of a FlowSpec rule is  *)
(* FlowSpecNlri's and is taken as it is.                                   *)
(***************************************************************************)
EXTENDS RouteFields

EachOne(Encode(_), s) == Octets([i \in DOMAIN s |-> Encode(s[i])])

(* Everything parse_route asks of the fields of a route.                   *)
FieldsParse(r) ==
  /\ r.flow = << >> => PrefixParses(r.addr, r.bits)
  /\ \A i \in DOMAIN r.rd : RdParses(r.rd[i])
  /\ \A i \in DOMAIN r.label : r.label[i] < 2 ^ 20
  /\ \A i \in DOMAIN r.ext : ExtParses(r.ext[i])
  /\ \A i \in DOMAIN r.actions : ActionsParse(r.actions[i])
  /\ OriginParses(r.origin)
  /\ \A i \in DOMAIN r.std : CommunityParses(r.std[i])
  /\ \A i \in DOMAIN r.aggregator : AggregatorParses(r.aggregator[i])
  /\ \A i \in DOMAIN r.ext6 : Ext6Parses(r.ext6[i])
  /\ \A i \in DOMAIN r.large : LargeParses(r.large[i])

(* Slip: only whole octets behind the prefix are looked at.                *)
AcceptsWholeOctets(r) ==
  /\ FieldsParse(r)
  /\ r.expect = "valid" =>
       /\ r.flow = << >> => \A i \in PrefixOctets(r.bits) + 1 .. Len(r.addr) : r.addr[i] = 0
       /\ \A i \in DOMAIN r.asPath : Len(r.asPath[i]) <= 255

(* What a valid route must be beyond that.                                 *)
Accepts(r) ==
  /\ FieldsParse(r)
  /\ r.expect = "valid" =>
       /\ r.flow = << >> => ~HasHostBits(r.addr, r.bits)
       /\ \A i \in DOMAIN r.asPath : Len(r.asPath[i]) <= 255

-----------------------------------------------------------------------------
AsPath(r) == IF r.asPath = << >> THEN <<Word(64500)>> ELSE r.asPath[1]

AttrAsPath(asns) ==
  IF asns = << >> THEN Attribute(Flag.TRANSITIVE, Attr.AS_PATH, << >>) ELSE AttrAsPath4b(asns)

WithPathId(r, nlri) == EachOne(U32, r.pathId) \o nlri

RouteExtComms(r) ==
  [i \in DOMAIN r.ext |-> ExtOctets(r.ext[i])]
  \o (IF r.actions = << >> THEN << >> ELSE ActionCommunities(r.actions[1]))

IfAny(list, attr) == IF list = << >> THEN << >> ELSE attr

HeadAttrs(r) == AttrOrigin(r.origin) \o AttrAsPath(AsPath(r))

TailAttrs(r) ==
  LET med(n)  == Attribute(Flag.OPTIONAL, Attr.MULTI_EXIT_DISC, U32(n))
      pref(n) == Attribute(Flag.TRANSITIVE, Attr.LOCAL_PREF, U32(n))
      aggregator(a) == AttrAggregator4b(a.asn, a.ip)
  IN EachOne(med, r.med)
     \o EachOne(pref, r.localPref)
     \o (IF r.atomic THEN AttrAtomicAggregate ELSE << >>)
     \o EachOne(aggregator, r.aggregator)
     \o IfAny(r.std, AttrCommunities([i \in DOMAIN r.std |-> Community(r.std[i])]))
     \o EachOne(AttrOriginatorId, r.originator)
     \o IfAny(r.clusters, AttrClusterList(r.clusters))
     \o IfAny(RouteExtComms(r), AttrExtCommunities(RouteExtComms(r)))
     \o IfAny(r.ext6, AttrIpv6ExtCommunities([i \in DOMAIN r.ext6 |-> Ext6Octets(r.ext6[i])]))
     \o EachOne(AttrAigp, r.aigp)
     \o IfAny(r.large, AttrLargeCommunities(r.large))
     \o EachOne(RawOctets, r.raw)

(* The NLRI without its Path Identifier.                                   *)
RouteNlri(r) ==
  IF r.flow # << >> THEN r.flow[1]
  ELSE IF r.rd # << >>
  THEN NlriVpn(IF r.label = << >> THEN 0 ELSE r.label[1], RdOctets(r.rd[1]), r.addr, r.bits)
  ELSE Nlri(r.addr, r.bits)

RouteAfi(r) == IF r.v6 THEN Afi.IPV6 ELSE Afi.IPV4

-----------------------------------------------------------------------------
(* TABLE_DUMP_V2: the next hop and its length alone; a VPN route rides a   *)
(* RIB_GENERIC, which has the Path Identifier in the NLRI.                 *)
TableAttrs(r) ==
  HeadAttrs(r)
  \o (CASE r.rd # << >>         -> AttrMpReachTd2(VpnNextHop(r.nexthop))
        [] r.rd = << >> /\ r.v6 -> AttrMpReachTd2(r.nexthop)
        [] OTHER                -> AttrNextHop(r.nexthop))
  \o TailAttrs(r)

RibSubtype(r) ==
  CASE r.v6  /\ r.pathId = << >> -> Td2.RIB_IPV6_UNICAST
    [] r.v6  /\ r.pathId # << >> -> Td2.RIB_IPV6_UNICAST_ADDPATH
    [] ~r.v6 /\ r.pathId = << >> -> Td2.RIB_IPV4_UNICAST
    [] OTHER                     -> Td2.RIB_IPV4_UNICAST_ADDPATH

RibRecord(r, i) ==
  LET entry == RibEntry(IF r.v6 THEN 1 ELSE 0, TableAttrs(r))
  IN IF r.rd # << >>
     THEN RibGeneric(IF r.pathId = << >> THEN Td2.RIB_GENERIC ELSE Td2.RIB_GENERIC_ADDPATH, Word(i),
                     RouteAfi(r), Safi.MPLS_VPN, WithPathId(r, RouteNlri(r)), <<entry>>)
     ELSE RibAfiSafi(RibSubtype(r), Word(i), RouteNlri(r),
                     <<[entry EXCEPT !.pathId = IF r.pathId = << >> THEN NoPathId ELSE r.pathId[1]]>>)

-----------------------------------------------------------------------------
(* BGP4MP: an IPv4 unicast prefix follows the attributes, all others are   *)
(* in an MP_REACH_NLRI.                                                    *)
InMpReach(r) == r.flow # << >> \/ r.rd # << >> \/ r.v6

RouteSafi(r) ==
  IF r.flow # << >> THEN Safi.FLOWSPEC ELSE IF r.rd # << >> THEN Safi.MPLS_VPN ELSE Safi.UNICAST

Announced(r) == WithPathId(r, RouteNlri(r))

(* Slip: the next hop of a VPN route without its Route Distinguisher.      *)
UpdateCarrierPlain(r) ==
  IF InMpReach(r) THEN AttrMpReach(RouteAfi(r), RouteSafi(r), r.nexthop, Announced(r)) ELSE AttrNextHop(r.nexthop)

UpdateCarrier(r) ==
  IF InMpReach(r)
  THEN AttrMpReach(RouteAfi(r), RouteSafi(r),
                   IF r.flow = << >> /\ r.rd # << >> THEN VpnNextHop(r.nexthop) ELSE r.nexthop, Announced(r))
  ELSE AttrNextHop(r.nexthop)

UpdateOf(r) ==
  BgpUpdate(<< >>, HeadAttrs(r) \o UpdateCarrier(r) \o TailAttrs(r), IF InMpReach(r) THEN << >> ELSE Announced(r))

(* The session of the record: its peer is the first AS of the path.        *)
RouteEnds(r) ==
  [peerAs |-> IF AsPath(r) = << >> THEN Word(64500) ELSE AsPath(r)[1], localAs |-> Word(64511),
   peerIp |-> IF r.v6 THEN V6(1) ELSE Loopback, localIp |-> IF r.v6 THEN V6(2) ELSE LocalEnd]

UpdateRecord(r) ==
  Bgp4mpMessage(Type.BGP4MP, NoMicros,
                IF r.pathId = << >> THEN Bgp4mp.MESSAGE_AS4 ELSE Bgp4mp.MESSAGE_AS4_ADDPATH, RouteEnds(r), UpdateOf(r))

(* What generate_from_routes makes of route i, and when it does not.       *)
RouteRecord(r, format, i) == IF format = "td2" THEN RibRecord(r, i) ELSE UpdateRecord(r)

Fits(r, format) ==
  IF format = "td2" THEN r.flow = << >> /\ Len(TableAttrs(r)) <= 65535 ELSE Len(UpdateOf(r)) <= 4096

-----------------------------------------------------------------------------
(* An administrator as it was asked for.                                   *)
AdminSaid(name, nameOfIp, a) ==
  IF a.isIp
  THEN <<nameOfIp, 256 * a.admin[1] + a.admin[2], 256 * a.admin[3] + a.admin[4]>> \o a.number
  ELSE <<name>> \o a.admin \o a.number

ExtCommSaid(c) == CASE c.form = "rt"  -> {AdminSaid("rt", "rt_ip", c.of)}
                [] c.form = "soo" -> {AdminSaid("soo", "soo_ip", c.of)}
                [] OTHER -> {}

Ext6Said(c) == CASE c.form = "rt"  -> {Holds("rt6", c.ip) \o <<c.local[2]>>}
                 [] c.form = "soo" -> {Holds("soo6", c.ip) \o <<c.local[2]>>}
                 [] OTHER -> {}

CommunitySaid(c) == WordIs("community", IF c.form = "pair" THEN <<c.asn[2], c.value[2]>> ELSE Community(c))

ActionsSaid(a) ==
  {Holds("rate_bytes", a.rateBytes[i]) : i \in DOMAIN a.rateBytes}
  \cup {Holds("rate_packets", a.ratePackets[i]) : i \in DOMAIN a.ratePackets}
  \cup {AdminSaid("redirect", "redirect_ip", a.redirect[i]) : i \in DOMAIN a.redirect}
  \cup {Number("marking", a.marking[i]) : i \in DOMAIN a.marking}
  \cup (IF a.terminal = << >> /\ a.sample = << >> THEN {}
        ELSE {<<"terminal_sample", Bit(a.terminal), Bit(a.sample)>>})

RawSaid(raw) == {AttrIs(raw.code, Len(raw.value)), <<"flags", raw.code, EmittedFlags(raw)>>}

PrefixSaid(r) ==
  IF r.flow # << >> THEN {Holds("flowspec", r.flow[1])}
  ELSE {Holds("prefix", SubSeq(r.addr, 1, PrefixOctets(r.bits)))}
       \cup IF r.rd = << >> THEN {Number("bits", r.bits)}
            ELSE {Number("bits", r.bits + 88), AdminSaid("rd", "rd_ip", r.rd[1]),
                  Number("label", IF r.label = << >> THEN 0 ELSE r.label[1])}

(* route_details: the fields of a route, echoed.                           *)
RouteDetails(r) ==
  PrefixSaid(r)
  \cup {Number("origin", r.origin), Holds("next_hop", r.nexthop)}
  \cup {<<"asn", i - 1>> \o AsPath(r)[i] : i \in DOMAIN AsPath(r)}
  \cup {WordIs("med", r.med[i]) : i \in DOMAIN r.med}
  \cup {WordIs("local_pref", r.localPref[i]) : i \in DOMAIN r.localPref}
  \cup {<<"aggregator">> \o r.aggregator[i].asn \o r.aggregator[i].ip : i \in DOMAIN r.aggregator}
  \cup {Holds("originator_id", r.originator[i]) : i \in DOMAIN r.originator}
  \cup {<<"cluster", i - 1>> \o r.clusters[i] : i \in DOMAIN r.clusters}
  \cup {<<"aigp", 1, 11>> \o r.aigp[i] : i \in DOMAIN r.aigp}
  \cup {CommunitySaid(r.std[i]) : i \in DOMAIN r.std}
  \cup UNION {ExtCommSaid(r.ext[i]) : i \in DOMAIN r.ext}
  \cup UNION {ActionsSaid(r.actions[i]) : i \in DOMAIN r.actions}
  \cup UNION {Ext6Said(r.ext6[i]) : i \in DOMAIN r.ext6}
  \cup {<<"large">> \o r.large[i][1] \o r.large[i][2] \o r.large[i][3] : i \in DOMAIN r.large}
  \cup {WordIs("path_id", r.pathId[i]) : i \in DOMAIN r.pathId}
  \cup UNION {RawSaid(r.raw[i]) : i \in DOMAIN r.raw}

(* The entry of route i: only a valid route promises its details.          *)
RouteCase(r, format, i) ==
  Case(format, "route", r.expect, IF r.expect = "valid" THEN "none" ELSE "unnamed",
       RouteRecord(r, format, i), IF r.expect = "valid" THEN RouteDetails(r) ELSE {})

(* The attributes the fields of a route ask for.                           *)
BuiltIn(r, format) ==
  {Attr.ORIGIN, Attr.AS_PATH}
  \cup {IF r.rd # << >> \/ r.v6 \/ (format = "bgp4mp" /\ r.flow # << >>) THEN Attr.MP_REACH_NLRI ELSE Attr.NEXT_HOP}
  \cup (IF r.med # << >> THEN {Attr.MULTI_EXIT_DISC} ELSE {})
  \cup (IF r.localPref # << >> THEN {Attr.LOCAL_PREF} ELSE {})
  \cup (IF r.atomic THEN {Attr.ATOMIC_AGGREGATE} ELSE {})
  \cup (IF r.aggregator # << >> THEN {Attr.AGGREGATOR} ELSE {})
  \cup (IF r.std # << >> THEN {Attr.COMMUNITY} ELSE {})
  \cup (IF r.originator # << >> THEN {Attr.ORIGINATOR_ID} ELSE {})
  \cup (IF r.clusters # << >> THEN {Attr.CLUSTER_LIST} ELSE {})
  \cup (IF r.ext # << >> \/ (r.actions # << >> /\ ActionsSaid(r.actions[1]) # {}) THEN {Attr.EXT_COMMUNITY} ELSE {})
  \cup (IF r.ext6 # << >> THEN {Attr.IPV6_EXT_COMMUNITY} ELSE {})
  \cup (IF r.aigp # << >> THEN {Attr.AIGP} ELSE {})
  \cup (IF r.large # << >> THEN {Attr.LARGE_COMMUNITY} ELSE {})

(* All that it asks for, and whether it asks for one of them twice.        *)
AskedFor(r, format) == BuiltIn(r, format) \cup {r.raw[i].code : i \in DOMAIN r.raw}

RawRepeats(r, format) ==
  \E i \in DOMAIN r.raw :
    r.raw[i].code \in BuiltIn(r, format) \cup {r.raw[k].code : k \in 1 .. i - 1}
=============================================================================
