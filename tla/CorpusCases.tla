----------------------------- MODULE CorpusCases ----------------------------
(***************************************************************************)
(* The cases of the emit_ functions of src/generator.rs: the record each   *)
(* one pushes, the class and the reason of its manifest entry, and the     *)
(* numbers of its details that a reader can find in the octets.  Kinds of  *)
(* a loop share a name.  Left out are the two 65535-entry tables and all   *)
(* but one of the 100000 KEEPALIVEs of emit_stress.                        *)
(***************************************************************************)
EXTENDS ManifestCases

-----------------------------------------------------------------------------
CorpusPeers ==
  <<[id |-> <<192, 0, 2, 10>>, ip |-> <<10, 0, 0, 1>>, asn |-> Word(64500), as4 |-> FALSE],
    [id |-> <<192, 0, 2, 11>>, ip |-> <<10, 0, 0, 2>>, asn |-> Big(1), as4 |-> TRUE],
    [id |-> <<192, 0, 2, 12>>, ip |-> V6(1), asn |-> Big(2), as4 |-> TRUE],
    [id |-> <<192, 0, 2, 13>>, ip |-> V6(2), asn |-> Word(64501), as4 |-> FALSE]>>

BigEnds4 == [peerAs |-> Big(1), localAs |-> Big(2), peerIp |-> Loopback, localIp |-> LocalEnd]
Ends6(as4) == [peerAs |-> IF as4 THEN Big(1) ELSE Word(64500), localAs |-> IF as4 THEN Big(2) ELSE Word(64501),
               peerIp |-> V6(1), localIp |-> V6(2)]
PeerAs(ends) == WordIs("peer_as", ends.peerAs)

WithId(entry, id) == [entry EXCEPT !.pathId = id]
RouteTarget(n) == <<0, 2, 251, 244, 0, 0, 0, n>>

(* The IPv4 and IPv6 RIB subtypes, plain and ADD-PATH.                     *)
V4RibCase(i, subtype, addpath) ==
  LET id(n) == IF addpath THEN Word(n) ELSE NoPathId
  IN Valid("valid", "rib_ipv4",
       RibAfiSafi(subtype, Word(i), Nlri(<<10, 99 + i, 0, 0>>, 16),
                  <<WithId(RibEntry(0, StandardAttrsV4(i)), id(i)),
                    WithId(RibEntry(1, StandardAttrsV4(i + 10)), id(i + 100))>>),
       {Number("sequence", i), Number("bits", 16), Number("entry_count", 2),
        Number("peer_index", 0), Number("peer_index", 1)}
       \cup IF addpath THEN {Number("path_id", i), Number("path_id", i + 100)} ELSE {})

V6RibCase(i, subtype, addpath) ==
  Valid("valid", "rib_ipv6",
    RibAfiSafi(subtype, Word(9 + i), Nlri([V6(0) EXCEPT ![5] = i], 48),
               <<WithId(RibEntry(2, StandardAttrsV6(9 + i)), IF addpath THEN Word(9 + i) ELSE NoPathId)>>),
    {Number("sequence", 9 + i), Number("bits", 48), Number("entry_count", 1), Number("peer_index", 2)}
    \cup IF addpath THEN {Number("path_id", 9 + i)} ELSE {})

VpnAttrs(asn, nextHop, target) ==
  AttrOrigin(0) \o AttrAsPath4b(<<Word(64500), asn>>) \o AttrMpReachTd2(VpnNextHop(nextHop))
  \o AttrExtCommunities(<<RouteTarget(target)>>)

VpnV4Nlri == NlriVpn(100, RdType0(64500, Word(1)), <<10, 30, 0, 0>>, 24)
VpnV6Nlri == NlriVpn(200, RdType1(<<192, 0, 2, 66>>, 2), [V6(0) EXCEPT ![6] = 100], 48)

EmitValidTables ==
  <<Valid("valid", "peer_index_table", PeerIndexTable(<<192, 0, 2, 100>>, 11, CorpusPeers),
      {Number("peer_count", 4)} \cup {WordIs("peer_as", CorpusPeers[i].asn) : i \in 1 .. 4}),
    V4RibCase(1, Td2.RIB_IPV4_UNICAST, FALSE), V4RibCase(2, Td2.RIB_IPV4_MULTICAST, FALSE),
    V4RibCase(3, Td2.RIB_IPV4_UNICAST_ADDPATH, TRUE), V4RibCase(4, Td2.RIB_IPV4_MULTICAST_ADDPATH, TRUE),
    V6RibCase(1, Td2.RIB_IPV6_UNICAST, FALSE), V6RibCase(2, Td2.RIB_IPV6_MULTICAST, FALSE),
    V6RibCase(3, Td2.RIB_IPV6_UNICAST_ADDPATH, TRUE), V6RibCase(4, Td2.RIB_IPV6_MULTICAST_ADDPATH, TRUE),
    Valid("valid", "rib_generic",
      RibGeneric(Td2.RIB_GENERIC, Word(20), Afi.IPV4, Safi.UNICAST, Nlri(<<203, 0, 113, 0>>, 24),
                 <<RibEntry(1, StandardAttrsV4(42))>>),
      {Number("sequence", 20), Number("afi", 1), Number("safi", 1), Number("bits", 24), Number("entry_count", 1)}),
    Valid("valid", "rib_generic_addpath",
      RibGeneric(Td2.RIB_GENERIC_ADDPATH, Word(21), Afi.IPV4, Safi.UNICAST,
                 NlriAddpath(Word(7), <<203, 0, 113, 128>>, 25), <<RibEntry(1, StandardAttrsV4(43))>>),
      {Number("sequence", 21), Number("bits", 25), Number("path_id", 7), Number("entry_count", 1)}),
    Valid("valid", "rib_generic_vpnv4",
      RibGeneric(Td2.RIB_GENERIC, Word(22), Afi.IPV4, Safi.MPLS_VPN, VpnV4Nlri,
                 <<RibEntry(1, VpnAttrs(Big(1), <<192, 0, 2, 5>>, 1))>>),
      {Number("sequence", 22), Number("safi", 128), Number("bits", 112), Number("label", 100)}),
    Valid("valid", "rib_generic_vpnv6",
      RibGeneric(Td2.RIB_GENERIC, Word(23), Afi.IPV6, Safi.MPLS_VPN, VpnV6Nlri,
                 <<RibEntry(2, VpnAttrs(Big(2), V6(9), 2))>>),
      {Number("sequence", 23), Number("afi", 2), Number("safi", 128), Number("bits", 136), Number("label", 200)})>>

BaseV4(salt) ==
  AttrOrigin(0) \o AttrAsPath4b(<<Word(64500 + salt), Big(salt)>>) \o AttrNextHop(<<192, 0, 2, 1 + salt>>)
Base2b == AttrOrigin(0) \o AttrAsPath2b(<<Word(64500), Word(65000)>>) \o AttrNextHop(Loopback)

(* update6: the path attribute's AS numbers are as wide as the subtype's.  *)
Update6(as4, addpath) ==
  BgpUpdate(<< >>,
    AttrOrigin(2)
    \o (IF as4 THEN AttrAsPath4b(<<Big(1), Word(64510)>>) ELSE AttrAsPath2b(<<Word(64500), Word(64510)>>))
    \o AttrMpReach(Afi.IPV6, Safi.UNICAST, V6(9),
                   IF addpath THEN NlriAddpath(Word(3), V6(0), 64) ELSE Nlri(V6(0), 64)),
    << >>)

SubtypeCase(subtype, addpath) ==
  LET as4 == subtype \in As4Subtypes
  IN Valid("valid", "bgp4mp_message_subtype",
       Bgp4mpMessage(Type.BGP4MP, NoMicros, subtype, Ends6(as4), Update6(as4, addpath)),
       {PeerAs(Ends6(as4)), Number("bgp_message_type", 2), Number("bits", 64)}
       \cup IF addpath THEN {Number("path_id", 3)} ELSE {})

MessageCase(message, said) ==
  Valid("valid", "bgp4mp_message", Wrapped(message), {PeerAs(Ends2)} \cup said)

EmitValidMessages ==
  <<Valid("valid", "table_dump_ipv4",
      LET attrs == Base2b
      IN TableDump(Afi.IPV4, 1, <<10, 200, 0, 0>>, 16, Loopback, 64500, attrs, Len(attrs)),
      {Number("sequence", 1), Number("bits", 16), WordIs("peer_as", Word(64500))}),
    Valid("valid", "table_dump_ipv6",
      LET attrs == AttrOrigin(0) \o AttrAsPath2b(<<Word(64500), Word(65001)>>)
                   \o AttrMpReach(Afi.IPV6, Safi.UNICAST, V6(9), Nlri(V6(0), 32))
      IN TableDump(Afi.IPV6, 2, V6(0), 32, V6(1), 64500, attrs, Len(attrs)),
      {Number("sequence", 2), Number("bits", 32), WordIs("peer_as", Word(64500))}),
    Valid("valid", "bgp4mp_state_change",
      Bgp4mpStateChange(Bgp4mp.STATE_CHANGE, Ends2, State.OPEN_CONFIRM, State.ESTABLISHED),
      {PeerAs(Ends2), Number("old_state", 5), Number("new_state", 6)}),
    Valid("valid", "bgp4mp_state_change_as4",
      Bgp4mpStateChange(Bgp4mp.STATE_CHANGE_AS4, Ends6(TRUE), State.IDLE, State.CONNECT),
      {PeerAs(Ends6(TRUE)), Number("old_state", 1), Number("new_state", 2)}),
    MessageCase(BgpUpdate(Nlri(<<198, 51, 100, 0>>, 25), Base2b, Nlri(<<198, 51, 100, 128>>, 25)),
      {Number("bgp_message_type", 2), Number("bits", 25)}),
    MessageCase(BgpOpen(64500, 180, <<192, 0, 2, 10>>), {Number("bgp_message_type", 1)}),
    MessageCase(BgpKeepalive, {Number("bgp_message_type", 4)}),
    MessageCase(BgpNotification(6, 2, << >>), {Number("bgp_message_type", 3)}),
    SubtypeCase(Bgp4mp.MESSAGE_AS4, FALSE), SubtypeCase(Bgp4mp.MESSAGE_LOCAL, FALSE),
    SubtypeCase(Bgp4mp.MESSAGE_AS4_LOCAL, FALSE), SubtypeCase(Bgp4mp.MESSAGE_ADDPATH, TRUE),
    SubtypeCase(Bgp4mp.MESSAGE_AS4_ADDPATH, TRUE), SubtypeCase(Bgp4mp.MESSAGE_LOCAL_ADDPATH, TRUE),
    SubtypeCase(Bgp4mp.MESSAGE_AS4_LOCAL_ADDPATH, TRUE),
    MessageCase(
      BgpUpdate(<< >>, AttrOrigin(0) \o AttrAsPath2b(<<Word(64500), Word(65000)>>)
                       \o AttrExtCommunities(<<RouteTarget(1)>>)
                       \o AttrMpReach(Afi.IPV4, Safi.MPLS_VPN, VpnNextHop(<<192, 0, 2, 5>>), VpnV4Nlri), << >>),
      {Number("bgp_message_type", 2), Number("afi", 1), Number("safi", 128), Number("label", 100)}),
    Valid("valid", "bgp4mp_et_message_as4",
      Bgp4mpMessage(Type.BGP4MP_ET, 250000, Bgp4mp.MESSAGE_AS4, BigEnds4, BgpKeepalive),
      {Number("microsecond", 250000), PeerAs(BigEnds4), Number("bgp_message_type", 4)})>>

(* The PDUs, by their headers; the octets after them are zero.             *)
Ospf2Pdu(type, length) == <<2, type>> \o U16(length) \o Fill(0, length - 4)
Ospf3Pdu(type, length) == <<3, type>> \o U16(length) \o Fill(0, length - 4)
IsisPdu(header, type)  == <<131, header, 1, 0, type, 1, 0, 0>> \o Fill(0, header - 8)

EmitValidIgp ==
  <<Valid("valid", "ospfv2", Ospfv2(Loopback, LocalEnd, Ospf2Pdu(1, 44)), {Number("ospf_type", 1)}),
    Valid("valid", "ospfv3", Ospfv3(NoMicros, V6(30), V6(31), Ospf3Pdu(1, 36)), {Number("ospf_type", 1)}),
    Valid("valid", "ospfv3_et", Ospfv3(500000, V6(30), V6(31), Ospf3Pdu(1, 36)), {Number("microsecond", 500000)}),
    Valid("valid", "isis", Isis(NoMicros, IsisPdu(27, 15)), {Number("pdu_type", 15), Number("pdu_len", 27)}),
    Valid("valid", "isis_et", Isis(750000, IsisPdu(27, 15)), {Number("microsecond", 750000), Number("pdu_type", 15)})>>

-----------------------------------------------------------------------------
WrongSizeCase(flags, code, length) ==
  Skip("skip", "invalid_attr_size", "attr_wrong_fixed_size", WrongAttrSize(flags, code, length), {AttrIs(code, length)})

EmitSkipMessages ==
  <<Skip("skip", "invalid_unknown_type", "unknown_mrt_type", UnknownMrtType(99), {}),
    Skip("skip", "invalid_td2_unknown_subtype", "unknown_subtype", UnknownSubtype(Type.TABLE_DUMP_V2, 99), {}),
    Skip("skip", "invalid_bgp4mp_unknown_subtype", "unknown_subtype", UnknownSubtype(Type.BGP4MP, 99), {}),
    WrongSizeCase(Flag.TRANSITIVE, Attr.ORIGIN, 4),
    WrongSizeCase(Flag.OPTIONAL, Attr.MULTI_EXIT_DISC, 2),
    WrongSizeCase(Flag.OPTIONAL, Attr.MULTI_EXIT_DISC, 8),
    WrongSizeCase(Flag.TRANSITIVE, Attr.NEXT_HOP, 16),
    WrongSizeCase(OptionalTransitive, Attr.AS4_AGGREGATOR, 4),
    WrongSizeCase(OptionalTransitive, Attr.AS4_AGGREGATOR, 16),
    Skip("skip", "invalid_attr_duplicate_origin_len4", "duplicate_attribute_and_attr_wrong_fixed_size",
         DuplicateOriginBadLen, {AttrIs(Attr.ORIGIN, 4)}),
    Skip("skip", "invalid_attr_len_overrun", "attr_len_overruns_container", AttrOverrun(200, 4),
         {AttrIs(Attr.MULTI_EXIT_DISC, 200)}),
    Skip("skip", "invalid_bgp_marker", "bad_bgp_marker", BadMarker, {}),
    Skip("skip", "invalid_bgp_length_too_small", "bgp_length_out_of_range", BadBgpLength(10),
         {Number("bgp_message_len", 10)}),
    Skip("skip", "invalid_bgp_length_too_large", "bgp_length_out_of_range", BadBgpLength(5000),
         {Number("bgp_message_len", 5000)}),
    Skip("skip", "invalid_bgp_truncated", "inner_truncation", TruncatedBgp, {}),
    Skip("skip", "invalid_bgp4mp_empty_body", "empty_body", EmptyBody, {})>>

EmitSkipTables ==
  <<Skip("skip", "invalid_rib_attr_len_overrun", "attr_len_overruns_record", RibAttrLenOverrun(900), {}),
    Skip("skip", "invalid_rib_v4_prefix_len_33", "prefix_len_out_of_range", RibBadPrefixLen(901, FALSE, 33),
         {Number("bits", 33)}),
    Skip("skip", "invalid_rib_v6_prefix_len_129", "prefix_len_out_of_range", RibBadPrefixLen(902, TRUE, 129),
         {Number("bits", 129)}),
    Skip("skip", "invalid_rib_vpn_prefix_len_too_short", "vpn_prefix_len_too_short",
         RibGenericVpnBadPrefixLen(903, 64), {Number("bits", 64)}),
    Skip("skip", "invalid_rib_vpn_prefix_len_too_long", "prefix_len_out_of_range",
         RibGenericVpnBadPrefixLen(904, 200), {Number("bits", 200)}),
    Skip("skip", "invalid_peer_index_count", "count_overruns_record", PeerIndexCountMismatch(10, 2),
         {Number("peer_count", 10)}),
    Skip("skip", "invalid_table_dump_attr_overrun", "attr_len_overruns_record", TableDumpAttrOverrun, {})>>

-----------------------------------------------------------------------------
StdComms == <<<<64500, 10>>, WellKnownCommunity.NO_EXPORT, WellKnownCommunity.NO_ADVERTISE>>
ExtComms == <<<<0, 2, 0, 252, 0, 0, 0, 10>>, <<0, 3, 0, 253, 0, 0, 0, 20>>>>
LargeComms == <<<<Word(64500), Word(1), Word(2)>>, <<Big(1), Word(7), Word(8)>>>>
StdSaid == {AttrIs(Attr.COMMUNITY, 12)} \cup {WordIs("community", StdComms[i]) : i \in 1 .. 3}
ExtSaid == {AttrIs(Attr.EXT_COMMUNITY, 16), <<"rt", 0, 252, 0, 10>>, <<"soo", 0, 253, 0, 20>>}
LargeSaid == {AttrIs(Attr.LARGE_COMMUNITY, 24)}
             \cup {<<"large">> \o LargeComms[i][1] \o LargeComms[i][2] \o LargeComms[i][3] : i \in 1 .. 2}
ManyComms(k) == [i \in 1 .. k |-> <<64500, i - 1>>]

(* push_rib_v4: one entry under a prefix of the case's own; path_id is put *)
(* in whatever the subtype says.                                           *)
ComboRib(subtype, sequence, id, attrs) ==
  RibAfiSafi(subtype, Word(sequence), Nlri(<<10, sequence - 99, 0, 0>>, 16), <<WithId(RibEntry(1, attrs), id)>>)

ComboLegal(sequence, id, attrs, said) ==
  Valid("combo", "combo_rib_v4_addpath", ComboRib(Td2.RIB_IPV4_UNICAST_ADDPATH, sequence, Word(id), attrs),
        {Number("path_id", id)} \cup said)

ComboIllegal(reason, subtype, sequence, id, attrs, said) ==
  Skip("combo", "combo_rib_v4_addpath", reason, ComboRib(subtype, sequence, id, attrs), said)

ComboUpdate(comms, nlri) ==
  Bgp4mpMessage(Type.BGP4MP, NoMicros, Bgp4mp.MESSAGE_ADDPATH, Ends2, BgpUpdate(<< >>, Base2b \o comms, nlri))

ComboV6 ==
  LET attrs == AttrOrigin(1) \o AttrAsPath4b(<<Word(64500), Big(2)>>) \o AttrMpReachTd2(V6(9))
               \o AttrCommunities(StdComms) \o AttrExtCommunities(ExtComms) \o AttrLargeCommunities(LargeComms)
  IN RibAfiSafi(Td2.RIB_IPV6_UNICAST_ADDPATH, Word(103), Nlri(V6(0), 48),
                <<WithId(RibEntry(2, attrs), Word(2001)), WithId(RibEntry(2, attrs), Word(2002))>>)

OverLong == ComboUpdate(AttrCommunities(ManyComms(1100)), NlriAddpath(Word(11011), <<198, 51, 100, 0>>, 24))
OverLongMessage ==
  Len(BgpUpdate(<< >>, Base2b \o AttrCommunities(ManyComms(1100)), NlriAddpath(Word(11011), <<198, 51, 100, 0>>, 24)))

EmitComboLegal ==
  <<ComboLegal(100, 1001, BaseV4(1) \o AttrCommunities(StdComms), StdSaid),
    ComboLegal(101, 1002, BaseV4(2) \o AttrExtCommunities(ExtComms), ExtSaid),
    ComboLegal(102, 1003, BaseV4(3) \o AttrLargeCommunities(LargeComms), LargeSaid),
    Valid("combo", "combo_rib_v6_addpath_all_comm", ComboV6, {Number("path_id", 2001), Number("path_id", 2002)} \cup StdSaid \cup ExtSaid \cup LargeSaid),
    Valid("combo", "combo_rib_generic_addpath_comm",
      RibGeneric(Td2.RIB_GENERIC_ADDPATH, Word(104), Afi.IPV4, Safi.UNICAST,
                 NlriAddpath(Word(3003), <<203, 0, 113, 0>>, 24),
                 <<RibEntry(1, BaseV4(4) \o AttrCommunities(StdComms) \o AttrLargeCommunities(LargeComms))>>),
      {Number("path_id", 3003)} \cup StdSaid \cup LargeSaid),
    Valid("combo", "combo_bgp4mp_addpath_comm",
      ComboUpdate(AttrCommunities(StdComms) \o AttrLargeCommunities(LargeComms),
                  NlriAddpath(Word(4004), <<198, 51, 100, 0>>, 24)),
      {Number("path_id", 4004), Number("bits", 24)} \cup StdSaid \cup LargeSaid),
    ComboLegal(105, 0, BaseV4(5) \o AttrCommunities(StdComms), StdSaid),
    ComboLegal(112, 10010, BaseV4(12) \o AttrCommunities(ManyComms(1000)), {AttrIs(Attr.COMMUNITY, 4000)})>>

EmitComboIllegal ==
  <<ComboIllegal("path_id_in_non_addpath_subtype", Td2.RIB_IPV4_UNICAST, 106, Word(5005),
                 BaseV4(6) \o AttrCommunities(StdComms), {}),
    ComboIllegal("missing_path_id_in_addpath_subtype", Td2.RIB_IPV4_UNICAST_ADDPATH, 107, NoPathId,
                 BaseV4(7) \o AttrCommunities(StdComms), {}),
    ComboIllegal("community_len_not_multiple", Td2.RIB_IPV4_UNICAST_ADDPATH, 108, Word(6006),
                 BaseV4(8) \o AttrCommunityRaw(Attr.COMMUNITY, <<252, 0, 0, 10, 18, 52>>),
                 {Number("path_id", 6006), AttrIs(Attr.COMMUNITY, 6)}),
    ComboIllegal("community_len_not_multiple", Td2.RIB_IPV4_UNICAST_ADDPATH, 109, Word(7007),
                 BaseV4(9) \o AttrCommunityRaw(Attr.EXT_COMMUNITY, <<0, 2, 0, 252, 0, 0>>),
                 {Number("path_id", 7007), AttrIs(Attr.EXT_COMMUNITY, 6)}),
    ComboIllegal("community_len_not_multiple", Td2.RIB_IPV4_UNICAST_ADDPATH, 110, Word(8008),
                 BaseV4(10) \o AttrCommunityRaw(Attr.LARGE_COMMUNITY, <<0, 0, 252, 20, 0, 0, 0, 1>>),
                 {Number("path_id", 8008), AttrIs(Attr.LARGE_COMMUNITY, 8)}),
    ComboIllegal("duplicate_attribute", Td2.RIB_IPV4_UNICAST_ADDPATH, 111, Word(9009),
                 BaseV4(11) \o AttrCommunities(StdComms)
                 \o AttrCommunities(<<WellKnownCommunity.NO_EXPORT_SUBCONFED>>),
                 {Number("path_id", 9009)}),
    Skip("combo", "combo_bgp4mp_addpath_plain_nlri", "missing_path_id_in_addpath_nlri",
         ComboUpdate(AttrCommunities(StdComms), Nlri(<<198, 51, 100, 128>>, 25)), {}),
    Skip("combo", "combo_bgp4mp_addpath_comm_over_4096", "bgp_message_exceeds_4096", OverLong,
         {Number("bgp_message_len", OverLongMessage)})>>

-----------------------------------------------------------------------------
AsPathCase(reason, segment) == Skip("attr", "attr_as_path", reason, AsPathRaw(segment), {})

ZeroLenCase(flags, code) ==
  Skip("attr", "attr_zero_len", "illegal_zero_length_attribute", ZeroLenAttr(flags, code), {AttrIs(code, 0)})

EmitAttrErrors ==
  <<AsPathCase("as_path_zero_length_segment", <<2, 0>>),
    AsPathCase("as_path_unknown_segment_type", <<5, 1, 0, 100>>),
    AsPathCase("as_path_segment_overrun", <<2, 4, 0, 100, 0, 200>>),
    AsPathCase("as_path_segment_underrun", <<2, 2, 0, 100, 0, 200, 0, 42>>),
    Valid("attr", "attr_as4_path_longer_than_as_path", As4PathLonger, {AttrIs(Attr.AS4_PATH, 14)}),
    Skip("attr", "attr_origin_optional_flag", "attr_flags_error",
         AttrBadFlags(Flag.OPTIONAL, Attr.ORIGIN, <<0>>), {AttrIs(Attr.ORIGIN, 1)}),
    Skip("attr", "attr_spurious_extended_length", "attr_flags_error", SpuriousExtLen,
         {AttrIs(Attr.MULTI_EXIT_DISC, 4)}),
    Skip("attr", "attr_mp_reach_bad_nexthop_len", "mp_reach_nexthop_len_inconsistent", MpReachBadNhLen, {}),
    Skip("attr", "attr_mp_unreach_too_short", "mp_unreach_len_too_short", MpUnreachShort,
         {AttrIs(Attr.MP_UNREACH_NLRI, 2)}),
    ZeroLenCase(Flag.TRANSITIVE, Attr.ORIGIN), ZeroLenCase(Flag.TRANSITIVE, Attr.NEXT_HOP),
    ZeroLenCase(OptionalTransitive, Attr.COMMUNITY),
    Skip("attr", "attr_atomic_aggregate_nonzero", "attr_wrong_fixed_size", AtomicAggregateNonzero,
         {AttrIs(Attr.ATOMIC_AGGREGATE, 4)}),
    Skip("attr", "attr_aggregator_bad_len", "attr_wrong_fixed_size", AggregatorBadLen(4), {AttrIs(Attr.AGGREGATOR, 4)}),
    Valid("attr", "attr_unknown_optional_transitive", ExtraAttr(40), {AttrIs(40, 4)}),
    Skip("attr", "attr_type_code_zero", "reserved_attr_type", ExtraAttr(0), {AttrIs(0, 4)}),
    Skip("attr", "attr_rib_bad_peer_index", "peer_index_out_of_range", RibBadPeerIndex(950, 99),
         {Number("peer_index", 99)}),
    Skip("attr", "attr_bgp4mp_et_short", "et_body_too_short_for_microseconds", EtShort, {})>>

-----------------------------------------------------------------------------
WrapBgp(message) == Bgp4mpMessage(Type.BGP4MP, NoMicros, Bgp4mp.MESSAGE_AS4, BigEnds4, message)

Base4b == AttrOrigin(0) \o AttrAsPath4b(<<Word(64500)>>) \o AttrNextHop(Loopback)

EtSubtypeCase(subtype) ==
  LET ends == IF subtype \in As4Subtypes THEN BigEnds4 ELSE Ends2
      state == subtype \in {Bgp4mp.STATE_CHANGE, Bgp4mp.STATE_CHANGE_AS4}
      us == IF subtype = 0 THEN 0 ELSE 999999
  IN Valid("edge", "boundary_bgp4mp_et_subtype",
       Bgp4mpMessage(Type.BGP4MP_ET, us, subtype, ends,
                     IF state THEN <<0, State.IDLE, 0, State.ESTABLISHED>> ELSE BgpKeepalive),
       {Number("microsecond", us)})

EmitEdgeValidTables ==
  <<Valid("edge", "boundary_peer_index_zero", PeerIndexTable(Fill(0, 4), 0, << >>),
      {Number("peer_count", 0), Number("view_name_len", 0)}),
    Valid("edge", "boundary_rib_zero_entries",
      RibAfiSafi(Td2.RIB_IPV4_UNICAST, Word(0), Nlri(Fill(0, 4), 0), << >>),
      {Number("bits", 0), Number("entry_count", 0), Number("sequence", 0)})>>
  \o [i \in 1 .. 5 |->
        LET bits == <<1, 7, 8, 9, 31>>[i]
        IN Valid("edge", "boundary_rib_v4_prefix",
             RibAfiSafi(Td2.RIB_IPV4_UNICAST, Word(1999 + i), Nlri(<<128, 0, 0, 0>>, bits),
                        <<RibEntry(0, StandardAttrsV4(59 + i))>>),
             {Number("bits", bits), Number("entry_count", 1)})]
  \o <<Valid("edge", "boundary_rib_v6_prefix_127",
         RibAfiSafi(Td2.RIB_IPV6_UNICAST, Word(2010), Nlri([V6(0) EXCEPT ![16] = 254], 127),
                    <<RibEntry(2, StandardAttrsV6(60))>>),
         {Number("bits", 127), Number("entry_count", 1)})>>
  \o [i \in 1 .. 2 |->
        LET len == 254 + i
        IN Valid("edge", "boundary_attr_value",
             RibAfiSafi(Td2.RIB_IPV4_UNICAST, Word(2100 + len), Nlri(<<203, 0, 113, 0>>, 24),
                        <<RibEntry(0, StandardAttrsV4(70 + len) \o Attribute(OptionalTransitive, 240, Fill(165, len)))>>),
             {AttrIs(240, len)})]

EmitEdgeValidMessages ==
  <<Valid("edge", "boundary_bgp_empty_update", WrapBgp(BgpUpdate(<< >>, << >>, << >>)), {Number("bgp_message_len", 23)}),
    Valid("edge", "boundary_bgp_withdraw_only", WrapBgp(BgpUpdate(Nlri24, << >>, << >>)), {Number("bits", 24)}),
    Valid("edge", "boundary_bgp_multi_nlri",
      WrapBgp(BgpUpdate(<< >>, Base4b, Nlri(<<10, 0, 0, 0>>, 8) \o Nlri(<<172, 16, 0, 0>>, 12))),
      {Number("bits", 8), Number("bits", 12)}),
    Valid("edge", "boundary_bgp_mp_unreach_v6",
      WrapBgp(BgpUpdate(<< >>, AttrMpUnreach(Afi.IPV6, Safi.UNICAST, Nlri(V6(0), 64)), << >>)),
      {Number("afi", 2), Number("bits", 64)}),
    Valid("edge", "boundary_bgp_length_4096", WrapBgp(BgpNotification(6, 0, Fill(90, 4096 - 21))),
      {Number("bgp_message_len", 4096)})>>
  \o [i \in 1 .. 10 |-> EtSubtypeCase(<<0, 1, 4, 5, 6, 7, 8, 9, 10, 11>>[i])]

EmitIgpValid ==
  [i \in 1 .. 4 |-> Valid("edge", "boundary_ospfv2_type", Ospfv2(Loopback, LocalEnd, Ospf2Pdu(i + 1, 24)),
                          {Number("ospf_type", i + 1), Number("pdu_len", 24)})]
  \o [i \in 1 .. 4 |-> Valid("edge", "boundary_ospfv3_type", Ospfv3(NoMicros, V6(50), V6(51), Ospf3Pdu(i + 1, 16)),
                             {Number("ospf_type", i + 1), Number("pdu_len", 16)})]
  \o [i \in 1 .. 9 |-> LET type == <<15, 16, 17, 18, 20, 24, 25, 26, 27>>[i]
                       IN Valid("edge", "boundary_isis_pdu", Isis(NoMicros, IsisPdu(8, type)),
                                {Number("pdu_type", type), Number("pdu_len", 8)})]

BadMessage(reason, message) == Skip("edge", "boundary_bgp", reason, WrapBgp(message), {})
BadNlri(reason, nlri) == BadMessage(reason, BgpUpdate(<< >>, Base4b, nlri))
BadAttrs(reason, attrs) == BadMessage(reason, BgpUpdate(<< >>, attrs, Nlri24))

EmitEdgeSkip ==
  <<BadMessage("length_below_minimum", BgpMessageRaw(Marker, 18, Message.KEEPALIVE, << >>)),
    BadMessage("length_above_maximum", BgpMessageRaw(Marker, 4097, Message.NOTIFICATION, Fill(0, 4097 - 19))),
    BadMessage("unknown_message_type", BgpMessage(255, << >>)),
    BadMessage("keepalive_nonempty", BgpMessage(Message.KEEPALIVE, <<1>>)),
    BadMessage("bytes_after_message", BgpKeepalive \o <<222, 173>>),
    BadNlri("prefix_octets_truncated", <<24, 192, 0>>),
    BadNlri("nonzero_unused_prefix_bits", <<9, 10, 127>>),
    BadAttrs("missing_origin", AttrAsPath4b(<<Word(64500)>>) \o AttrNextHop(Loopback)),
    BadAttrs("missing_as_path", AttrOrigin(0) \o AttrNextHop(Loopback)),
    BadAttrs("duplicate_attribute", Base4b \o AttrNextHop(LocalEnd)),
    BadAttrs("wrong_flags", Base4b \o Attribute(Flag.OPTIONAL, Attr.LOCAL_PREF, U32(Word(100)))),
    BadAttrs("unknown_well_known", Base4b \o Attribute(Flag.TRANSITIVE, 241, <<1>>)),
    Skip("edge", "boundary_peer_reserved_type_bits", "reserved_peer_type_bits",
      Plain(Type.TABLE_DUMP_V2, Td2.PEER_INDEX_TABLE,
            Fill(0, 4) \o <<0, 0, 0, 1>> \o <<128, 192, 0, 2, 1, 192, 0, 2, 2, 252, 0>>), {}),
    Skip("edge", "boundary_rib_entry_count_plus_one", "entry_count_overrun",
      Plain(Type.TABLE_DUMP_V2, Td2.RIB_IPV4_UNICAST,
            U32(Word(7)) \o <<24, 203, 0, 113>> \o U16(2) \o EncodeEntry(RibEntry(0, StandardAttrsV4(1)))), {}),
    Skip("edge", "boundary_et_microsecond_1000000", "microsecond_out_of_range",
      Bgp4mpMessage(Type.BGP4MP_ET, 1000000, Bgp4mp.MESSAGE_AS4, BigEnds4, BgpKeepalive), {})>>

EmitIgpSkip ==
  <<Skip("edge", "boundary_ospfv2_length_overrun", "pdu_length_overrun",
      Ospfv2(Loopback, LocalEnd, <<2, 1, 0, 44, 0, 0, 0, 0>>), {}),
    Skip("edge", "boundary_ospfv3_unknown_type", "unknown_ospf_type",
      Ospfv3(NoMicros, V6(1), V6(2), Ospf3Pdu(255, 16)), {}),
    Skip("edge", "boundary_isis_truncated_header", "truncated_pdu_header", Isis(NoMicros, <<131, 27, 1, 0, 15>>), {}),
    Skip("edge", "boundary_isis_unknown_pdu", "unknown_pdu_type", Isis(NoMicros, IsisPdu(8, 31)), {})>>

EmitStress ==
  <<Valid("stress", "stress_keepalive", WrapBgp(BgpKeepalive), {}),
    Valid("stress", "stress_rib_attribute_length_65535",
      RibAfiSafi(Td2.RIB_IPV4_UNICAST, <<65535, 65534>>, Nlri(<<203, 0, 113, 0>>, 24),
                 <<RibEntry(0, Attribute(OptionalTransitive, 240, Fill(90, 65531)))>>),
      {Number("attribute_length", 65535)}),
    Valid("stress", "stress_as_sequence_count_255",
      RibAfiSafi(Td2.RIB_IPV4_UNICAST, <<65535, 65533>>, Nlri(<<198, 51, 100, 0>>, 24),
        <<RibEntry(0, AttrOrigin(0) \o AttrAsPath4b([i \in 1 .. 255 |-> Word(64499 + i)]) \o AttrNextHop(Loopback))>>),
      {Number("as_count", 255)})>>
  \o [i \in 1 .. 8 |->
        LET declared == <<0, 1, 17, 18, 20, 4095, 4097, 65535>>[i]
        IN Skip("stress", "stress_mutation_bgp_length", "unnamed",
             WrapBgp(BgpMessageRaw(Marker, declared, Message.KEEPALIVE, << >>)), {Number("bgp_message_len", declared)})]

ProfileCases ==
  EmitValidTables \o EmitValidMessages \o EmitValidIgp \o EmitSkipMessages \o EmitSkipTables
  \o EmitComboLegal \o EmitComboIllegal \o EmitAttrErrors
  \o EmitEdgeValidTables \o EmitEdgeValidMessages \o EmitIgpValid \o EmitEdgeSkip \o EmitIgpSkip \o EmitStress
=============================================================================
