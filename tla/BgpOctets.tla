------------------------------ MODULE BgpOctets -----------------------------
(***************************************************************************)
(* The octets of BGP messages and path attributes as src/bgp.rs encodes    *)
(* them, with the numbers of src/types.rs.  An octet is 0..255; a u32 is a *)
(* word, a pair <<high, low>> of u16, because TLC's integers end at 2^31.  *)
(***************************************************************************)
EXTENDS Integers, Sequences, SequencesExt

Type == [OSPFV2 |-> 11, TABLE_DUMP |-> 12, TABLE_DUMP_V2 |-> 13, BGP4MP |-> 16, BGP4MP_ET |-> 17,
         ISIS |-> 32, ISIS_ET |-> 33, OSPFV3 |-> 48, OSPFV3_ET |-> 49]

Td2 == [PEER_INDEX_TABLE |-> 1, RIB_IPV4_UNICAST |-> 2, RIB_IPV4_MULTICAST |-> 3,
        RIB_IPV6_UNICAST |-> 4, RIB_IPV6_MULTICAST |-> 5, RIB_GENERIC |-> 6,
        RIB_IPV4_UNICAST_ADDPATH |-> 8, RIB_IPV4_MULTICAST_ADDPATH |-> 9,
        RIB_IPV6_UNICAST_ADDPATH |-> 10, RIB_IPV6_MULTICAST_ADDPATH |-> 11, RIB_GENERIC_ADDPATH |-> 12]

Bgp4mp == [STATE_CHANGE |-> 0, MESSAGE |-> 1, MESSAGE_AS4 |-> 4, STATE_CHANGE_AS4 |-> 5,
           MESSAGE_LOCAL |-> 6, MESSAGE_AS4_LOCAL |-> 7, MESSAGE_ADDPATH |-> 8,
           MESSAGE_AS4_ADDPATH |-> 9, MESSAGE_LOCAL_ADDPATH |-> 10, MESSAGE_AS4_LOCAL_ADDPATH |-> 11]

State == [IDLE |-> 1, CONNECT |-> 2, OPEN_CONFIRM |-> 5, ESTABLISHED |-> 6]
Message == [OPEN |-> 1, UPDATE |-> 2, NOTIFICATION |-> 3, KEEPALIVE |-> 4]

Attr == [ORIGIN |-> 1, AS_PATH |-> 2, NEXT_HOP |-> 3, MULTI_EXIT_DISC |-> 4, LOCAL_PREF |-> 5,
         ATOMIC_AGGREGATE |-> 6, AGGREGATOR |-> 7, COMMUNITY |-> 8, ORIGINATOR_ID |-> 9,
         CLUSTER_LIST |-> 10, MP_REACH_NLRI |-> 14, MP_UNREACH_NLRI |-> 15, EXT_COMMUNITY |-> 16,
         AS4_PATH |-> 17, AS4_AGGREGATOR |-> 18, IPV6_EXT_COMMUNITY |-> 25, AIGP |-> 26,
         LARGE_COMMUNITY |-> 32]

WellKnownCommunity == [NO_EXPORT |-> <<65535, 65281>>, NO_ADVERTISE |-> <<65535, 65282>>,
                       NO_EXPORT_SUBCONFED |-> <<65535, 65283>>]

Flag == [OPTIONAL |-> 128, TRANSITIVE |-> 64, PARTIAL |-> 32, EXT_LEN |-> 16]
OptionalTransitive == Flag.OPTIONAL + Flag.TRANSITIVE

Afi == [IPV4 |-> 1, IPV6 |-> 2]
Safi == [UNICAST |-> 1, MPLS_VPN |-> 128, FLOWSPEC |-> 133]

-----------------------------------------------------------------------------
(* Buf: an integer cast to its width, in network order.                    *)
U8(n)  == <<n % 256>>
U16(n) == <<(n \div 256) % 256, n % 256>>
U32(w) == U16(w[1]) \o U16(w[2])

Word(n) == <<n \div 65536, n % 65536>>
Fill(octet, k) == [i \in 1 .. k |-> octet]
Octets(pieces) == FlattenSeq(pieces)

(* Pieces of one width, however many.                                      *)
Packed(width, Piece(_), k) ==
  [i \in 1 .. width * k |-> Piece(1 + ((i - 1) \div width))[1 + ((i - 1) % width)]]

HasBit(flags, bit) == (flags \div bit) % 2 = 1
WithBit(flags, bit) == IF HasBit(flags, bit) THEN flags ELSE flags + bit
WithoutBit(flags, bit) == IF HasBit(flags, bit) THEN flags - bit ELSE flags

Header(flags, code, length) ==
  <<flags, code>> \o IF HasBit(flags, Flag.EXT_LEN) THEN U16(length) ELSE U8(length)

(* attribute: the extended length where the value needs it.                *)
Attribute(flags, code, value) ==
  Header(IF Len(value) > 255 THEN WithBit(flags, Flag.EXT_LEN) ELSE WithoutBit(flags, Flag.EXT_LEN),
         code, Len(value)) \o value

(* Slip: the length of the value, whatever was asked for.                  *)
AttributeHonest(flags, code, declared, value) == Header(flags, code, Len(value)) \o value

(* attribute_declared: the caller's flags and the caller's length.         *)
AttributeDeclared(flags, code, declared, value) == Header(flags, code, declared) \o value

AttrOrigin(origin) == Attribute(Flag.TRANSITIVE, Attr.ORIGIN, <<origin>>)

AsSequence(asns, width) ==
  LET Asn(i) == IF width = 2 THEN U16(asns[i][2]) ELSE U32(asns[i])
  IN <<2>> \o U8(Len(asns)) \o Packed(width, Asn, Len(asns))

AttrAsPath2b(asns) == Attribute(Flag.TRANSITIVE, Attr.AS_PATH, AsSequence(asns, 2))
AttrAsPath4b(asns) == Attribute(Flag.TRANSITIVE, Attr.AS_PATH, AsSequence(asns, 4))

AttrNextHop(ip)       == Attribute(Flag.TRANSITIVE, Attr.NEXT_HOP, ip)
AttrMed(n)            == Attribute(Flag.OPTIONAL, Attr.MULTI_EXIT_DISC, U32(Word(n)))
AttrLocalPref(n)      == Attribute(Flag.TRANSITIVE, Attr.LOCAL_PREF, U32(Word(n)))
AttrAtomicAggregate   == Attribute(Flag.TRANSITIVE, Attr.ATOMIC_AGGREGATE, << >>)
AttrAggregator4b(asn, ip) == Attribute(OptionalTransitive, Attr.AGGREGATOR, U32(asn) \o ip)
AttrCommunities(comms) ==
  LET Community(i) == U32(comms[i])
  IN Attribute(OptionalTransitive, Attr.COMMUNITY, Packed(4, Community, Len(comms)))
AttrOriginatorId(id)  == Attribute(Flag.OPTIONAL, Attr.ORIGINATOR_ID, id)
AttrClusterList(ids)  == Attribute(Flag.OPTIONAL, Attr.CLUSTER_LIST, Octets(ids))

(* A single TLV of type 1; a u64 is four u16, highest first.               *)
AttrAigp(metric) ==
  Attribute(Flag.OPTIONAL, Attr.AIGP,
            <<1>> \o U16(11) \o U32(<<metric[1], metric[2]>>) \o U32(<<metric[3], metric[4]>>))
AttrExtCommunities(comms) == Attribute(OptionalTransitive, Attr.EXT_COMMUNITY, Octets(comms))
AttrIpv6ExtCommunities(comms) == Attribute(OptionalTransitive, Attr.IPV6_EXT_COMMUNITY, Octets(comms))
AttrLargeCommunities(comms) ==
  Attribute(OptionalTransitive, Attr.LARGE_COMMUNITY,
            Octets([i \in DOMAIN comms |-> U32(comms[i][1]) \o U32(comms[i][2]) \o U32(comms[i][3])]))
AttrCommunityRaw(code, value) == Attribute(OptionalTransitive, code, value)

AttrMpReach(afi, safi, nextHop, nlri) ==
  Attribute(Flag.OPTIONAL, Attr.MP_REACH_NLRI,
            U16(afi) \o <<safi>> \o U8(Len(nextHop)) \o nextHop \o <<0>> \o nlri)

(* The form of RFC 6396 section 4.3.4: the next hop and its length.        *)
AttrMpReachTd2(nextHop) ==
  Attribute(Flag.OPTIONAL, Attr.MP_REACH_NLRI, U8(Len(nextHop)) \o nextHop)

AttrMpUnreach(afi, safi, nlri) ==
  Attribute(Flag.OPTIONAL, Attr.MP_UNREACH_NLRI, U16(afi) \o <<safi>> \o nlri)

-----------------------------------------------------------------------------
PrefixOctets(bits) == (bits + 7) \div 8

(* nlri_v4, nlri_v6: the length in bits, as many octets as they fill.      *)
Nlri(prefix, bits) == <<bits>> \o SubSeq(prefix, 1, PrefixOctets(bits))
NlriAddpath(id, prefix, bits) == U32(id) \o Nlri(prefix, bits)

RdType0(asn, number) == U16(0) \o U16(asn) \o U32(number)
RdType1(ip, number)  == U16(1) \o ip \o U16(number)
RdType2(asn, number) == U16(2) \o U32(asn) \o U16(number)

(* nlri_vpn: the length octet counts the label and the RD too; the 20-bit  *)
(* label is at the bottom of its stack.                                    *)
NlriVpn(label, rd, prefix, bits) ==
  U8(24 + 64 + bits) \o U16(label \div 16) \o U8((label % 16) * 16 + 1)
  \o rd \o SubSeq(prefix, 1, PrefixOctets(bits))

VpnNextHop(ip) == Fill(0, 8) \o ip

-----------------------------------------------------------------------------
Marker == Fill(255, 16)

BgpMessageRaw(marker, length, type, payload) == marker \o U16(length) \o <<type>> \o payload
BgpMessage(type, payload) == BgpMessageRaw(Marker, 19 + Len(payload), type, payload)

BgpUpdate(withdrawn, attrs, nlri) ==
  BgpMessage(Message.UPDATE, U16(Len(withdrawn)) \o withdrawn \o U16(Len(attrs)) \o attrs \o nlri)
BgpOpen(asn, hold, id) == BgpMessage(Message.OPEN, <<4>> \o U16(asn) \o U16(hold) \o id \o <<0>>)
BgpKeepalive == BgpMessage(Message.KEEPALIVE, << >>)
BgpNotification(code, subcode, data) == BgpMessage(Message.NOTIFICATION, <<code, subcode>> \o data)
=============================================================================
