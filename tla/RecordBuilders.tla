--------------------------- MODULE RecordBuilders ---------------------------
(***************************************************************************)
(* The records of the corpora, octet by octet: the well-formed ones of     *)
(* src/records.rs and the damaged ones of src/invalid.rs.  A record is its *)
(* MRT type and subtype, its microseconds if it has the field, its body;   *)
(* the common header around it is MrtFraming's.                            *)
(***************************************************************************)
EXTENDS BgpOctets

NoMicros == -1        \* microsecond = None
NoPathId == << >>     \* path_id = None
NoOverride == -1      \* declared_attr_len = None

Now == <<26000, 0>>   \* the record's timestamp, which no rule reads

MrtRecord(type, subtype, us, body) == [type |-> type, subtype |-> subtype, us |-> us, body |-> body]
Plain(type, subtype, body) == MrtRecord(type, subtype, NoMicros, body)

(* encode_into, after the common header.                                   *)
Payload(rec) == (IF rec.us = NoMicros THEN << >> ELSE U32(Word(rec.us))) \o rec.body

Loopback == <<192, 0, 2, 1>>
LocalEnd == <<192, 0, 2, 2>>
V6(last) == <<32, 1, 13, 184>> \o Fill(0, 11) \o <<last>>
Big(n) == <<64086, 59904 + n>>        \* 4_200_000_000 + n

-----------------------------------------------------------------------------
PeerType(peer) == (IF peer.as4 THEN 2 ELSE 0) + (IF Len(peer.ip) = 16 THEN 1 ELSE 0)

EncodePeer(peer) ==
  <<PeerType(peer)>> \o peer.id \o peer.ip \o (IF peer.as4 THEN U32(peer.asn) ELSE U16(peer.asn[2]))

PeerIndexTable(collector, viewLen, peers) ==
  Plain(Type.TABLE_DUMP_V2, Td2.PEER_INDEX_TABLE,
        collector \o U16(viewLen) \o Fill(109, viewLen) \o U16(Len(peers))
        \o Octets([i \in DOMAIN peers |-> EncodePeer(peers[i])]))

RibEntry(peer, attrs) == [peer |-> peer, pathId |-> NoPathId, attrs |-> attrs, declared |-> NoOverride]

EncodeEntry(e) ==
  U16(e.peer) \o U32(Now) \o (IF e.pathId = NoPathId THEN << >> ELSE U32(e.pathId))
  \o U16(IF e.declared = NoOverride THEN Len(e.attrs) ELSE e.declared) \o e.attrs

EncodeEntries(entries) ==
  U16(Len(entries)) \o Octets([i \in DOMAIN entries |-> EncodeEntry(entries[i])])

RibAfiSafi(subtype, sequence, nlri, entries) ==
  Plain(Type.TABLE_DUMP_V2, subtype, U32(sequence) \o nlri \o EncodeEntries(entries))

RibGeneric(subtype, sequence, afi, safi, nlri, entries) ==
  Plain(Type.TABLE_DUMP_V2, subtype, U32(sequence) \o U16(afi) \o <<safi>> \o nlri \o EncodeEntries(entries))

(* The prefix and the peer address fill the width of the subtype's family. *)
TableDump(subtype, sequence, prefix, bits, peerIp, peerAs, attrs, declared) ==
  Plain(Type.TABLE_DUMP, subtype,
        U16(0) \o U16(sequence) \o prefix \o <<bits, 1>> \o U32(Now) \o peerIp \o U16(peerAs)
        \o U16(declared) \o attrs)

As4Subtypes == {Bgp4mp.MESSAGE_AS4, Bgp4mp.MESSAGE_AS4_LOCAL, Bgp4mp.MESSAGE_AS4_ADDPATH,
                Bgp4mp.MESSAGE_AS4_LOCAL_ADDPATH, Bgp4mp.STATE_CHANGE_AS4}

Bgp4mpPrelude(ends, as4, ifindex) ==
  (IF as4 THEN U32(ends.peerAs) \o U32(ends.localAs) ELSE U16(ends.peerAs[2]) \o U16(ends.localAs[2]))
  \o U16(ifindex) \o U16(IF Len(ends.peerIp) = 16 THEN Afi.IPV6 ELSE Afi.IPV4)
  \o ends.peerIp \o ends.localIp

(* Slip: the LOCAL forms are forgotten.                                    *)
Bgp4mpMessageFewAs4(type, us, subtype, ends, message) ==
  MrtRecord(type, subtype, us,
            Bgp4mpPrelude(ends, subtype \in {Bgp4mp.MESSAGE_AS4, Bgp4mp.STATE_CHANGE_AS4}, 1) \o message)

(* bgp4mp_message: the width of the AS numbers follows from the subtype.   *)
(* The interface index, which no rule reads, is 1 here whatever the case.  *)
Bgp4mpMessage(type, us, subtype, ends, message) ==
  MrtRecord(type, subtype, us, Bgp4mpPrelude(ends, subtype \in As4Subtypes, 1) \o message)

Bgp4mpStateChange(subtype, ends, old, new) ==
  Plain(Type.BGP4MP, subtype,
        Bgp4mpPrelude(ends, subtype = Bgp4mp.STATE_CHANGE_AS4, 1) \o U16(old) \o U16(new))

Ospfv2(remote, local, pdu) == Plain(Type.OSPFV2, 0, remote \o local \o pdu)
Ospfv3(us, remote, local, pdu) ==
  MrtRecord(IF us = NoMicros THEN Type.OSPFV3 ELSE Type.OSPFV3_ET, 0, us,
            U16(Afi.IPV6) \o remote \o local \o pdu)
Isis(us, pdu) == MrtRecord(IF us = NoMicros THEN Type.ISIS ELSE Type.ISIS_ET, 0, us, pdu)

StandardAttrsV4(salt) ==
  AttrOrigin(0) \o AttrAsPath4b(<<Word(64500 + salt), Word(65000 + salt), Big(salt)>>)
  \o AttrNextHop(<<192, 0, 2>> \o U8(1 + salt)) \o AttrMed(100 + salt) \o AttrLocalPref(200 + salt)
  \o AttrAtomicAggregate \o AttrAggregator4b(Word(64500 + salt), <<192, 0, 2, 254>>)
  \o AttrCommunities(<<<<64500, 10 + salt>>, WellKnownCommunity.NO_EXPORT>>)

StandardAttrsV6(salt) ==
  AttrOrigin(1) \o AttrAsPath4b(<<Word(64500 + salt), Big(salt)>>)
  \o AttrMpReachTd2(V6((1 + salt) % 256)) \o AttrLocalPref(300 + salt)

-----------------------------------------------------------------------------
(* invalid.rs.  The two ends of every damaged BGP4MP record.               *)
Ends2  == [peerAs |-> Word(64500), localAs |-> Word(64501), peerIp |-> Loopback, localIp |-> LocalEnd]

UnknownMrtType(type) == Plain(type, 0, <<222, 173, 190, 239>>)
UnknownSubtype(type, subtype) == Plain(type, subtype, <<202, 254, 186, 190>>)

Wrapped(message) == Bgp4mpMessage(Type.BGP4MP, NoMicros, Bgp4mp.MESSAGE, Ends2, message)
Bgp4mpUpdate(attrs, nlri) == Wrapped(BgpUpdate(<< >>, attrs, nlri))
Nlri24 == Nlri(<<198, 51, 100, 0>>, 24)

(* bgp4mp_wrong_attr_size: a valid ORIGIN first, unless it is the victim.  *)
WrongAttrSize(flags, code, declared) ==
  Bgp4mpUpdate((IF code = Attr.ORIGIN THEN << >> ELSE AttrOrigin(0))
               \o AttributeDeclared(flags, code, declared, Fill(171, declared)), Nlri24)

DuplicateOriginBadLen ==
  Bgp4mpUpdate(AttrOrigin(0) \o AttributeDeclared(Flag.TRANSITIVE, Attr.ORIGIN, 4, Fill(171, 4)), Nlri24)

AttrOverrun(declared, actual) ==
  Bgp4mpUpdate(AttributeDeclared(Flag.OPTIONAL, Attr.MULTI_EXIT_DISC, declared, Fill(85, actual)), << >>)

BadMarker == Wrapped(BgpMessageRaw([Marker EXCEPT ![8] = 0], 19, Message.KEEPALIVE, << >>))
BadBgpLength(declared) == Wrapped(BgpMessageRaw(Marker, declared, Message.KEEPALIVE, << >>))
TruncatedBgp == Wrapped(SubSeq(BgpKeepalive, 1, 10))
EmptyBody == Plain(Type.BGP4MP, Bgp4mp.MESSAGE, << >>)

RibAttrLenOverrun(sequence) ==
  RibAfiSafi(Td2.RIB_IPV4_UNICAST, Word(sequence), Nlri(<<203, 0, 113, 0>>, 24),
             <<[RibEntry(0, StandardAttrsV4(0)) EXCEPT !.declared = Len(StandardAttrsV4(0)) + 64]>>)

RibBadPrefixLen(sequence, ipv6, bits) ==
  IF ipv6
  THEN RibAfiSafi(Td2.RIB_IPV6_UNICAST, Word(sequence), <<bits, 32, 1>> \o Fill(0, 14),
                  <<RibEntry(2, StandardAttrsV6(0))>>)
  ELSE RibAfiSafi(Td2.RIB_IPV4_UNICAST, Word(sequence), <<bits, 203, 0, 113, 0>>,
                  <<RibEntry(0, StandardAttrsV4(0))>>)

RibGenericVpnBadPrefixLen(sequence, bits) ==
  RibGeneric(Td2.RIB_GENERIC, Word(sequence), Afi.IPV4, Safi.MPLS_VPN,
             <<bits>> \o Fill(170, PrefixOctets(bits)), <<RibEntry(0, StandardAttrsV4(0))>>)

PeerIndexCountMismatch(claimed, actual) ==
  Plain(Type.TABLE_DUMP_V2, Td2.PEER_INDEX_TABLE,
        <<192, 0, 2, 99>> \o U16(0) \o U16(claimed)
        \o Octets([i \in 1 .. actual |-> <<0, 192, 0, 2, i - 1, 10, 0, 0, i - 1>> \o U16(64500 + i - 1)]))

TableDumpAttrOverrun ==
  TableDump(Afi.IPV4, 7, <<203, 0, 113, 0>>, 24, Loopback, 64500, AttrOrigin(0), Len(AttrOrigin(0)) + 100)

-----------------------------------------------------------------------------
(* The UPDATEs of the RFC 7606 section: the mandatory attributes, and one  *)
(* attribute that is wrong.                                                *)
Path2b == AttrAsPath2b(<<Word(64500)>>)
Mandatory == AttrOrigin(0) \o Path2b \o AttrNextHop(Loopback)
MandatoryAnd(attr) == Bgp4mpUpdate(Mandatory \o attr, Nlri24)

AsPathRaw(segment) ==
  Bgp4mpUpdate(AttrOrigin(0) \o Attribute(Flag.TRANSITIVE, Attr.AS_PATH, segment) \o AttrNextHop(Loopback), Nlri24)

As4PathLonger ==
  Bgp4mpUpdate(AttrOrigin(0) \o AttrAsPath2b(<<Word(23456)>>) \o AttrNextHop(Loopback)
               \o Attribute(OptionalTransitive, Attr.AS4_PATH, AsSequence(<<Big(1), Big(2), Big(3)>>, 4)), Nlri24)

AttrBadFlags(flags, code, value) ==
  Bgp4mpUpdate(Path2b \o AttributeDeclared(flags, code, Len(value), value) \o AttrNextHop(Loopback), Nlri24)

SpuriousExtLen ==
  MandatoryAnd(AttributeDeclared(Flag.OPTIONAL + Flag.EXT_LEN, Attr.MULTI_EXIT_DISC, 4, U32(Word(100))))

MpReachBadNhLen ==
  Bgp4mpUpdate(AttrOrigin(0) \o Path2b
               \o Attribute(Flag.OPTIONAL, Attr.MP_REACH_NLRI,
                            U16(Afi.IPV6) \o <<Safi.UNICAST, 32>> \o V6(9) \o <<0>> \o <<64, 32, 1, 13, 184, 0, 0, 0, 0>>),
               << >>)

MpUnreachShort ==
  Bgp4mpUpdate(AttrOrigin(0) \o Path2b \o Attribute(Flag.OPTIONAL, Attr.MP_UNREACH_NLRI, <<0, 2>>), << >>)

ZeroLenAttr(flags, code) == Bgp4mpUpdate(Path2b \o AttributeDeclared(flags, code, 0, << >>), Nlri24)

AtomicAggregateNonzero ==
  MandatoryAnd(AttributeDeclared(Flag.TRANSITIVE, Attr.ATOMIC_AGGREGATE, 4, Fill(0, 4)))
AggregatorBadLen(declared) ==
  MandatoryAnd(AttributeDeclared(OptionalTransitive, Attr.AGGREGATOR, declared, Fill(171, declared)))
ExtraAttr(code) == MandatoryAnd(Attribute(OptionalTransitive, code, <<222, 173, 190, 239>>))

RibBadPeerIndex(sequence, peer) ==
  RibAfiSafi(Td2.RIB_IPV4_UNICAST, Word(sequence), Nlri(<<203, 0, 113, 0>>, 24),
             <<RibEntry(peer, StandardAttrsV4(0))>>)

EtShort == Plain(Type.BGP4MP_ET, Bgp4mp.MESSAGE, <<0, 0>>)
=============================================================================
