----------------------------- MODULE CaseReader -----------------------------
(***************************************************************************)
(* A conforming parser reads records one by one: what the comments of      *)
(* src/invalid.rs and the details of src/generator.rs and src/routes.rs    *)
(* say of a record, they say of such a parser (RFC 6396, 8050, 4271, 4760, *)
(* 4364, 6793, 7606, 8955).  It works through sections of the record, each *)
(* a window of its octets: a defect of the framing ends the record, a      *)
(* defect of one attribute is noted and the next attribute is read.        *)
(***************************************************************************)
EXTENDS ManifestCases

CONSTANT Cases     \* records with their manifest entries, and the number of
                   \* peers in the table that each is read with

ASSUME CasesAssumption == \A c \in DOMAIN Cases : Cases[c].peers \in Nat

VARIABLES
  case,       \* the case being read
  mrt,        \* what the reader has of it: the type and the subtype of its
              \* header, the octets behind, the peers in the table before it
  todo,       \* the sections that are left
  seen,       \* the attribute codes of the current set of attributes
  defects,    \* what is wrong with the record
  facts       \* the numbers that were read

input == <<case, mrt>>
vars == <<input, todo, seen, defects, facts>>

O(i) == mrt.octets[i]
Two(i) == 256 * O(i) + O(i + 1)
WordAt(i) == <<Two(i), Two(i + 2)>>

(* A section: its octets from..to, a count or width, an address family.    *)
Section(what, from, to, n, fam) == [what |-> what, from |-> from, to |-> to, n |-> n, fam |-> fam]
NoFamily == <<0, 0>>
V4Unicast == <<Afi.IPV4, Safi.UNICAST>>
V6Unicast == <<Afi.IPV6, Safi.UNICAST>>

Addpath == IF mrt.type = Type.TABLE_DUMP_V2
           THEN mrt.subtype \in 8 .. 12 ELSE mrt.subtype \in 8 .. 11
AsWidth == IF \/ mrt.type = Type.TABLE_DUMP_V2
              \/ mrt.type \in {Type.BGP4MP, Type.BGP4MP_ET} /\ mrt.subtype \in As4Subtypes
           THEN 4 ELSE 2

-----------------------------------------------------------------------------
(* The three outcomes of a step.                                           *)
Here == Head(todo)
In(what) == todo # << >> /\ Here.what = what
Room == Here.to - Here.from + 1

Note(found, sections, says) ==
  /\ todo' = sections \o Tail(todo)
  /\ defects' = defects \cup found
  /\ facts' = facts \cup says

Go(sections, says) == Note({}, sections, says)

Stop(defect, says) ==
  /\ todo' = << >>
  /\ defects' = defects \cup {defect}
  /\ facts' = facts \cup says

Rest(section, from) == [section EXCEPT !.from = from]

-----------------------------------------------------------------------------
Subtypes(type) ==
  CASE type = Type.TABLE_DUMP_V2 -> (1 .. 6) \cup (8 .. 12)
    [] type = Type.TABLE_DUMP -> {1, 2}
    [] type \in {Type.BGP4MP, Type.BGP4MP_ET} -> {0, 1} \cup (4 .. 11)
    [] OTHER -> {0}

Layout ==
  CASE mrt.type = Type.TABLE_DUMP_V2 -> IF mrt.subtype = Td2.PEER_INDEX_TABLE THEN "peer_table" ELSE "rib"
    [] mrt.type = Type.TABLE_DUMP -> "table_dump"
    [] mrt.type \in {Type.BGP4MP, Type.BGP4MP_ET} -> "bgp4mp"
    [] OTHER -> "igp"

HasMicros == mrt.type \in {Type.BGP4MP_ET, Type.OSPFV3_ET, Type.ISIS_ET}
TooManyMicros(w) == w[1] > 15 \/ (w[1] = 15 /\ w[2] > 16959)       \* 999999

ReadRecord ==
  /\ In("record")
  /\ UNCHANGED <<input, seen>>
  /\ CASE mrt.type \notin {Type[t] : t \in DOMAIN Type} -> Stop("unknown_mrt_type", {})
       [] mrt.type \in {Type[t] : t \in DOMAIN Type} /\ mrt.subtype \notin Subtypes(mrt.type)
          -> Stop("unknown_subtype", {})
       [] HasMicros /\ Room < 4 -> Stop("et_body_too_short_for_microseconds", {})
       [] HasMicros /\ Room >= 4 ->
            Note(IF TooManyMicros(WordAt(1)) THEN {"microsecond_out_of_range"} ELSE {},
                 <<Section(Layout, 5, Here.to, 0, NoFamily)>>, {WordIs("microsecond", WordAt(1))})
       [] OTHER -> Go(<<Section(Layout, 1, Here.to, 0, NoFamily)>>, {})

ReadIgp ==
  /\ In("igp")
  /\ UNCHANGED <<input, seen>>
  /\ LET pdu == Here.from + (CASE mrt.type = Type.OSPFV2 -> 8
                               [] mrt.type \in {Type.OSPFV3, Type.OSPFV3_ET} -> 34
                               [] OTHER -> 0)
         room == Here.to - pdu + 1
         isis == mrt.type \in {Type.ISIS, Type.ISIS_ET}
     IN CASE isis /\ (room < 8 \/ room < O(pdu + 1)) -> Stop("truncated_pdu_header", {})
          [] isis /\ room >= 8 /\ room >= O(pdu + 1) ->
               Note(IF O(pdu + 4) \in {15, 16, 17, 18, 20, 24, 25, 26, 27} THEN {} ELSE {"unknown_pdu_type"},
                    << >>, {Number("pdu_type", O(pdu + 4)), Number("pdu_len", room)})
          [] ~isis /\ Two(pdu + 2) > room -> Stop("pdu_length_overrun", {})
          [] OTHER ->
               Note(IF O(pdu + 1) \in 1 .. 5 THEN {} ELSE {"unknown_ospf_type"},
                    << >>, {Number("ospf_type", O(pdu + 1)), Number("pdu_len", Two(pdu + 2))})

-----------------------------------------------------------------------------
ReadPeerTable ==
  /\ In("peer_table")
  /\ UNCHANGED <<input, seen>>
  /\ LET count == Here.from + 6 + Two(Here.from + 4)
     IN Go(<<Section("peers", count + 2, Here.to, Two(count), NoFamily)>>,
           {Number("peer_count", Two(count)), Number("view_name_len", Two(Here.from + 4))})

PeerSize(type) == 5 + (IF HasBit(type, 1) THEN 16 ELSE 4) + (IF HasBit(type, 2) THEN 4 ELSE 2)

ReadPeer ==
  /\ In("peers")
  /\ UNCHANGED <<input, seen>>
  /\ CASE Here.n = 0 /\ Room > 0 -> Stop("bytes_after_record", {})
       [] Here.n = 0 /\ Room <= 0 -> Go(<< >>, {})
       [] Here.n > 0 /\ Room <= 0 -> Stop("count_overruns_record", {})
       [] Here.n > 0 /\ Room > 0 /\ O(Here.from) > 3 -> Stop("reserved_peer_type_bits", {})
       [] OTHER ->
            LET size == PeerSize(O(Here.from))
                asn  == Here.from + size - (IF HasBit(O(Here.from), 2) THEN 4 ELSE 2)
            IN IF size > Room THEN Stop("count_overruns_record", {})
               ELSE Go(<<[Rest(Here, Here.from + size) EXCEPT !.n = Here.n - 1]>>,
                       {WordIs("peer_as", IF HasBit(O(Here.from), 2) THEN WordAt(asn) ELSE <<0, Two(asn)>>)})

-----------------------------------------------------------------------------
(* The six octets of an administrator and its number; the form they have   *)
(* is 0 for a two-octet AS, 1 for an address, 2 for a four-octet AS.       *)
AdminFact(name, nameOfIp, form, at) ==
  CASE form = 0 -> <<name, 0, Two(at)>> \o WordAt(at + 2)
    [] form = 1 -> <<nameOfIp>> \o WordAt(at) \o <<0, Two(at + 4)>>
    [] OTHER    -> <<name>> \o WordAt(at) \o <<0, Two(at + 4)>>

Octs(from, count) == SubSeq(mrt.octets, from, from + count - 1)

(* A FlowSpec rule: its length, in one octet below 240, and its components.*)
FlowReading(at, to) ==
  LET size == IF at > to THEN 1 ELSE IF O(at) < 240 THEN 1 + O(at)
              ELSE IF at = to THEN 2 ELSE 2 + 256 * (O(at) % 16) + O(at + 1)
  IN [size |-> size, defect |-> IF at + size - 1 > to THEN "flowspec_length_overrun" ELSE "none",
      facts |-> IF at + size - 1 > to THEN {} ELSE {Holds("flowspec", Octs(at, size))}]

(* One prefix.  The bits of an MPLS VPN prefix count its label and its     *)
(* Route Distinguisher.                                                    *)
PrefixReading(at, to, fam) ==
  LET vpn  == fam[2] = Safi.MPLS_VPN
      max  == (IF fam[1] = Afi.IPV6 THEN 128 ELSE 32) + (IF vpn THEN 88 ELSE 0)
      size == 1 + PrefixOctets(O(at))
      pad  == 8 * PrefixOctets(O(at)) - O(at)
      defect ==
        CASE at > to -> "prefix_octets_truncated"
          [] at <= to /\ vpn /\ O(at) < 88 -> "vpn_prefix_len_too_short"
          [] at <= to /\ O(at) > max -> "prefix_len_out_of_range"
          [] at <= to /\ O(at) <= max /\ at + size - 1 > to -> "prefix_octets_truncated"
          [] at <= to /\ O(at) > 0 /\ O(at + size - 1) % (2 ^ pad) # 0 -> "nonzero_unused_prefix_bits"
          [] OTHER -> "none"
  IN [size |-> IF defect = "none" THEN size ELSE 0, defect |-> defect,
      facts |-> (IF at <= to THEN {Number("bits", O(at))} ELSE {})
                \cup (IF vpn /\ defect = "none"
                      THEN {Number("label", 16 * Two(at + 1) + O(at + 3) \div 16),
                            AdminFact("rd", "rd_ip", Two(at + 4), at + 6), Holds("prefix", Octs(at + 12, size - 12))}
                      ELSE {})
                \cup (IF ~vpn /\ defect = "none" THEN {Holds("prefix", Octs(at + 1, size - 1))} ELSE {})]

(* What a Path Identifier precedes, where there is one: [size, defect,     *)
(* facts].                                                                 *)
NlriReading(from, to, fam, addpath) ==
  LET id == IF addpath THEN 4 ELSE 0
      it == IF fam[2] = Safi.FLOWSPEC THEN FlowReading(from + id, to) ELSE PrefixReading(from + id, to, fam)
  IN [size |-> IF it.defect = "none" THEN id + it.size ELSE 0, defect |-> it.defect,
      facts |-> it.facts \cup IF addpath /\ from + id <= to THEN {WordIs("path_id", WordAt(from))} ELSE {}]

ReadPrefix ==
  /\ \E what \in {"withdrawn", "announced", "mp_nlri"} : In(what)
  /\ UNCHANGED <<input, seen>>
  /\ IF Room <= 0 THEN Go(<< >>, {})
     ELSE LET nlri == NlriReading(Here.from, Here.to, Here.fam, Addpath)
          IN IF nlri.defect # "none" THEN Stop(nlri.defect, nlri.facts)
             ELSE Go(<<Rest(Here, Here.from + nlri.size)>>, nlri.facts)

RibFamily ==
  IF mrt.subtype \in {Td2.RIB_IPV6_UNICAST, Td2.RIB_IPV6_MULTICAST,
                      Td2.RIB_IPV6_UNICAST_ADDPATH, Td2.RIB_IPV6_MULTICAST_ADDPATH}
  THEN V6Unicast ELSE V4Unicast

Generic == mrt.subtype \in {Td2.RIB_GENERIC, Td2.RIB_GENERIC_ADDPATH}

(* The Path Identifier of a RIB_GENERIC_ADDPATH is in its NLRI, that of    *)
(* the other ADD-PATH subtypes in each entry.                              *)
ReadRib ==
  /\ In("rib")
  /\ UNCHANGED <<input, seen>>
  /\ LET from == Here.from + (IF Generic THEN 7 ELSE 4)
         fam  == IF Generic THEN <<Two(Here.from + 4), O(Here.from + 6)>> ELSE RibFamily
         nlri == NlriReading(from, Here.to, fam, Generic /\ Addpath)
         says == {WordIs("sequence", WordAt(Here.from)), Number("afi", fam[1]), Number("safi", fam[2])}
                 \cup nlri.facts
         count == from + nlri.size
     IN IF nlri.defect # "none" THEN Stop(nlri.defect, says)
        ELSE Go(<<Section("entries", count + 2, Here.to, Two(count), fam)>>,
                says \cup {Number("entry_count", Two(count))})

ReadEntry ==
  /\ In("entries")
  /\ UNCHANGED input
  /\ LET id == Addpath /\ ~Generic
         lengthAt == Here.from + 6 + (IF id THEN 4 ELSE 0)
         attrs == lengthAt + 2
         end == attrs + Two(lengthAt) - 1
         says == {Number("peer_index", Two(Here.from)), Number("attribute_length", Two(lengthAt))}
                 \cup IF id THEN {WordIs("path_id", WordAt(Here.from + 6))} ELSE {}
     IN CASE Here.n = 0 -> /\ IF Room > 0 THEN Stop("bytes_after_record", {}) ELSE Go(<< >>, {})
                           /\ UNCHANGED seen
          [] Here.n > 0 /\ attrs - 1 > Here.to -> Stop("count_overruns_record", {}) /\ UNCHANGED seen
          [] Here.n > 0 /\ attrs - 1 <= Here.to /\ end > Here.to ->
               Stop("attr_len_overruns_record", says) /\ UNCHANGED seen
          [] OTHER ->
               /\ Note(IF Two(Here.from) >= mrt.peers THEN {"peer_index_out_of_range"} ELSE {},
                       <<Section("attributes", attrs, end, -1, NoFamily),
                         [Rest(Here, end + 1) EXCEPT !.n = Here.n - 1]>>, says)
               /\ seen' = {}

ReadTableDump ==
  /\ In("table_dump")
  /\ LET w == IF mrt.subtype = Afi.IPV6 THEN 16 ELSE 4
         bits == Here.from + 4 + w
         peerAs == bits + 6 + w
         end == peerAs + 3 + Two(peerAs + 2)
         says == {Number("sequence", Two(Here.from + 2)), Number("bits", O(bits)), WordIs("peer_as", <<0, Two(peerAs)>>)}
     IN CASE O(bits) > 8 * w -> Stop("prefix_len_out_of_range", says)
          [] O(bits) <= 8 * w /\ end > Here.to -> Stop("attr_len_overruns_record", says)
          [] OTHER -> Go(<<Section("attributes", peerAs + 4, end, -1, NoFamily)>>, says)
  /\ seen' = {}
  /\ UNCHANGED input

-----------------------------------------------------------------------------
ReadBgp4mp ==
  /\ In("bgp4mp")
  /\ UNCHANGED <<input, seen>>
  /\ LET afi  == Here.from + 2 * AsWidth + 2
         next == afi + 2 + (IF Two(afi) = Afi.IPV6 THEN 32 ELSE 8)
         state == mrt.subtype \in {Bgp4mp.STATE_CHANGE, Bgp4mp.STATE_CHANGE_AS4}
         says == {WordIs("peer_as", IF AsWidth = 4 THEN WordAt(Here.from) ELSE <<0, Two(Here.from)>>)}
     IN CASE Room <= 0 -> Stop("empty_body", {})
          [] Room > 0 /\ (afi + 1 > Here.to \/ next - 1 > Here.to) -> Stop("inner_truncation", {})
          [] Room > 0 /\ next - 1 <= Here.to /\ state ->
               IF next + 3 # Here.to THEN Stop("inner_truncation", says)
               ELSE Go(<< >>, says \cup {Number("old_state", Two(next)), Number("new_state", Two(next + 2))})
          [] OTHER -> Go(<<Section("message", next, Here.to, 0, NoFamily)>>, says)

LeastLength(type) == CASE type = Message.OPEN -> 29 [] type = Message.UPDATE -> 23
                       [] type = Message.NOTIFICATION -> 21 [] OTHER -> 19

ReadMessage ==
  /\ In("message")
  /\ UNCHANGED <<input, seen>>
  /\ IF Room < 19 THEN Stop("inner_truncation", {})
     ELSE LET length == Two(Here.from + 16)
              type == O(Here.from + 18)
              says == {Number("bgp_message_len", length), Number("bgp_message_type", type)}
          IN CASE SubSeq(mrt.octets, Here.from, Here.from + 15) # Marker -> Stop("bad_bgp_marker", says)
               [] length \notin 19 .. 4096 -> Stop("bgp_length_out_of_range", says)
               [] length \in 19 .. 4096 /\ length > Room -> Stop("bgp_length_exceeds_record", says)
               [] length \in 19 .. 4096 /\ length < Room -> Stop("bytes_after_message", says)
               [] length = Room /\ type \notin 1 .. 4 -> Stop("unknown_message_type", says)
               [] length = Room /\ type \in 1 .. 4 /\ length < LeastLength(type) -> Stop("inner_truncation", says)
               [] length = Room /\ type = Message.KEEPALIVE /\ length > 19 -> Stop("keepalive_nonempty", says)
               [] length = Room /\ type = Message.UPDATE /\ length >= 23 /\ length <= 4096 ->
                    Go(<<Section("update", Here.from + 19, Here.to, 0, NoFamily)>>, says)
               [] OTHER -> Go(<< >>, says)

ReadUpdate ==
  /\ In("update")
  /\ UNCHANGED input
  /\ LET lengthAt == Here.from + 2 + Two(Here.from)
         attrs == lengthAt + 2
         nlri == attrs + Two(lengthAt)
     IN IF attrs - 1 > Here.to \/ nlri - 1 > Here.to THEN Stop("update_lengths_inconsistent", {})
        ELSE Go(<<Section("withdrawn", Here.from + 2, lengthAt - 1, 0, V4Unicast),
                  Section("attributes", attrs, nlri - 1, IF nlri <= Here.to THEN 1 ELSE 0, NoFamily),
                  Section("announced", nlri, Here.to, 0, V4Unicast)>>, {})
  /\ seen' = {}

-----------------------------------------------------------------------------
WellKnown == {Attr.ORIGIN, Attr.AS_PATH, Attr.NEXT_HOP, Attr.LOCAL_PREF, Attr.ATOMIC_AGGREGATE}
OptionalOnly == {Attr.MULTI_EXIT_DISC, Attr.MP_REACH_NLRI, Attr.MP_UNREACH_NLRI,
                 Attr.ORIGINATOR_ID, Attr.CLUSTER_LIST, Attr.AIGP}
Known == {Attr[a] : a \in DOMAIN Attr}

FixedSize == (Attr.ORIGIN :> 1) @@ (Attr.NEXT_HOP :> 4) @@ (Attr.MULTI_EXIT_DISC :> 4) @@ (Attr.LOCAL_PREF :> 4)
             @@ (Attr.ATOMIC_AGGREGATE :> 0) @@ (Attr.AS4_AGGREGATOR :> 8) @@ (Attr.ORIGINATOR_ID :> 4) @@ (Attr.AIGP :> 11)
SizeUnit == (Attr.COMMUNITY :> 4) @@ (Attr.CLUSTER_LIST :> 4) @@ (Attr.EXT_COMMUNITY :> 8)
            @@ (Attr.LARGE_COMMUNITY :> 12) @@ (Attr.IPV6_EXT_COMMUNITY :> 20)

FlagDefects(flags, code, length) ==
  (IF \/ code \in WellKnown /\ (HasBit(flags, Flag.OPTIONAL) \/ ~HasBit(flags, Flag.TRANSITIVE))
      \/ code \in OptionalOnly /\ (~HasBit(flags, Flag.OPTIONAL) \/ HasBit(flags, Flag.TRANSITIVE))
      \/ code \in Known \ (WellKnown \cup OptionalOnly)
         /\ ~(HasBit(flags, Flag.OPTIONAL) /\ HasBit(flags, Flag.TRANSITIVE))
      \/ HasBit(flags, Flag.EXT_LEN) /\ length <= 255
   THEN {"attr_flags_error"} ELSE {})
  \cup (IF code = 0 THEN {"reserved_attr_type"} ELSE {})
  \cup (IF code \notin Known \cup {0} /\ ~HasBit(flags, Flag.OPTIONAL) THEN {"unknown_well_known"} ELSE {})

(* The first octet after the next hop of an MP_REACH_NLRI and its reserved *)
(* octet; a table dump has the next hop alone.                             *)
AfterNextHop(from) == from + 4 + O(from + 3) + 1
Abbreviated == mrt.type = Type.TABLE_DUMP_V2

ValueDefects(code, from, length) ==
  CASE length = 0 /\ code \in Known \ {Attr.AS_PATH, Attr.ATOMIC_AGGREGATE} -> {"illegal_zero_length_attribute"}
    [] length > 0 /\ code = Attr.AGGREGATOR /\ length # 4 + AsWidth -> {"attr_wrong_fixed_size"}
    [] length > 0 /\ code \in DOMAIN FixedSize /\ length # FixedSize[code] -> {"attr_wrong_fixed_size"}
    [] length > 0 /\ code \in DOMAIN SizeUnit /\ length % SizeUnit[code] # 0 -> {"community_len_not_multiple"}
    [] length \in 1 .. 2 /\ code = Attr.MP_UNREACH_NLRI -> {"mp_unreach_len_too_short"}
    [] length > 0 /\ code = Attr.MP_REACH_NLRI /\ Abbreviated /\ length # O(from) + 1
         -> {"mp_reach_nexthop_len_inconsistent"}
    [] length > 0 /\ code = Attr.MP_REACH_NLRI /\ ~Abbreviated
         /\ (length < 5 \/ AfterNextHop(from) > from + length) -> {"mp_reach_nexthop_len_inconsistent"}
    [] OTHER -> {}

(* What the value of a sound attribute holds in turn.                      *)
Inside(code, from, length) ==
  CASE code \in {Attr.AS_PATH, Attr.AS4_PATH} ->
         <<Section("segments", from, from + length - 1, IF code = Attr.AS4_PATH THEN 4 ELSE AsWidth, NoFamily)>>
    [] code = Attr.MP_REACH_NLRI /\ ~Abbreviated ->
         <<Section("mp_nlri", AfterNextHop(from), from + length - 1, 0, <<Two(from), O(from + 2)>>)>>
    [] code = Attr.MP_UNREACH_NLRI ->
         <<Section("mp_nlri", from + 3, from + length - 1, 0, <<Two(from), O(from + 2)>>)>>
    [] OTHER -> << >>

FamilyFacts(code, from) ==
  IF code = Attr.MP_UNREACH_NLRI \/ (code = Attr.MP_REACH_NLRI /\ ~Abbreviated)
  THEN {Number("afi", Two(from)), Number("safi", O(from + 2))} ELSE {}

(* The address of a next hop, behind the zero RD of an MPLS VPN.           *)
NextHopFact(at, length) ==
  IF length \in {12, 24} THEN Holds("next_hop", Octs(at + 8, length - 8)) ELSE Holds("next_hop", Octs(at, length))

(* An extended community: by its type without the non-IANA bit the form of *)
(* its administrator, by its subtype what it says.                         *)
ExtFact(at) ==
  LET form == O(at) % 64
      actions == O(at) >= 128
      sub == O(at + 1)
  IN CASE form \in 0 .. 2 /\ ~actions /\ sub = 2 -> AdminFact("rt", "rt_ip", form, at + 2)
       [] form \in 0 .. 2 /\ ~actions /\ sub = 3 -> AdminFact("soo", "soo_ip", form, at + 2)
       [] form \in 0 .. 2 /\ actions /\ sub = 8 -> AdminFact("redirect", "redirect_ip", form, at + 2)
       [] form = 0 /\ actions /\ sub = 6  -> Holds("rate_bytes", Octs(at + 4, 4))
       [] form = 0 /\ actions /\ sub = 12 -> Holds("rate_packets", Octs(at + 4, 4))
       [] form = 0 /\ actions /\ sub = 7  -> <<"terminal_sample", O(at + 7) % 2, (O(at + 7) \div 2) % 2>>
       [] form = 0 /\ actions /\ sub = 9  -> Number("marking", O(at + 7))
       [] OTHER -> Holds("ext", Octs(at, 8))

Ext6Fact(at) ==
  CASE O(at + 1) = 2 -> Holds("rt6", Octs(at + 2, 16)) \o <<Two(at + 18)>>
    [] O(at + 1) = 3 -> Holds("soo6", Octs(at + 2, 16)) \o <<Two(at + 18)>>
    [] OTHER -> Holds("ext6", Octs(at, 20))

EachOf(Fact(_), from, unit, length) == {Fact(from + unit * i) : i \in 0 .. (length \div unit) - 1}

(* What the value of a sound attribute says.                               *)
ValueFacts(code, from, length) ==
  LET community(at) == WordIs("community", WordAt(at))
      large(at) == <<"large">> \o WordAt(at) \o WordAt(at + 4) \o WordAt(at + 8)
      cluster(at) == <<"cluster", (at - from) \div 4>> \o Octs(at, 4)
  IN CASE code = Attr.ORIGIN -> {Number("origin", O(from))}
       [] code = Attr.NEXT_HOP -> {NextHopFact(from, 4)}
       [] code = Attr.MP_REACH_NLRI ->
            {IF Abbreviated THEN NextHopFact(from + 1, O(from)) ELSE NextHopFact(from + 4, O(from + 3))}
       [] code = Attr.MULTI_EXIT_DISC -> {WordIs("med", WordAt(from))}
       [] code = Attr.LOCAL_PREF -> {WordIs("local_pref", WordAt(from))}
       [] code = Attr.AGGREGATOR /\ length = 8 -> {<<"aggregator">> \o WordAt(from) \o Octs(from + 4, 4)}
       [] code = Attr.ORIGINATOR_ID -> {Holds("originator_id", Octs(from, 4))}
       [] code = Attr.CLUSTER_LIST -> EachOf(cluster, from, 4, length)
       [] code = Attr.AIGP -> {<<"aigp", O(from), Two(from + 1)>> \o WordAt(from + 3) \o WordAt(from + 7)}
       [] code = Attr.COMMUNITY -> EachOf(community, from, 4, length)
       [] code = Attr.EXT_COMMUNITY -> EachOf(ExtFact, from, 8, length)
       [] code = Attr.IPV6_EXT_COMMUNITY -> EachOf(Ext6Fact, from, 20, length)
       [] code = Attr.LARGE_COMMUNITY -> EachOf(large, from, 12, length)
       [] OTHER -> {}

(* An UPDATE that announces something has its mandatory attributes.        *)
Announces == Here.n = 1 \/ (Here.n = 0 /\ Attr.MP_REACH_NLRI \in seen)
MissingMandatory ==
  IF ~Announces THEN {}
  ELSE {d \in {"missing_origin", "missing_as_path", "missing_next_hop"} :
          CASE d = "missing_origin" -> Attr.ORIGIN \notin seen
            [] d = "missing_as_path" -> Attr.AS_PATH \notin seen
            [] OTHER -> seen \cap {Attr.NEXT_HOP, Attr.MP_REACH_NLRI} = {}}

ReadAttribute ==
  /\ In("attributes")
  /\ UNCHANGED input
  /\ IF Room <= 0 THEN Note(MissingMandatory, << >>, {}) /\ UNCHANGED seen
     ELSE IF Room < 3 \/ (HasBit(O(Here.from), Flag.EXT_LEN) /\ Room < 4)
     THEN Stop("attr_len_overruns_container", {}) /\ UNCHANGED seen
     ELSE LET flags == O(Here.from)
              code == O(Here.from + 1)
              ext == HasBit(flags, Flag.EXT_LEN)
              length == IF ext THEN Two(Here.from + 2) ELSE O(Here.from + 2)
              value == Here.from + (IF ext THEN 4 ELSE 3)
              wrong == ValueDefects(code, value, length)
          IN IF value + length - 1 > Here.to
             THEN Stop("attr_len_overruns_container", {AttrIs(code, length)}) /\ UNCHANGED seen
             ELSE /\ Note(FlagDefects(flags, code, length) \cup wrong
                          \cup (IF code \in seen THEN {"duplicate_attribute"} ELSE {}),
                          (IF wrong = {} THEN Inside(code, value, length) ELSE << >>)
                          \o <<Rest(Here, value + length)>>,
                          {AttrIs(code, length), <<"flags", code, flags>>}
                          \cup IF wrong = {} THEN FamilyFacts(code, value) \cup ValueFacts(code, value, length) ELSE {})
                  /\ seen' = seen \cup {code}

ReadSegment ==
  /\ In("segments")
  /\ UNCHANGED <<input, seen>>
  /\ CASE Room <= 0 -> Go(<< >>, {})
       [] Room = 1 -> Note({"as_path_segment_underrun"}, << >>, {})
       [] Room > 1 /\ O(Here.from) \notin 1 .. 4 -> Note({"as_path_unknown_segment_type"}, << >>, {})
       [] Room > 1 /\ O(Here.from) \in 1 .. 4 /\ O(Here.from + 1) = 0 ->
            Note({"as_path_zero_length_segment"}, << >>, {})
       [] OTHER ->
            LET count == O(Here.from + 1)
                next == Here.from + 2 + count * Here.n
            IN IF next - 1 > Here.to THEN Note({"as_path_segment_overrun"}, << >>, {})
               ELSE Go(<<Rest(Here, next)>>,
                       {Number("as_count", count)}
                       \cup {LET at == Here.from + 2 + i * Here.n
                             IN <<"asn", i>> \o IF Here.n = 4 THEN WordAt(at) ELSE <<0, Two(at)>> : i \in 0 .. count - 1})

-----------------------------------------------------------------------------
WithPeers(cases, peers) == [c \in DOMAIN cases |-> cases[c] @@ [peers |-> peers]]

Init ==
  /\ \E c \in DOMAIN Cases : case = Cases[c]
  /\ mrt = [type |-> case.rec.type, subtype |-> case.rec.subtype, octets |-> Payload(case.rec), peers |-> case.peers]
  /\ todo = <<Section("record", 1, Len(mrt.octets), 0, NoFamily)>>
  /\ seen = {}
  /\ defects = {}
  /\ facts = {}

Next ==
  \/ ReadRecord \/ ReadIgp \/ ReadPeerTable \/ ReadPeer
  \/ ReadRib \/ ReadEntry \/ ReadTableDump \/ ReadPrefix
  \/ ReadBgp4mp \/ ReadMessage \/ ReadUpdate \/ ReadAttribute \/ ReadSegment

Spec == Init /\ [][Next]_vars

-----------------------------------------------------------------------------
Read == todo = << >>

(* What a reader sees of a reason.  The corpora name some damage after its *)
(* cause; what is left in the octets is where the reading goes astray.  Of *)
(* one the name is wrong: what generator.rs calls an underrun of segments  *)
(* leaves two octets behind the last, the header of a segment of type 0,   *)
(* where RFC 7606 means a single octet.                                    *)
Symptoms(reason) ==
  CASE reason = "none" -> {}
    [] reason = "duplicate_attribute_and_attr_wrong_fixed_size" -> {"duplicate_attribute", "attr_wrong_fixed_size"}
    [] reason = "path_id_in_non_addpath_subtype" -> {"bytes_after_record"}
    [] reason = "missing_path_id_in_addpath_subtype" -> {"attr_len_overruns_record"}
    [] reason = "missing_path_id_in_addpath_nlri" -> {"prefix_len_out_of_range"}
    [] reason \in {"bgp_message_exceeds_4096", "length_below_minimum", "length_above_maximum"}
         -> {"bgp_length_out_of_range"}
    [] reason = "as_path_segment_underrun" -> {"as_path_unknown_segment_type"}
    [] reason = "wrong_flags" -> {"attr_flags_error"}
    [] reason = "entry_count_overrun" -> {"count_overruns_record"}
    [] OTHER -> {reason}
=============================================================================
