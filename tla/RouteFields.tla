----------------------------- MODULE RouteFields ----------------------------
(***************************************************************************)
(* The fields of a route of a route list, from the strings that            *)
(* src/routes.rs splits to octets.  A number of a string is a pair         *)
(* <<high, low>> base 65536 whose high part may be too large for any       *)
(* field; an optional field is a sequence of at most one element; a string *)
(* that is no number and no address at all is not modelled.                *)
(***************************************************************************)
EXTENDS ManifestCases

IsU16(n) == n[1] = 0
IsU32(n) == n[1] < 65536

-----------------------------------------------------------------------------
(* parse_prefix, and the bits behind the prefix.                           *)
PrefixParses(addr, bits) == bits <= 8 * Len(addr)

HasHostBits(addr, bits) ==
  LET whole == bits \div 8
      rem == bits % 8
  IN IF rem = 0 THEN \E i \in whole + 1 .. Len(addr) : addr[i] # 0
     ELSE \/ addr[whole + 1] % (2 ^ (8 - rem)) # 0
          \/ \E i \in whole + 2 .. Len(addr) : addr[i] # 0

(* parse_origin: the names stand for these codes.                          *)
OriginParses(code) == code \in 0 .. 2

-----------------------------------------------------------------------------
(* A standard community: a well-known name, a word, or two halves.         *)
CommunityParses(c) ==
  CASE c.form = "name" -> c.name \in DOMAIN WellKnownCommunity
    [] c.form = "hex"  -> IsU32(c.word)
    [] c.form = "pair" -> IsU16(c.asn) /\ IsU16(c.value)

Community(c) ==
  CASE c.form = "name" -> WellKnownCommunity[c.name]
    [] c.form = "hex"  -> c.word
    [] c.form = "pair" -> <<c.asn[2], c.value[2]>>

-----------------------------------------------------------------------------
(* An administrator and a number under it share six octets: a two-octet AS *)
(* leaves four for the number, a four-octet AS or an address leaves two.   *)
Form(a) == IF a.isIp THEN 1 ELSE IF IsU16(a.admin) THEN 0 ELSE 2

AdminParses(a) ==
  IF Form(a) = 0 THEN IsU32(a.number)
  ELSE (a.isIp \/ IsU32(a.admin)) /\ IsU16(a.number)

AdminOctets(a) ==
  CASE Form(a) = 0 -> U16(a.admin[2]) \o U32(a.number)
    [] Form(a) = 1 -> a.admin \o U16(a.number[2])
    [] OTHER       -> U32(a.admin) \o U16(a.number[2])

(* parse_ext_community: rt and soo know no address; raw octets are taken   *)
(* as they are.                                                            *)
ExtSubtype == [rt |-> 2, soo |-> 3]
ExtParses(c)  == c.form # "hex" => ~c.of.isIp /\ AdminParses(c.of)
ExtOctets(c) ==
  IF c.form = "hex" THEN c.octets ELSE <<Form(c.of), ExtSubtype[c.form]>> \o AdminOctets(c.of)

(* parse_ipv6_ext_community.                                               *)
Ext6Parses(c) == c.form # "hex" => IsU16(c.local)
Ext6Octets(c) ==
  IF c.form = "hex" THEN c.octets ELSE <<0, ExtSubtype[c.form]>> \o c.ip \o U16(c.local[2])

(* parse_rd.                                                               *)
RdParses(rd) == AdminParses(rd)
RdOctets(rd) ==
  CASE Form(rd) = 0 -> RdType0(rd.admin[2], rd.number)
    [] Form(rd) = 1 -> RdType1(rd.admin, rd.number[2])
    [] OTHER        -> RdType2(rd.admin, rd.number[2])

AggregatorParses(a) == IsU32(a.asn)
LargeParses(c) == \A i \in 1 .. 3 : IsU32(c[i])

-----------------------------------------------------------------------------
(* rt-redirect: 0x80, 0x81 or 0x82 by the form of the administrator.       *)
RedirectOctets(r) == <<128 + Form(r), 8>> \o AdminOctets(r)

(* A rate is the four octets of an IEEE 754 number; a negative zero is not *)
(* below zero.                                                             *)
Finite(f) == ~(f[1] % 128 = 127 /\ f[2] >= 128)
Below0(f) == f[1] >= 128 /\ f # <<128, 0, 0, 0>>
RateParses(f) == Finite(f) /\ ~Below0(f)
RateOctets(subtype, f) == <<128, subtype, 0, 0>> \o f

ActionsParse(a) ==
  /\ \A i \in DOMAIN a.rateBytes : RateParses(a.rateBytes[i])
  /\ \A i \in DOMAIN a.ratePackets : RateParses(a.ratePackets[i])
  /\ \A i \in DOMAIN a.redirect : AdminParses(a.redirect[i])
  /\ \A i \in DOMAIN a.marking : a.marking[i] <= 63

Bit(option) == IF option = <<TRUE>> THEN 1 ELSE 0

(* Slip: the community of the action bits whether they are given or not.   *)
ActionCommunitiesAlways(a) ==
  [i \in DOMAIN a.rateBytes |-> RateOctets(6, a.rateBytes[i])]
  \o [i \in DOMAIN a.ratePackets |-> RateOctets(12, a.ratePackets[i])]
  \o <<<<128, 7, 0, 0, 0, 0, 0, 2 * Bit(a.sample) + Bit(a.terminal)>>>>
  \o [i \in DOMAIN a.redirect |-> RedirectOctets(a.redirect[i])]
  \o [i \in DOMAIN a.marking |-> <<128, 9, 0, 0, 0, 0, 0, a.marking[i]>>]

(* action_communities: one action bit is enough for the community of both. *)
ActionCommunities(a) ==
  [i \in DOMAIN a.rateBytes |-> RateOctets(6, a.rateBytes[i])]
  \o [i \in DOMAIN a.ratePackets |-> RateOctets(12, a.ratePackets[i])]
  \o (IF a.terminal = << >> /\ a.sample = << >> THEN << >>
      ELSE <<<<128, 7, 0, 0, 0, 0, 0, 2 * Bit(a.sample) + Bit(a.terminal)>>>>)
  \o [i \in DOMAIN a.redirect |-> RedirectOctets(a.redirect[i])]
  \o [i \in DOMAIN a.marking |-> <<128, 9, 0, 0, 0, 0, 0, a.marking[i]>>]

-----------------------------------------------------------------------------
(* parse_raw_attribute: the flags are an octet or a set of names.          *)
RawFlags(raw) ==
  IF raw.form = "octet" THEN raw.flags
  ELSE (IF "optional" \in raw.names THEN Flag.OPTIONAL ELSE 0)
       + (IF "transitive" \in raw.names THEN Flag.TRANSITIVE ELSE 0)
       + (IF "partial" \in raw.names THEN Flag.PARTIAL ELSE 0)

RawOctets(raw) == Attribute(RawFlags(raw), raw.code, raw.value)

(* The flags that route_details says were emitted: worked out once more,   *)
(* apart from the encoder.                                                 *)
EmittedFlags(raw) ==
  IF Len(raw.value) > 255 THEN WithBit(RawFlags(raw), Flag.EXT_LEN) ELSE WithoutBit(RawFlags(raw), Flag.EXT_LEN)
=============================================================================
