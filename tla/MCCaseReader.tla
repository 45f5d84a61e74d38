---------------------------- MODULE MCCaseReader ----------------------------
(***************************************************************************)
(* Every case of the corpora, behind the peer table of the corpora, and    *)
(* then the records of a route list: routes that differ from a plain one   *)
(* in a field or two, every number on both sides of the width it must fit. *)
(***************************************************************************)
EXTENDS RouteReader, CorpusCases

Base ==
  [expect |-> "valid", v6 |-> FALSE, addr |-> <<198, 51, 100, 0>>, bits |-> 24, nexthop |-> <<192, 0, 2, 9>>,
   asPath |-> << >>, origin |-> 0, med |-> << >>, localPref |-> << >>, atomic |-> FALSE, aggregator |-> << >>,
   originator |-> << >>, clusters |-> << >>, aigp |-> << >>, std |-> << >>, ext |-> << >>, ext6 |-> << >>,
   large |-> << >>, pathId |-> << >>, rd |-> << >>, label |-> << >>, flow |-> << >>, actions |-> << >>,
   raw |-> << >>]

Six == [Base EXCEPT !.v6 = TRUE, !.addr = V6(0), !.bits = 48, !.nexthop = V6(9)]

Max16 == <<0, 65535>>
Min32 == <<1, 0>>            \* 65536
Max32 == <<65535, 65535>>
Over32 == <<65536, 0>>

Of(admin, number) == [isIp |-> FALSE, admin |-> admin, number |-> number]
OfIp(number) == [isIp |-> TRUE, admin |-> <<192, 0, 2, 1>>, number |-> number]
Admins == <<Of(Max16, Max32), Of(Min32, Max16), Of(Max32, <<0, 7>>), OfIp(Max16),
            Of(Max16, Over32), Of(Min32, Min32), Of(Over32, <<0, 7>>), OfIp(Min32)>>

NoActions == [rateBytes |-> << >>, ratePackets |-> << >>, redirect |-> << >>, marking |-> << >>,
              terminal |-> << >>, sample |-> << >>]

(* Of a rule for port 80, and of one whose length takes two octets.        *)
Rule == [Base EXCEPT !.flow = <<<<3, 5, 129, 80>>>>, !.nexthop = << >>]
LongRule == [Rule EXCEPT !.flow = <<<<240, 240>> \o Fill(5, 240)>>]
Acting(actions) == [Rule EXCEPT !.actions = <<actions>>]

Raw(flags, size) == [form |-> "octet", flags |-> flags, code |-> 99, value |-> Fill(90, size)]

(* A second ORIGIN, and a MULTI_EXIT_DISC by hand.                         *)
RawOrigin(size) == [form |-> "octet", flags |-> 64, code |-> Attr.ORIGIN, value |-> Fill(0, size)]
RawMed == [form |-> "octet", flags |-> 128, code |-> Attr.MULTI_EXIT_DISC, value |-> Fill(0, 4)]

Path(n) == <<[i \in 1 .. n |-> Word(64499 + i)]>>

ByPrefix ==
  <<Base, Six,
    [Base EXCEPT !.bits = 0, !.addr = Fill(0, 4)], [Base EXCEPT !.bits = 1, !.addr = <<128, 0, 0, 0>>],
    [Base EXCEPT !.bits = 31, !.addr = <<10, 0, 0, 2>>], [Base EXCEPT !.bits = 32], [Base EXCEPT !.bits = 33],
    [Six EXCEPT !.bits = 127], [Six EXCEPT !.bits = 128, !.addr = V6(1)],
    [Base EXCEPT !.addr = <<192, 0, 2, 129>>, !.bits = 25], [Base EXCEPT !.addr = <<192, 0, 2, 1>>],
    [Base EXCEPT !.pathId = <<Max32>>], [Six EXCEPT !.pathId = <<<<0, 0>>>>],
    [Base EXCEPT !.expect = "skip"], [Base EXCEPT !.addr = <<192, 0, 2, 1>>, !.expect = "skip"],
    [Base EXCEPT !.addr = <<192, 0, 2, 129>>, !.bits = 25, !.expect = "skip"],
    [Base EXCEPT !.addr = <<192, 0, 2, 129>>, !.bits = 25, !.rd = <<Admins[1]>>, !.expect = "skip"],
    [Six EXCEPT !.addr = V6(1), !.bits = 127, !.expect = "skip"]>>

ByVpn ==
  [i \in DOMAIN Admins |-> [Base EXCEPT !.rd = <<Admins[i]>>]]
  \o <<[Base EXCEPT !.rd = <<Admins[1]>>, !.label = <<2 ^ 20 - 1>>], [Base EXCEPT !.rd = <<Admins[1]>>, !.label = <<2 ^ 20>>],
       [Six EXCEPT !.rd = <<Admins[2]>>, !.pathId = <<Min32>>], [Base EXCEPT !.rd = <<Admins[4]>>, !.pathId = <<Max16>>]>>

ByPath ==
  <<[Base EXCEPT !.asPath = <<<< >>>>], [Base EXCEPT !.asPath = <<<<Max32, Max16>>>>], [Base EXCEPT !.asPath = Path(255)],
    [Base EXCEPT !.asPath = Path(256)], [Base EXCEPT !.asPath = Path(256), !.expect = "skip"],
    [Base EXCEPT !.asPath = Path(300), !.expect = "skip"]>>

ByAttribute ==
  <<[Base EXCEPT !.origin = 2], [Base EXCEPT !.origin = 3],
    [Base EXCEPT !.med = <<Max32>>, !.localPref = <<Min32>>, !.atomic = TRUE,
                 !.aggregator = <<[asn |-> Max32, ip |-> <<192, 0, 2, 254>>]>>, !.originator = <<<<10, 0, 0, 1>>>>,
                 !.clusters = <<<<10, 0, 0, 2>>, <<10, 0, 0, 3>>>>, !.aigp = <<<<1, 2, 3, 65535>>>>,
                 !.large = <<<<Max32, Min32, <<0, 0>>>>>>],
    [Base EXCEPT !.aggregator = <<[asn |-> Over32, ip |-> <<192, 0, 2, 254>>]>>],
    [Base EXCEPT !.large = <<<<Over32, Min32, <<0, 0>>>>>>]>>

ByCommunity ==
  <<[Base EXCEPT !.std = <<[form |-> "name", name |-> "NO_EXPORT"], [form |-> "hex", word |-> Max32],
                           [form |-> "pair", asn |-> Max16, value |-> <<0, 1>>]>>],
    [Base EXCEPT !.std = <<[form |-> "name", name |-> "BLACKHOLE"]>>],
    [Base EXCEPT !.std = <<[form |-> "hex", word |-> Over32]>>],
    [Base EXCEPT !.std = <<[form |-> "pair", asn |-> Min32, value |-> <<0, 1>>]>>],
    [Base EXCEPT !.std = <<[form |-> "pair", asn |-> <<0, 1>>, value |-> Min32]>>],
    [Base EXCEPT !.std = [i \in 1 .. 1100 |-> [form |-> "pair", asn |-> <<0, 7>>, value |-> <<0, i>>]]],
    [Base EXCEPT !.ext = <<[form |-> "hex", octets |-> <<67, 9, 1, 2, 3, 4, 5, 6>>]>>],
    [Six EXCEPT !.ext6 = <<[form |-> "rt", ip |-> V6(5), local |-> Max16], [form |-> "soo", ip |-> V6(6), local |-> <<0, 1>>]>>],
    [Six EXCEPT !.ext6 = <<[form |-> "rt", ip |-> V6(5), local |-> Min32]>>],
    [Six EXCEPT !.ext6 = <<[form |-> "hex", octets |-> <<64, 2>> \o V6(5) \o <<0, 1>>]>>]>>
  \o [i \in DOMAIN Admins |-> [Base EXCEPT !.ext = <<[form |-> "rt", of |-> Admins[i]]>>]]
  \o [i \in DOMAIN Admins |-> [Base EXCEPT !.ext = <<[form |-> "soo", of |-> Admins[i]]>>]]

ByRule ==
  <<Rule, LongRule, [Rule EXCEPT !.v6 = TRUE, !.nexthop = V6(9), !.pathId = <<Min32>>],
    Acting(NoActions), Acting([NoActions EXCEPT !.terminal = <<TRUE>>]), Acting([NoActions EXCEPT !.sample = <<TRUE>>]),
    Acting([NoActions EXCEPT !.terminal = <<FALSE>>, !.sample = <<FALSE>>]),
    [Acting([NoActions EXCEPT !.rateBytes = <<<<73, 116, 36, 0>>>>, !.ratePackets = <<Fill(0, 4)>>, !.marking = <<63>>,
                              !.redirect = <<Admins[4]>>, !.terminal = <<TRUE>>, !.sample = <<FALSE>>])
       EXCEPT !.ext = <<[form |-> "rt", of |-> Admins[1]]>>],
    Acting([NoActions EXCEPT !.marking = <<64>>]),
    Acting([NoActions EXCEPT !.rateBytes = <<<<127, 128, 0, 0>>>>]),
    Acting([NoActions EXCEPT !.ratePackets = <<<<191, 128, 0, 0>>>>]),
    Acting([NoActions EXCEPT !.ratePackets = <<<<128, 0, 0, 0>>>>])>>
  \o [i \in DOMAIN Admins |-> Acting([NoActions EXCEPT !.redirect = <<Admins[i]>>])]

ByRaw ==
  [i \in 1 .. 4 |-> [Base EXCEPT !.raw = <<Raw(<<192, 208, 128, 224>>[i], <<0, 4, 255, 256>>[i])>>]]
  \o <<[Base EXCEPT !.raw = <<[form |-> "names", names |-> {"optional", "transitive"}, code |-> 98, value |-> <<1>>],
                              Raw(192, 3)>>],
    [Base EXCEPT !.raw = <<RawOrigin(1)>>], [Base EXCEPT !.raw = <<RawOrigin(4)>>],
    [Base EXCEPT !.raw = <<RawOrigin(4)>>, !.expect = "skip"],
    [Base EXCEPT !.raw = <<Raw(192, 3)>>, !.expect = "skip"],
    [Base EXCEPT !.raw = <<Raw(192, 3), Raw(192, 3)>>], [Base EXCEPT !.raw = <<Raw(64, 3)>>],
    [Base EXCEPT !.raw = <<RawMed>>], [Base EXCEPT !.med = <<Max32>>, !.raw = <<RawMed>>]>>

MCRouteList == ByPrefix \o ByVpn \o ByPath \o ByAttribute \o ByCommunity \o ByRule \o ByRaw

MCCases == WithPeers(ProfileCases, Len(CorpusPeers)) \o WithPeers(RouteCases, RoutePeers)
=============================================================================
