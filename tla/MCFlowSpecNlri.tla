--------------------------- MODULE MCFlowSpecNlri ---------------------------
(***************************************************************************)
(* Rules of four kinds: every combination of a few components, lists of    *)
(* items of every operator and operand width, raw octets behind typed      *)
(* ones, and NLRIs about the limits of the length octets.                  *)
(***************************************************************************)
EXTENDS FlowSpecNlri, TLC

Empty == [expect |-> "skip", afi |-> "none", parts |-> << >>, hex |-> "absent", raw |-> << >>]

Rule(expect, afi, parts) ==
  [Empty EXCEPT !.expect = expect, !.afi = afi, !.parts = parts]

V4Net(bits, addr) == [v6 |-> FALSE, bits |-> bits, addr |-> addr]
V6Net(bits) == [v6 |-> TRUE, bits |-> bits, addr |-> [i \in 1 .. 16 |-> IF i = 1 THEN 32 ELSE 0]]

Destinations ==
  {V4Net(24, <<192, 0, 2, 0>>), V4Net(0, <<0, 0, 0, 0>>), V4Net(23, <<192, 0, 3, 0>>),
   V6Net(33), V6Net(128)}
Sources == {V4Net(32, <<203, 0, 113, 9>>), V6Net(3)}

Byte(n) == <<n>>
Eq(v) == [eq |-> v]
Interval(a, b) == [range |-> <<a, b>>]
Names(names, exact, negate) == [names |-> names, match |-> exact, negate |-> negate]
Flags(v, exact, negate) == [flags |-> v, match |-> exact, negate |-> negate]

(* A component that is present with one of the given contents, or absent.  *)
Maybe(t, contents) == {<< >>} \cup {t :> c : c \in contents}

Combined ==
  {Rule("valid", afi, a @@ b @@ c @@ d @@ e) :
     afi \in {"none", "ipv6", "other"},
     a \in Maybe(1, Destinations), b \in Maybe(2, Sources),
     c \in Maybe(3, {<<Eq(Byte(6))>>}),
     d \in Maybe(12, {<<Names({"is-fragment"}, FALSE, FALSE)>>}),
     e \in Maybe(13, {<<Eq(Byte(7))>>, <<Eq(<<15, 255, 255>>)>>, <<Eq(<<16, 0, 0>>)>>})}

Wide == <<1, 0, 0, 0, 0>>               \* 2^32

Items ==
  {Eq(Byte(0)), Eq(Byte(255)), Eq(<<1, 0>>), Eq(<<1, 0, 0>>), Eq(Wide),
   [lt |-> Byte(5)], [le |-> <<1, 0>>], [gt |-> Byte(63)], [ge |-> Byte(64)],
   Interval(Byte(5), Byte(7)), Interval(<<1, 0>>, Byte(7)), Interval(Byte(64), <<255, 255>>),
   << >>, [eq |-> Byte(1), lt |-> Byte(5)], [eq |-> Byte(1), range |-> <<Byte(5), Byte(7)>>]}

Masks ==
  {Names(n, m, k) : n \in {{}, {"syn"}, {"syn", "ack"}, {"cwr"}, {"nope"}}, m \in BOOLEAN, k \in BOOLEAN}
  \cup {Flags(<<8, 2>>, m, FALSE) : m \in BOOLEAN} \cup {Flags(<<1, 0, 0>>, TRUE, FALSE)}

Lists(items) == UNION {[1 .. k -> items] : k \in 1 .. 2} 
Runs == {<<a, Interval(Byte(5), Byte(7)), b>> : a \in {Eq(Byte(6)), [gt |-> Byte(254)]},
                                               b \in {Eq(<<1, 0>>), Interval(<<1, 0>>, <<2, 0>>)}}

Listed ==
  {Rule(expect, "none", t :> list) :
     expect \in {"valid", "skip"}, t \in {3, 6, 11}, list \in Lists(Items) \cup Runs}
  \cup {Rule("valid", "none", 9 :> list) : list \in Lists(Masks)}
  \cup {Rule("valid", "none", 12 :> <<Flags(v, FALSE, FALSE)>>) : v \in {Byte(8), <<1, 0>>}}

(* Duplicate, descending, unknown and IPv6-only types, a prefix longer     *)
(* than its family and one cut short, an operator without its value, a     *)
(* list without an end, a component that is well formed, and none.         *)
Raws ==
  {<<3, 129, 6>>, <<5, 129, 80>>, <<0>>, <<14, 129, 0>>, <<13, 129, 7>>, <<1, 24, 192, 0, 2>>,
   <<2, 33, 1, 2, 3, 4, 5>>, <<2, 24, 192, 0>>, <<2>>, <<2, 0>>, <<6, 145, 80>>, <<6, 1, 80>>, <<6>>,
   <<10, 129, 6>>, << >>}

Hostile ==
  {[Rule("skip", afi, parts) EXCEPT !.hex = "octets", !.raw = raw] :
     afi \in {"none", "ipv6"},
     parts \in {<< >>, 5 :> <<Eq(Byte(80))>>, 3 :> <<Interval(Byte(5), Byte(7))>> @@ 4 :> <<Eq(<<1, 0>>)>>,
                1 :> V4Net(24, <<192, 0, 2, 0>>), 1 :> V6Net(33) @@ 3 :> <<Eq(Byte(6))>>},
     raw \in Raws}
  \cup {[Rule(expect, "none", 5 :> <<Eq(Byte(80))>>) EXCEPT !.hex = hex] :
          expect \in {"valid", "skip"}, hex \in {"malformed", "octets"}}

Sized ==
  {[Empty EXCEPT !.hex = "octets", !.raw = [i \in 1 .. size |-> 0]] :
     size \in {1, 239, 240, 255, 256, 4095, 4096}}

MCRules == Combined \cup Listed \cup Hostile \cup Sized

MCSamples ==
  {Byte(n) : n \in {0, 1, 2, 4, 5, 6, 7, 8, 16, 18, 63, 64, 65, 128, 254, 255}}
  \cup {<<1, 0>>, <<1, 1>>, <<2, 0>>, <<8, 2>>, <<255, 255>>, <<1, 0, 0>>, Wide}
=============================================================================
