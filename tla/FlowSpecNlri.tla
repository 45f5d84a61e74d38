---------------------------- MODULE FlowSpecNlri ----------------------------
(***************************************************************************)
(* A FlowSpec rule (RFC 8955, RFC 8956) on its way through src/flowspec.rs *)
(* to the wire, and back through the structural check that the harness     *)
(* makes of what it finds there: validate_domains, encode_nlri one         *)
(* component at a time, then split_nlri and first_violation of             *)
(* runners/fastnetmon_flowspec_check.py, octet for octet.                  *)
(***************************************************************************)
EXTENDS Integers, Sequences, SequencesExt, FiniteSets, FiniteSetsExt

CONSTANTS
  Rules,      \* rules, as records of the fields of FlowSpec
  Samples     \* field values that the lists are tried on

Octet == 0 .. 255

(* A u64 is its octets, most significant first, none of them a leading     *)
(* zero: what a width is chosen by.                                        *)
Value(v) == v \in Seq(Octet) /\ Len(v) \in 1 .. 8 /\ (v[1] # 0 \/ Len(v) = 1)

PrefixTypes == {1, 2}                     \* T_DST_PREFIX, T_SRC_PREFIX
BitmaskTypes == {9, 12}                    \* T_TCP_FLAGS, T_FRAGMENT
FlowLabel == 13                        \* T_FLOW_LABEL
Types == 1 .. 13
NumericTypes == Types \ (PrefixTypes \cup BitmaskTypes)

(* A prefix as parse_prefix returns it.                                    *)
ParsedPrefixes ==
  [v6 : {FALSE}, bits : 0 .. 32, addr : [1 .. 4 -> Octet]]
  \cup [v6 : {TRUE}, bits : 0 .. 128, addr : [1 .. 16 -> Octet]]

Comparisons == <<"eq", "lt", "le", "gt", "ge", "range">>

(* A numeric item has the operators it was given, a bare number being eq.  *)
NumericItem(item) ==
  /\ DOMAIN item \subseteq Range(Comparisons)
  /\ \A name \in DOMAIN item :
       IF name = "range" THEN Value(item.range[1]) /\ Value(item.range[2])
       ELSE Value(item[name])

(* A bitmask item has its flags as a value or as a set of names.           *)
BitmaskItem(item) ==
  /\ item.match \in BOOLEAN /\ item.negate \in BOOLEAN
  /\ IF "names" \in DOMAIN item THEN item.names \in SUBSET STRING ELSE Value(item.flags)

(* parts: the components that are given and not empty, by type.            *)
ASSUME RulesAssumption ==
  \A r \in Rules :
    /\ r.expect \in {"valid", "skip"}
    /\ r.afi \in {"none", "ipv4", "ipv6", "other"}
    /\ DOMAIN r.parts \subseteq Types
    /\ \A t \in DOMAIN r.parts \cap PrefixTypes : r.parts[t] \in ParsedPrefixes
    /\ \A t \in DOMAIN r.parts \ PrefixTypes :
         /\ r.parts[t] \in Seq(Range(r.parts[t])) /\ r.parts[t] # << >>
         /\ \A item \in Range(r.parts[t]) :
              IF t \in BitmaskTypes THEN BitmaskItem(item) ELSE NumericItem(item)
    /\ r.hex \in {"absent", "malformed", "octets"}
    /\ r.raw \in Seq(Octet)
    /\ r.hex # "octets" => r.raw = << >>

ASSUME SamplesAssumption == \A x \in Samples : Value(x)

VARIABLES
  rule,       \* the rule
  phase,      \* "validate", "encode", "refused", "read", "wellformed" or "violated"
  at,         \* the component type the encoder is at, 14 for the raw octets
  comps,      \* the components so far
  nlri,       \* what encode_nlri returns
  pos,        \* how many octets of the components the reader has passed
  last,       \* the type it met last
  reading,    \* "type", "prefix" or "operators": what comes next
  found       \* for each type seen, where its contents begin

encodeVars == <<at, comps, nlri>>
readVars == <<pos, last, reading, found>>
vars == <<rule, phase, encodeVars, readVars>>

-----------------------------------------------------------------------------
(* family: of the destination, else of the source, else the afi field.     *)
Given(r) == DOMAIN r.parts \cap PrefixTypes

V6(r) == IF Given(r) # {} THEN r.parts[Min(Given(r))].v6 ELSE r.afi = "ipv6"

FamilyKnown(r) == Given(r) = {} => r.afi # "other"

Less(a, b) ==
  \/ Len(a) < Len(b)
  \/ /\ Len(a) = Len(b)
     /\ \E i \in DOMAIN a : a[i] < b[i] /\ \A j \in 1 .. i - 1 : a[j] = b[j]

(* prefix_has_host_bits: an address bit behind the length.                 *)
HostBits(p) ==
  \E i \in DOMAIN p.addr :
    LET kept == p.bits - 8 * (i - 1)
    IN IF kept <= 0 THEN p.addr[i] # 0
       ELSE kept < 8 /\ p.addr[i] % 2 ^ (8 - kept) # 0

OpEq == 1
OpGt == 2
OpLt == 4
OpAnd == 64
OpEnd == 128

(* Slip: the upper bound of a range as an alternative, not a condition.    *)
PairsWithoutAnd(name, operand) ==
  CASE name = "eq" -> << <<OpEq, operand>> >>
    [] name = "lt" -> << <<OpLt, operand>> >>
    [] name = "le" -> << <<OpLt + OpEq, operand>> >>
    [] name = "gt" -> << <<OpGt, operand>> >>
    [] name = "ge" -> << <<OpGt + OpEq, operand>> >>
    [] name = "range" -> << <<OpGt + OpEq, operand[1]>>, <<OpLt + OpEq, operand[2]>> >>

Pairs(name, operand) ==
  IF name = "range"
  THEN << <<OpGt + OpEq, operand[1]>>, <<OpAnd + OpLt + OpEq, operand[2]>> >>
  ELSE << <<CASE name = "eq" -> OpEq
              [] name = "lt" -> OpLt
              [] name = "le" -> OpLt + OpEq
              [] name = "gt" -> OpGt
              [] name = "ge" -> OpGt + OpEq, operand>> >>

(* numeric_pairs, and what it refuses: an item of no operator or of two.   *)
NumericPairs(item) ==
  FlattenSeq([i \in DOMAIN Comparisons |->
    IF Comparisons[i] \in DOMAIN item
    THEN Pairs(Comparisons[i], item[Comparisons[i]]) ELSE << >>])

OneOperator(item) == Len(NumericPairs(item)) = (IF "range" \in DOMAIN item THEN 2 ELSE 1)

(* validate_domains: the highest value of each numeric component.          *)
Highest(t) ==
  CASE t \in {3, 7, 8} -> <<255>>
    [] t \in {4, 5, 6, 10} -> <<255, 255>>
    [] t = 11 -> <<63>>
    [] t = 13 -> <<15, 255, 255>>

DomainsHold(r) ==
  \A t \in DOMAIN r.parts :
    IF t \in PrefixTypes THEN ~ HostBits(r.parts[t])
    ELSE t \in NumericTypes =>
      \A i \in DOMAIN r.parts[t] :
        /\ OneOperator(r.parts[t][i])
        /\ \A p \in Range(NumericPairs(r.parts[t][i])) : ~ Less(Highest(t), p[2])

(* What parse_route asks of a rule before it is encoded.                   *)
Passes(r) == r.expect = "valid" => DomainsHold(r) /\ r.hex = "absent"

-----------------------------------------------------------------------------
(* value_bytes: the length code of the narrowest of 1, 2, 4 and 8 octets,  *)
(* and the value in that many.                                             *)
LenCode(v) == CASE Len(v) = 1 -> 0 [] Len(v) = 2 -> 1 [] Len(v) \in 3 .. 4 -> 2 [] OTHER -> 3

ValueBytes(v) == [i \in 1 .. 2 ^ LenCode(v) - Len(v) |-> 0] \o v

Operation(bits, v, i, count) ==
  <<(IF i = count THEN OpEnd ELSE 0) + bits + 16 * LenCode(v)>> \o ValueBytes(v)

Octets(bits) == (bits + 7) \div 8

(* Slip: no offset octet in an IPv6 prefix.                                *)
PrefixWithoutOffset(t, p) == <<t, p.bits>> \o SubSeq(p.addr, 1, Octets(p.bits))

(* encode_prefix.                                                          *)
PrefixComponent(t, p) ==
  <<t, p.bits>> \o (IF p.v6 THEN <<0>> ELSE << >>) \o SubSeq(p.addr, 1, Octets(p.bits))

(* Slip: the list of src_port under the type of dst_port.                  *)
SourcePortAsDestination(t, items) ==
  LET pairs == FlattenSeq([i \in DOMAIN items |-> NumericPairs(items[i])])
  IN <<IF t = 6 THEN 5 ELSE t>> \o FlattenSeq([i \in DOMAIN pairs |->
       Operation(pairs[i][1], pairs[i][2], i, Len(pairs))])

(* encode_numeric.                                                         *)
NumericComponent(t, items) ==
  LET pairs == FlattenSeq([i \in DOMAIN items |-> NumericPairs(items[i])])
  IN <<t>> \o FlattenSeq([i \in DOMAIN pairs |->
       Operation(pairs[i][1], pairs[i][2], i, Len(pairs))])

(* TCP_FLAG_NAMES and FRAGMENT_FLAG_NAMES: the bit of a name is its place. *)
FlagNames(t) ==
  IF t = 9 THEN <<"fin", "syn", "rst", "psh", "ack", "urg", "ece", "cwr">>
  ELSE <<"dont-fragment", "is-fragment", "first-fragment", "last-fragment">>

NamedBits(t, names) == {i - 1 : i \in {j \in DOMAIN FlagNames(t) : FlagNames(t)[j] \in names}}

HasBit(octet, bit) == (octet \div bit) % 2 = 1

NamedValue(t, names) ==
  CHOOSE n \in Octet : \A b \in 0 .. 7 : HasBit(n, 2 ^ b) <=> b \in NamedBits(t, names)

(* resolve_flags.                                                          *)
Known(t, item) == "names" \in DOMAIN item => item.names \subseteq Range(FlagNames(t))

ResolveFlags(t, item) ==
  IF "names" \in DOMAIN item THEN <<NamedValue(t, item.names)>> ELSE item.flags

(* encode_bitmask, and its limit of octets.                                *)
BitmaskComponent(t, items) ==
  <<t>> \o FlattenSeq([i \in DOMAIN items |->
    Operation((IF items[i].match THEN 1 ELSE 0) + (IF items[i].negate THEN 2 ELSE 0),
              ResolveFlags(t, items[i]), i, Len(items))])

MaxOctets(t) == IF t = 9 THEN 2 ELSE 1

Encodable(r, t) ==
  CASE t \in PrefixTypes -> r.parts[t].v6 = V6(r)
    [] t \in BitmaskTypes ->
         \A i \in DOMAIN r.parts[t] :
           /\ Known(t, r.parts[t][i])
           /\ 2 ^ LenCode(ResolveFlags(t, r.parts[t][i])) <= MaxOctets(t)
    [] OTHER ->
         /\ \A i \in DOMAIN r.parts[t] : OneOperator(r.parts[t][i])
         /\ t = FlowLabel => V6(r)

(* The length octets: one below 240, else 0xF0 and the upper four bits     *)
(* over two.  Slip: one octet up to 240.                                   *)
LengthOctetsTo240(n) == IF n <= 240 THEN <<n>> ELSE <<240 + n \div 256, n % 256>>

LengthOctets(n) == IF n < 240 THEN <<n>> ELSE <<240 + n \div 256, n % 256>>

MaxNlri == 4096

Framable(n) == n # 0 /\ n < MaxNlri

-----------------------------------------------------------------------------
(* split_nlri: the length that an NLRI announces, and what follows it.     *)
SplitLength(n) == IF n[1] >= 240 THEN (n[1] % 16) * 256 + n[2] ELSE n[1]

SplitValue(n) == IF n[1] >= 240 THEN SubSeq(n, 3, Len(n)) ELSE Tail(n)

Data == SplitValue(nlri)

MaxBits == IF V6(rule) THEN 128 ELSE 32

Width(op) == 2 ^ ((op \div 16) % 4)

(* Where first_violation has no objection: to the type, the prefix or the  *)
(* operator at the reader's position.                                      *)
TypeIntact ==
  LET t == Data[pos + 1]
  IN t \in Types /\ t \notin DOMAIN found /\ t >= last /\ (t = FlowLabel => V6(rule))

PrefixHead == IF V6(rule) THEN 2 ELSE 1

PrefixIntact ==
  /\ pos + PrefixHead <= Len(Data)
  /\ Data[pos + 1] <= MaxBits
  /\ pos + PrefixHead + Octets(Data[pos + 1]) <= Len(Data)

OperatorIntact == pos < Len(Data) /\ pos + 1 + Width(Data[pos + 1]) <= Len(Data)

Intact ==
  CASE reading = "type" -> pos < Len(Data) => TypeIntact
    [] reading = "prefix" -> PrefixIntact
    [] reading = "operators" -> OperatorIntact
-----------------------------------------------------------------------------
Init ==
  /\ rule \in Rules
  /\ phase = "validate"
  /\ at = 1
  /\ comps = << >>
  /\ nlri = << >>
  /\ pos = 0
  /\ last = 0
  /\ reading = "type"
  /\ found = << >>

Validate ==
  /\ phase = "validate"
  /\ Passes(rule) /\ FamilyKnown(rule)
  /\ phase' = "encode"
  /\ UNCHANGED <<rule, encodeVars, readVars>>

RefuseRule ==
  /\ phase = "validate"
  /\ ~ (Passes(rule) /\ FamilyKnown(rule))
  /\ phase' = "refused"
  /\ UNCHANGED <<rule, encodeVars, readVars>>

Encoding(kind) == phase = "encode" /\ at \in kind

Appends(octets) ==
  /\ at \in DOMAIN rule.parts
  /\ Encodable(rule, at)
  /\ comps' = comps \o octets
  /\ at' = at + 1
  /\ UNCHANGED <<rule, phase, nlri, readVars>>

EncodePrefix ==
  Encoding(PrefixTypes) /\ Appends(PrefixComponent(at, rule.parts[at]))

EncodeNumeric ==
  Encoding(NumericTypes) /\ Appends(NumericComponent(at, rule.parts[at]))

EncodeBitmask ==
  Encoding(BitmaskTypes) /\ Appends(BitmaskComponent(at, rule.parts[at]))

EncodeNothing ==
  /\ Encoding(Types \ DOMAIN rule.parts)
  /\ at' = at + 1
  /\ UNCHANGED <<rule, phase, comps, nlri, readVars>>

RefuseComponent ==
  /\ Encoding(DOMAIN rule.parts)
  /\ ~ Encodable(rule, at)
  /\ phase' = "refused"
  /\ UNCHANGED <<rule, encodeVars, readVars>>

(* raw_components_hex, verbatim behind the typed components.               *)
AppendRaw ==
  /\ Encoding({14})
  /\ rule.hex # "malformed"
  /\ comps' = comps \o rule.raw
  /\ at' = 15
  /\ UNCHANGED <<rule, phase, nlri, readVars>>

RefuseRaw ==
  /\ Encoding({14})
  /\ rule.hex = "malformed"
  /\ phase' = "refused"
  /\ UNCHANGED <<rule, encodeVars, readVars>>

Frame ==
  /\ Encoding({15})
  /\ Framable(Len(comps))
  /\ nlri' = LengthOctets(Len(comps)) \o comps
  /\ phase' = "read"
  /\ UNCHANGED <<rule, at, comps, readVars>>

RefuseSize ==
  /\ Encoding({15})
  /\ ~ Framable(Len(comps))
  /\ phase' = "refused"
  /\ UNCHANGED <<rule, encodeVars, readVars>>

EncodeNext ==
  \/ Validate \/ RefuseRule
  \/ EncodePrefix \/ EncodeNumeric \/ EncodeBitmask \/ EncodeNothing \/ RefuseComponent
  \/ AppendRaw \/ RefuseRaw
  \/ Frame \/ RefuseSize

-----------------------------------------------------------------------------
(* first_violation, one type, prefix or operator at a time.                *)
Reading(what) == phase = "read" /\ reading = what /\ Intact

ReadType ==
  /\ Reading("type")
  /\ pos < Len(Data)
  /\ LET t == Data[pos + 1]
     IN /\ last' = t
        /\ found' = [u \in DOMAIN found \cup {t} |-> IF u = t THEN pos + 1 ELSE found[u]]
        /\ reading' = IF t \in PrefixTypes THEN "prefix" ELSE "operators"
  /\ pos' = pos + 1
  /\ UNCHANGED <<rule, phase, encodeVars>>

ReadPrefix ==
  /\ Reading("prefix")
  /\ pos' = pos + PrefixHead + Octets(Data[pos + 1])
  /\ reading' = "type"
  /\ UNCHANGED <<rule, phase, encodeVars, last, found>>

ReadOperator ==
  /\ Reading("operators")
  /\ pos' = pos + 1 + Width(Data[pos + 1])
  /\ reading' = IF Data[pos + 1] >= OpEnd THEN "type" ELSE "operators"
  /\ UNCHANGED <<rule, phase, encodeVars, last, found>>

Object ==
  /\ phase = "read"
  /\ ~ Intact
  /\ phase' = "violated"
  /\ UNCHANGED <<rule, encodeVars, readVars>>

ReadEnd ==
  /\ Reading("type")
  /\ pos >= Len(Data)
  /\ phase' = "wellformed"
  /\ UNCHANGED <<rule, encodeVars, readVars>>

ReadNext == ReadType \/ ReadPrefix \/ ReadOperator \/ Object \/ ReadEnd

Next == EncodeNext \/ ReadNext

Spec == Init /\ [][Next]_vars
-----------------------------------------------------------------------------
Framed == phase \in {"read", "wellformed", "violated"}

(* Where the octets of the typed components end.                           *)
Typed == Len(comps) - Len(rule.raw)

(* The harness splits off what the encoder framed: the announced length is *)
(* that of the components, in the one-octet form, the two-octet form and   *)
(* at the boundary between them, and an NLRI too long for either was       *)
(* refused.                                                                *)
SplitUndoesFraming == Framed => SplitLength(nlri) = Len(Data) /\ Data = comps

(* Typed fields cannot express a violation of RFC 8955: whatever the rule, *)
(* valid or skip, a rule without raw octets is well-formed; and behind raw *)
(* octets only they are ever found at fault, since the reader gets exactly *)
(* to where they begin ("this is the only way to express RFC violations    *)
(* the typed fields refuse").                                              *)
OnlyRawViolates ==
  phase = "violated" => rule.hex = "octets" /\ pos >= Typed

(* The reader finds the components of the rule and no others: between two  *)
(* components, up to the end of the typed ones, the types it has seen are  *)
(* those of the rule up to the last, and at their end all of them.         *)
ComponentsAreRecovered ==
  Framed /\ reading = "type" /\ pos <= Typed =>
    /\ DOMAIN found = {t \in DOMAIN rule.parts : t <= last}
    /\ pos = Typed => DOMAIN found = DOMAIN rule.parts

-----------------------------------------------------------------------------
(* What an operator list on the wire means (RFC 8955 section 4.2.1): AND   *)
(* binds tighter than OR, so the list is a disjunction of the runs that    *)
(* its operators without the AND bit begin.                                *)
Significant(octets) ==
  LET rest == {i \in DOMAIN octets : octets[i] # 0}
  IN IF rest = {} THEN <<0>> ELSE SubSeq(octets, Min(rest), Len(octets))

OperatorsFrom(octets, from) ==
  LET next[p \in from .. Len(octets)] == p + 1 + Width(octets[p + 1])
      starts[i \in 0 .. Len(octets)] == IF i = 0 THEN from ELSE next[starts[i - 1]]
      count == CHOOSE n \in 1 .. Len(octets) :
                 /\ octets[starts[n - 1] + 1] >= OpEnd
                 /\ \A m \in 1 .. n - 1 : octets[starts[m - 1] + 1] < OpEnd
  IN [i \in 1 .. count |->
       [op |-> octets[starts[i - 1] + 1],
        value |-> Significant(SubSeq(octets, starts[i - 1] + 2, next[starts[i - 1]]))]]

Holds(operator, x) ==
  \/ HasBit(operator.op, OpLt) /\ Less(x, operator.value)
  \/ HasBit(operator.op, OpGt) /\ Less(operator.value, x)
  \/ HasBit(operator.op, OpEq) /\ x = operator.value

Bits(v) ==
  {8 * (Len(v) - b[1]) + b[2] : b \in {c \in (DOMAIN v) \X (0 .. 7) : HasBit(v[c[1]], 2 ^ c[2])}}

BitsHold(operator, x) ==
  LET common == Bits(operator.value) \cap Bits(x)
      meets == IF HasBit(operator.op, 1) THEN common = Bits(operator.value) ELSE common # {}
  IN IF HasBit(operator.op, 2) THEN ~ meets ELSE meets

Satisfies(operators, x, Test(_, _)) ==
  \E i \in DOMAIN operators :
    /\ i > 1 => ~ HasBit(operators[i].op, OpAnd)
    /\ Test(operators[i], x)
    /\ \A j \in i + 1 .. Len(operators) :
         (\A k \in i + 1 .. j : HasBit(operators[k].op, OpAnd)) => Test(operators[j], x)

(* What an item of the rule means.                                         *)
Means(item, x) ==
  CASE DOMAIN item = {"eq"} -> x = item.eq
    [] DOMAIN item = {"lt"} -> Less(x, item.lt)
    [] DOMAIN item = {"le"} -> ~ Less(item.le, x)
    [] DOMAIN item = {"gt"} -> Less(item.gt, x)
    [] DOMAIN item = {"ge"} -> ~ Less(x, item.ge)
    [] DOMAIN item = {"range"} -> ~ Less(x, item.range[1]) /\ ~ Less(item.range[2], x)

BitsMean(t, item, x) ==
  LET wanted == IF "names" \in DOMAIN item THEN NamedBits(t, item.names) ELSE Bits(item.flags)
  IN (IF item.match THEN wanted \subseteq Bits(x) ELSE wanted \cap Bits(x) # {}) # item.negate

(* "items in a list are ORed together (range produces a >= a AND <= b      *)
(* pair)": the octets of a list match a field exactly when one of the      *)
(* items of the rule does, wherever in the list the ranges stand and       *)
(* whatever the widths of the operands.                                    *)
ListsMeanTheirItems ==
  phase = "wellformed" /\ rule.raw = << >> =>
    \A t \in DOMAIN found \ PrefixTypes :
      LET operators == OperatorsFrom(Data, found[t])
          items == Range(rule.parts[t])
      IN \A x \in Samples :
           IF t \in BitmaskTypes
           THEN Satisfies(operators, x, BitsHold) = \E item \in items : BitsMean(t, item, x)
           ELSE Satisfies(operators, x, Holds) = \E item \in items : Means(item, x)
=============================================================================
