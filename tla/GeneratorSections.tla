-------------------------- MODULE GeneratorSections -------------------------
(***************************************************************************)
(* What generate_profile of src/generator.rs pushes for each               *)
(* configuration: its sections, record by record, in the order of the      *)
(* code.  Of a record the sections keep its MRT type, whether it has a     *)
(* microsecond field, the class it is pushed with and, for TABLE_DUMP_V2,  *)
(* the peers it declares or the highest peer index it refers to.  Body     *)
(* sizes are a constant per type: every run of CorpusBuilder is sound for  *)
(* any of them.                                                            *)
(***************************************************************************)
EXTENDS MrtFraming, Sequences

CONSTANTS
  BodyLen,        \* the size of a body, by MRT type
  U16Max,         \* 65535, the limit of the count and index fields
  Keepalives      \* 100000 in emit_stress

BadPeerIndex == 99      \* invalid::rib_bad_peer_index(ts, 950, 99)

ASSUME SectionsAssumption ==
  /\ BodyLen \in [MrtTypes -> Nat]
  /\ U16Max \in Nat /\ U16Max > BadPeerIndex
  /\ Keepalives \in Nat

Case(type, class, us, table, top) ==
  [rec |-> [type |-> type, us |-> us, body |-> BodyLen[type],
            content |-> [table |-> table, top |-> top], declared |-> Computed],
   expect |-> class, raw |-> FALSE, keep |-> 0]

PeerTable(class, peers) == Case("TABLE_DUMP_V2", class, FALSE, peers, NoPeer)
Rib(class, top)         == Case("TABLE_DUMP_V2", class, FALSE, NoPeer, top)
Plain(type, class)      == Case(type, class, FALSE, NoPeer, NoPeer)
Et(type, class)         == Case(type, class, TRUE, NoPeer, NoPeer)

Times(k, case) == [i \in 1 .. k |-> case]
When(cond, section) == IF cond THEN section ELSE << >>

-----------------------------------------------------------------------------
CorpusPeers == 4        \* corpus_peers()

EmitValidTables ==
  <<PeerTable("valid", CorpusPeers)>>
  \o Times(4, Rib("valid", 1))                     \* IPv4: entries 0 and 1
  \o Times(4, Rib("valid", 2))                     \* IPv6: entry 2
  \o Times(2, Rib("valid", 1))                     \* RIB_GENERIC, _ADDPATH
  \o <<Rib("valid", 1), Rib("valid", 2)>>          \* VPNv4, VPNv6

EmitValidMessages ==
  Times(2, Plain("TABLE_DUMP", "valid"))
  \o Times(2, Plain("BGP4MP", "valid"))            \* state changes
  \o Times(4, Plain("BGP4MP", "valid"))            \* the four message types
  \o Times(7, Plain("BGP4MP", "valid"))            \* AS4, LOCAL, ADDPATH
  \o <<Plain("BGP4MP", "valid"), Et("BGP4MP_ET", "valid")>>

EmitValidIgp ==
  <<Plain("OSPFV2", "valid"), Plain("OSPFV3", "valid"), Et("OSPFV3_ET", "valid"),
    Plain("ISIS", "valid"), Et("ISIS_ET", "valid")>>

EmitValid == EmitValidTables \o EmitValidMessages \o EmitValidIgp

EmitSkipMessages ==
  <<Plain("UNKNOWN", "skip"), Rib("skip", NoPeer), Plain("BGP4MP", "skip")>>
  \o Times(6, Plain("BGP4MP", "skip"))             \* wrong attribute sizes
  \o Times(2, Plain("BGP4MP", "skip"))             \* duplicate, TLV overrun
  \o Times(5, Plain("BGP4MP", "skip"))             \* broken BGP headers

EmitSkipTables ==
  <<Rib("skip", 0), Rib("skip", 0), Rib("skip", 2), Rib("skip", 0), Rib("skip", 0),
    PeerTable("skip", 10), Plain("TABLE_DUMP", "skip")>>

EmitSkip == EmitSkipMessages \o EmitSkipTables

EmitComboLegal ==
  Times(3, Rib("valid", 1)) \o <<Rib("valid", 2), Rib("valid", 1),
    Plain("BGP4MP", "valid")>> \o Times(2, Rib("valid", 1))

EmitComboIllegal == Times(6, Rib("skip", 1)) \o Times(2, Plain("BGP4MP", "skip"))

EmitCombo == EmitComboLegal \o EmitComboIllegal

EmitAttrErrors ==
  Times(4, Plain("BGP4MP", "skip"))                \* AS_PATH segments
  \o <<Plain("BGP4MP", "valid")>>                  \* AS4_PATH longer
  \o Times(9, Plain("BGP4MP", "skip"))             \* flags, MP_*, sizes
  \o <<Plain("BGP4MP", "valid"),                   \* unknown, transitive
       Plain("BGP4MP", "skip"), Rib("skip", BadPeerIndex),
       Plain("BGP4MP_ET", "skip")>>                \* too short for the field

EmitIgpEdgeCases(valid) ==
  IF valid
  THEN Times(4, Plain("OSPFV2", "valid")) \o Times(4, Plain("OSPFV3", "valid"))
       \o Times(9, Plain("ISIS", "valid"))
  ELSE <<Plain("OSPFV2", "skip"), Plain("OSPFV3", "skip"),
         Plain("ISIS", "skip"), Plain("ISIS", "skip")>>

EmitEdgeValid ==
  <<PeerTable("valid", 0), Rib("valid", NoPeer)>>  \* no peers, no entries
  \o Times(5, Rib("valid", 0))                     \* IPv4 prefix lengths
  \o <<Rib("valid", 2)>>                           \* IPv6 /127
  \o Times(5, Plain("BGP4MP", "valid"))            \* UPDATE forms, 4096 octets
  \o Times(2, Rib("valid", 0))                     \* attribute sizes 255, 256
  \o Times(10, Et("BGP4MP_ET", "valid"))           \* every subtype
  \o EmitIgpEdgeCases(TRUE)

EmitEdgeSkip ==
  Times(12, Plain("BGP4MP", "skip"))               \* messages, NLRI, attributes
  \o <<PeerTable("skip", 1), Rib("skip", 0), Et("BGP4MP_ET", "skip")>>
  \o EmitIgpEdgeCases(FALSE)

EmitEdgeCases(valid, skip) == When(valid, EmitEdgeValid) \o When(skip, EmitEdgeSkip)

EmitStress(valid, skip) ==
  When(valid,
       Times(Keepalives, Plain("BGP4MP", "valid"))
       \o <<PeerTable("valid", U16Max), Rib("valid", U16Max - 1),
            Rib("valid", 0), Rib("valid", 0)>>)
  \o When(skip, Times(8, Plain("BGP4MP", "skip")))

-----------------------------------------------------------------------------
(* A tail is the encoding of an empty-handed BGP4MP record, cut or lied    *)
(* about: invalid::tail_length_overruns_eof and tail_truncated_header.     *)
FatalTail(body, declared, keep) ==
  [rec |-> [type |-> "BGP4MP", us |-> FALSE, body |-> body,
            content |-> [table |-> NoPeer, top |-> NoPeer], declared |-> declared],
   expect |-> "abort", raw |-> TRUE, keep |-> keep]

TailLengthOverrunsEof(declared, actual) == FatalTail(actual, declared, HeaderLen + actual)
TailTruncatedHeader(keep) == FatalTail(0, Computed, keep)

FatalKinds == {"length_overruns_eof", "truncated_header", "huge_length"}

EmitFatal(fatal) ==
  CASE fatal = "length_overruns_eof" -> <<TailLengthOverrunsEof(1000, 16)>>
    [] fatal = "truncated_header"    -> <<TailTruncatedHeader(7)>>
    [] fatal = "huge_length"         -> <<TailLengthOverrunsEof(U32 - 1, 8)>>
    [] OTHER                         -> << >>

(* Slip: the combinations before the peer table they refer to.             *)
HistoricComboFirst(c) ==
  When(c.combo, EmitCombo) \o When(c.valid, EmitValid) \o When(c.skip, EmitSkip)
  \o When(c.attr_errors, EmitAttrErrors)

(* generate_profile: the sections switched on, the boundary cases always   *)
(* called, the tail last.                                                  *)
Historic(c) ==
  When(c.valid, EmitValid) \o When(c.skip, EmitSkip)
  \o When(c.combo, EmitCombo) \o When(c.attr_errors, EmitAttrErrors)

GenerateProfile(c) ==
  Historic(c) \o EmitEdgeCases(c.valid, c.skip)
  \o When(c.profile = "stress", EmitStress(c.valid, c.skip))
  \o EmitFatal(c.fatal)

GeneratorConfigs(bases, builds) ==
  [base : bases, checks : builds, valid : BOOLEAN, skip : BOOLEAN,
   combo : BOOLEAN, attr_errors : BOOLEAN, profile : {"standard", "stress"},
   fatal : FatalKinds \cup {"none"}]
=============================================================================
