--------------------------- MODULE GeneratedCorpus --------------------------
(***************************************************************************)
(* The corpus the generator really builds: CorpusWalk with the program of  *)
(* GeneratorSections, and what its records mean to a parser that keeps the *)
(* last well-formed PEER_INDEX_TABLE it has met.                           *)
(***************************************************************************)
EXTENDS CorpusWalk, GeneratorSections, FiniteSetsExt

CONSTANT Generated     \* the configurations that generate_profile runs with

ASSUME GeneratedAssumption ==
  Generated \subseteq Configs /\ \A c \in Generated : Program[c] = GenerateProfile(c)

Finished == phase = "done" /\ cfg \in Generated

-----------------------------------------------------------------------------
(* The peers a parser knows when it reaches record i: those of the last    *)
(* PEER_INDEX_TABLE before it that it did not have to skip.                *)
TablesBefore(i) ==
  {j \in 1 .. i - 1 : bytes[j].content.table # NoPeer /\ entries[j].expect = "valid"}

PeersInForce(i) ==
  IF TablesBefore(i) = {} THEN 0 ELSE bytes[Max(TablesBefore(i))].content.table

Dangling(i) == bytes[i].content.top >= PeersInForce(i)

RefersToPeers(i) == bytes[i].content.top # NoPeer

ValidRibs == {i \in 1 .. Len(entries) : entries[i].expect = "valid" /\ RefersToPeers(i)}

(* The records emit_edge_cases pushed.                                     *)
BoundaryRecords ==
  Len(Historic(cfg)) + 1 .. Len(Historic(cfg)) + Len(EmitEdgeCases(cfg.valid, cfg.skip))

(* What a RIB entry refers to is what its class says, however the sections *)
(* are switched.  As long as the well-formed records are in the corpus,    *)
(* every valid RIB entry of the historic sections and of the stress        *)
(* section names a peer of the table in force when a parser reaches it     *)
(* (generate_profile puts emit_valid's table first, and emit_stress brings *)
(* its own after the boundary cases left a table with no peers).  And the  *)
(* record pushed as skip-class because its peer index does not exist is    *)
(* wrong in every corpus that holds it: no table in force there is so      *)
(* large that index 99 is legal (attr_rib_bad_peer_index must come before  *)
(* the 65535-peer table of the stress profile).                            *)
PeerIndicesMeanTheirClass ==
  Finished =>
    /\ cfg.valid => \A i \in ValidRibs \ BoundaryRecords : ~ Dangling(i)
    /\ \A i \in 1 .. Len(entries) :
         entries[i].expect = "skip" /\ bytes[i].content.top = BadPeerIndex => Dangling(i)

(* "The fixed peer table used by every TABLE_DUMP_V2 RIB record": in a     *)
(* corpus that has the well-formed records at all, every well-formed RIB   *)
(* entry names a peer of the table in force.                               *)
EveryValidRibResolves ==
  Finished /\ cfg.valid => \A i \in ValidRibs : ~ Dangling(i)

(* --no-valid omits the well-formed records, --no-skip the skip-class      *)
(* ones.                                                                   *)
FlagsMeanWhatTheySay ==
  Finished =>
    /\ ~ cfg.valid => counts["valid"] = 0
    /\ ~ cfg.skip => counts["skip"] = 0
=============================================================================
