------------------------- MODULE MCGeneratedCorpus --------------------------
(***************************************************************************)
(* GeneratedCorpus for every configuration of the generator (all switches, *)
(* both profiles, every tail), and for every program of at most MaxPushes  *)
(* records built from a few shapes: bodies of size 0, 1 and 12 (the size   *)
(* of a header), with and without microseconds, valid and skip, and every  *)
(* abort-class tail that generator.rs knows, at its real sizes.            *)
(***************************************************************************)
EXTENDS GeneratedCorpus, SequencesExt

CONSTANTS
  MaxPushes,
  Bases       \* base timestamps of the short programs

MCGenerated == GeneratorConfigs({0}, {FALSE})

(* A body per type, in sizes that tell the types apart.                    *)
MCBodyLen ==
  [t \in MrtTypes |->
     CASE t = "TABLE_DUMP_V2" -> 9 [] t = "BGP4MP" -> 7 [] t = "BGP4MP_ET" -> 2
       [] t = "UNKNOWN" -> 4 [] OTHER -> 5]

Rec(us, body, declared) ==
  [type |-> IF us THEN "BGP4MP_ET" ELSE "BGP4MP", us |-> us, body |-> body,
   content |-> [table |-> NoPeer, top |-> NoPeer], declared |-> declared]

Pushes ==
  {[rec |-> Rec(us, body, Computed), expect |-> x, raw |-> FALSE, keep |-> 0] :
     us \in BOOLEAN, body \in {0, 1, 12}, x \in {"valid", "skip"}}

Tails ==
  {[rec |-> Rec(FALSE, 16, 1000), expect |-> "abort", raw |-> TRUE, keep |-> 28],
   [rec |-> Rec(FALSE, 0, Computed), expect |-> "abort", raw |-> TRUE, keep |-> 7],
   [rec |-> Rec(FALSE, 8, U32 - 1), expect |-> "abort", raw |-> TRUE, keep |-> 20]}

Bodies == SeqOf(Pushes, MaxPushes)

Short ==
  {[base |-> b, checks |-> c, program |-> p \o t] :
     b \in Bases, c \in BOOLEAN, p \in Bodies, t \in {<< >>} \cup {<<x>> : x \in Tails}}

MCConfigs == MCGenerated \cup Short

MCProgram ==
  [c \in MCConfigs |-> IF c \in MCGenerated THEN GenerateProfile(c) ELSE c.program]
=============================================================================
