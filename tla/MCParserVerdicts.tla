--------------------------- MODULE MCParserVerdicts -------------------------
(***************************************************************************)
(* Every runner with two kinds, each with and without a recovery corpus    *)
(* and a baseline entry, a fatal file and a rule of every class.  The      *)
(* further tails of bgpdump are left out: run_one judges them like the     *)
(* first, and each would multiply the states by six.                       *)
(***************************************************************************)
EXTENDS ParserVerdicts

MCKinds == {"k1", "k2"}
MCFatals == {"fatal"}
MCCutFatals == {}
MCRules ==
  {[class |-> c, intact |-> TRUE] : c \in Classes} \cup {[class |-> "raw", intact |-> FALSE]}
=============================================================================
