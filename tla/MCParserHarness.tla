--------------------------- MODULE MCParserHarness --------------------------
(***************************************************************************)
(* Three runs over one directory of two versions that differ in a fatal    *)
(* kind and a skip case, with every failure and every kill; the last of    *)
(* the three finds what two others left.                                   *)
(***************************************************************************)
EXTENDS ParserHarness

MCAllKinds == {"k1", "k2"}
MCVersions == {[fatal |-> {"k1"}, skips |-> {"k2"}], [fatal |-> {"k1", "k2"}, skips |-> {"k1"}]}
MCRouteFiles == {"routes"}
MCKnown == {"mrtparse", "bgpdump"}
MCSelections == {<<"mrtparse", "bgpdump">>, <<"mrtparse", "typo", "bgpdump">>}
=============================================================================
