--------------------------- MODULE MCRouteCompiler --------------------------
(***************************************************************************)
(* Route lists of up to MaxRoutes routes, each a plain IPv4 route or one   *)
(* that differs from it where parse_route or an encoder decides: every     *)
(* check is met from both sides, every size limit to the octet.            *)
(***************************************************************************)
EXTENDS RouteCompiler

CONSTANT MaxRoutes

Plain ==
  [expect |-> "valid", carries |-> {"prefix"}, v6 |-> FALSE, bits |-> 24,
   canonical |-> TRUE, parses |-> TRUE, nexthop |-> "v4", rd |-> FALSE,
   label |-> FALSE, actions |-> FALSE, asns |-> 1, extras |-> << >>, flow |-> 0,
   pathId |-> FALSE]

Skipped == [Plain EXCEPT !.expect = "skip"]
Six     == [Plain EXCEPT !.v6 = TRUE, !.bits = 128, !.nexthop = "v6"]
Rule    == [Plain EXCEPT !.carries = {"flowspec"}, !.bits = 0, !.nexthop = "none", !.flow = 5]

(* 20 octets are left for one extra attribute of a TABLE_DUMP_V2 route,    *)
(* 47 around it in a BGP UPDATE; its own header takes four.                *)
Sized == {[Plain EXCEPT !.extras = <<size>>] :
            size \in {255, 256, 4045, 4046, 65511, 65512, 65536}}

Pathed == {[r EXCEPT !.asns = k] : r \in {Plain, Skipped}, k \in {0, 255, 256}}

Ruled == {[Rule EXCEPT !.flow = size] : size \in {0, 239, 240, 4095, 4096}}

Refusals == {
  [Plain EXCEPT !.expect = "abort"],
  [Plain EXCEPT !.carries = {}],
  [Plain EXCEPT !.canonical = FALSE],
  [Plain EXCEPT !.parses = FALSE],
  [Plain EXCEPT !.bits = 33],
  [Plain EXCEPT !.nexthop = "none"],
  [Plain EXCEPT !.nexthop = "v6"],
  [Plain EXCEPT !.label = TRUE],
  [Plain EXCEPT !.actions = TRUE],
  [Rule EXCEPT !.rd = TRUE] }

Variants == {
  [Skipped EXCEPT !.canonical = FALSE],
  [Skipped EXCEPT !.asns = 16400],
  [Plain EXCEPT !.pathId = TRUE],
  [Plain EXCEPT !.rd = TRUE, !.label = TRUE],
  Six,
  [Six EXCEPT !.rd = TRUE, !.pathId = TRUE],
  Rule,
  [Rule EXCEPT !.v6 = TRUE, !.actions = TRUE, !.pathId = TRUE] }

Catalogue == {Plain} \cup Sized \cup Pathed \cup Ruled \cup Refusals \cup Variants

MCRouteLists == UNION {[1 .. k -> Catalogue] : k \in 0 .. MaxRoutes}
MCFormats == {"td2", "bgp4mp"}
MCBases == {0, U32 - 1}
MCBuilds == BOOLEAN
=============================================================================
