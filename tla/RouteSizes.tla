----------------------------- MODULE RouteSizes -----------------------------
(***************************************************************************)
(* RouteCompiler's arithmetic of sizes, without a list and without a run:  *)
(* its constants and variables are given values no size depends on.        *)
(***************************************************************************)
Compiler == INSTANCE RouteCompiler WITH
  U32 <- 65536, RouteLists <- {}, Formats <- {"td2", "bgp4mp"}, Bases <- {}, Builds <- {},
  job <- << >>, phase <- "parse", at <- 1, blame <- 0, bytes <- << >>, end <- 0, entries <- << >>, counts <- << >>

BodyOf(shape, format)   == Compiler!Body(shape, format)
Compiles(shape, format) ==
  Compiler!Accepts(shape) /\ ~Compiler!TooLarge(shape, format) /\ ~Compiler!Unwraps(shape, format)
=============================================================================
