------------------------------ MODULE MCCliRun ------------------------------
(***************************************************************************)
(* Two runs over one directory: the command lines below in every order.    *)
(***************************************************************************)
EXTENDS CliRun

MCKinds == Range(FatalKinds)

(* corpus.mrt and its default manifest, a manifest of another name, and    *)
(* the pairs of the fatal directory.                                       *)
MCFiles == {"corpus.mrt", "corpus.mrt.manifest.json", "m.json"}
           \cup {k \o ".mrt" : k \in MCKinds} \cup {k \o ".json" : k \in MCKinds}

MCManifestBeside == [p \in MCFiles |-> "corpus.mrt.manifest.json"]
MCFatalMrt == [d \in {"fatal"} |-> [k \in MCKinds |-> k \o ".mrt"]]
MCFatalManifest == [d \in {"fatal"} |-> [k \in MCKinds |-> k \o ".json"]]

Line == [parses |-> "args", out |-> "corpus.mrt", manifest |-> NoFile,
         sections |-> "all", base |-> "early", fatal |-> "none", fatalDir |-> NoFile,
         profile |-> "standard", routes |-> NoFile]

(* run-docker.sh's own, and the combinations that share its files, or that *)
(* name one of its own files twice.                                        *)
MCCommandLines ==
  {Line,
   [Line EXCEPT !.fatalDir = "fatal"],
   [Line EXCEPT !.sections = "no-skip", !.fatalDir = "fatal"],
   [Line EXCEPT !.base = "late", !.fatalDir = "fatal"],
   [Line EXCEPT !.manifest = "m.json", !.profile = "stress"],
   [Line EXCEPT !.fatal = "huge_length", !.fatalDir = "fatal"],
   [Line EXCEPT !.fatal = "huge_length", !.fatalDir = "fatal", !.out = "huge_length.mrt"],
   [Line EXCEPT !.manifest = "huge_length.mrt", !.fatalDir = "fatal"],
   [Line EXCEPT !.routes = "good.json"],
   [Line EXCEPT !.routes = "bad.json"],
   [Line EXCEPT !.routes = "good.json", !.fatalDir = "fatal"],
   [Line EXCEPT !.routes = "good.json", !.profile = "stress"],
   [Line EXCEPT !.parses = "help"],
   [Line EXCEPT !.parses = "error"]}

(* base "late": a base timestamp that overflows on the record of the tail.      *)
MCUnbuildable ==
  {Corpus([Line EXCEPT !.routes = "bad.json"], "none")}
  \cup {Corpus([Line EXCEPT !.base = "late"], k) : k \in MCKinds}
=============================================================================
