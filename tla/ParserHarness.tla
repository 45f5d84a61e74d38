---------------------------- MODULE ParserHarness ---------------------------
(***************************************************************************)
(* tests/parsers/run-docker.sh: runs of the harness, one after another,    *)
(* over an output directory that stays.  A run generates the corpora,      *)
(* slices them, and starts the selected parsers on the directory; under    *)
(* set -e every step but those of the parsers ends the run when it fails,  *)
(* any step can fail and the script can be killed at any of them, in the   *)
(* middle of a file too.  Between two runs the program may have changed,   *)
(* and with it the fatal kinds and the skip cases it knows.                *)
(***************************************************************************)
EXTENDS Naturals, Sequences, SequencesExt, FiniteSets

CONSTANTS
  Versions,     \* versions of mrtgen: the kinds of fatal and of skip it has
  AllKinds,     \* the kinds of all of them
  RouteFiles,   \* the route-list outputs
  Selections,   \* the parsers asked for, a sequence
  Known,        \* the parsers that have a Dockerfile
  MaxRuns       \* bound: runs of the harness

ASSUME VersionsAssumption ==
  \A v \in Versions :
    v.fatal \subseteq AllKinds /\ v.fatal # {} /\ v.skips \subseteq AllKinds

ASSUME SelectionsAssumption ==
  \A s \in Selections : s \in Seq(Range(s)) /\ s # << >>

MainSlices == <<"valid", "bgp-valid", "bgp-corpus", "bgpdump-corpus">>

Dirs == {"fatal", "bgp-fatal", "bgpdump-fatal", "recovery"}

(* The route-list outputs have names of their own.                         *)
ASSUME FilesAssumption ==
  /\ IsFiniteSet(RouteFiles) /\ IsFiniteSet(AllKinds)
  /\ RouteFiles \cap ({"corpus"} \cup Range(MainSlices) \cup Dirs) = {}

(* A path is a pair of files, x.mrt and x.mrt.manifest.json.               *)
Paths == {<<"corpus">>} \cup {<<s>> : s \in Range(MainSlices)} \cup {<<f>> : f \in RouteFiles}
         \cup (Dirs \X AllKinds)

VARIABLES
  status,     \* "idle", "running", or how the last run ended: "passed" and
              \* "failed" are exit codes 0 and 1 of the parsers' verdict,
              \* "unknown" is 2, "aborted" an exit under set -e, or "killed"
  version,    \* the program it runs
  run,        \* the number of the run
  todo,       \* the steps that are left, in order
  disk,       \* what each path holds, for the file and for the manifest
  failures,   \* FAILURES: the parsers that failed
  ran,        \* the parsers whose containers were run to an end in this run
  asked       \* the selection of this run

vars == <<status, version, run, todo, disk, failures, ran, asked>>

-----------------------------------------------------------------------------
(* A generated file has the octets of one run; a slice those that a        *)
(* manifest cut out of a file, and its manifest is that one's excerpt.     *)
Absent == [is |-> "absent"]
Partial == [is |-> "partial"]
Generated(r) == [is |-> "generated", by |-> r]
Cut(mrt, manifest, r) == [is |-> "cut", from |-> mrt, with |-> manifest, by |-> r]

Whole(content) == content.is \in {"generated", "cut"}

(* File and manifest of a path were made together, from a pair that was.   *)
Matching(pair) ==
  LET mrt == pair.mrt man == pair.manifest
  IN /\ Whole(mrt) /\ Whole(man) /\ mrt = man
     /\ mrt.is = "cut" => mrt.from = mrt.with

OfThisRun(content) == Whole(content) /\ content.by = run

-----------------------------------------------------------------------------
Step(what, path) == [do |-> what, path |-> path]

(* cargo run -- --out: a file and then its manifest.                       *)
Produce(path) == <<Step("generate-mrt", path), Step("generate-manifest", path)>>

Slice(from, to) ==
  <<[do |-> "slice-mrt", path |-> to, from |-> from],
    [do |-> "slice-manifest", path |-> to, from |-> from]>>

SliceMain(i) == Slice(<<"corpus">>, <<MainSlices[i]>>)

(* for fatal in fatal/*.mrt: the files that are there when it is reached.  *)
Glob(dir) == [do |-> "glob", path |-> dir]

SliceFatals(dir) ==
  FlattenSeq(SetToSeq({Slice(<<"fatal", k>>, <<dir, k>>) :
    k \in {x \in AllKinds : disk[<<"fatal", x>>].mrt # Absent}}))

(* --fatal-dir: a pair for every fatal kind.                               *)
GenerateKinds(v) == FlattenSeq(SetToSeq({Produce(<<"fatal", k>>) : k \in v.fatal}))

MakeRecoveries(v) ==
  FlattenSeq(SetToSeq({Slice(<<"corpus">>, <<"recovery", k>>) : k \in v.skips}))

Parsers(selection) ==
  FlattenSeq([i \in DOMAIN selection |->
    <<Step("look-up", selection[i]), Step("build", selection[i]), Step("run", selection[i])>>])

(* Slip: a recovery directory that is not emptied.                         *)
ScriptKeepingRecoveries(v, selection) ==
  Produce(<<"corpus">>) \o GenerateKinds(v) \o SliceMain(1)
  \o FlattenSeq([i \in 1 .. Cardinality(RouteFiles) |-> Produce(<<SetToSeq(RouteFiles)[i]>>)])
  \o SliceMain(2) \o SliceMain(3) \o <<Glob("bgp-fatal")>>
  \o MakeRecoveries(v)
  \o SliceMain(4) \o <<Glob("bgpdump-fatal")>>
  \o Parsers(selection)

Script(v, selection) ==
  Produce(<<"corpus">>) \o GenerateKinds(v) \o SliceMain(1)
  \o FlattenSeq([i \in 1 .. Cardinality(RouteFiles) |-> Produce(<<SetToSeq(RouteFiles)[i]>>)])
  \o SliceMain(2) \o SliceMain(3) \o <<Glob("bgp-fatal")>>
  \o <<Step("remove", "recovery")>> \o MakeRecoveries(v)
  \o SliceMain(4) \o <<Glob("bgpdump-fatal")>>
  \o Parsers(selection)
-----------------------------------------------------------------------------
Init ==
  /\ status = "idle"
  /\ version \in Versions
  /\ run = 0
  /\ todo = << >>
  /\ disk = [p \in Paths |-> [mrt |-> Absent, manifest |-> Absent]]
  /\ failures = {}
  /\ ran = {}
  /\ asked \in Selections

(* A new run, perhaps of another version, over what is in the directory.   *)
Start(v, selection) ==
  /\ status # "running"
  /\ run < MaxRuns
  /\ status' = "running"
  /\ version' = v
  /\ run' = run + 1
  /\ todo' = Script(v, selection)
  /\ failures' = {}
  /\ ran' = {}
  /\ asked' = selection
  /\ UNCHANGED disk

At(steps) == status = "running" /\ todo # << >> /\ Head(todo).do \in steps

Advance == todo' = Tail(todo) /\ UNCHANGED <<status, version, run, asked>>

Holds(path, half, content) == disk' = [disk EXCEPT ![path][half] = content]

Half(step) == IF step \in {"generate-mrt", "slice-mrt"} THEN "mrt" ELSE "manifest"

Generate ==
  /\ At({"generate-mrt", "generate-manifest"})
  /\ Holds(Head(todo).path, Half(Head(todo).do), Generated(run))
  /\ Advance
  /\ UNCHANGED <<failures, ran>>

(* The manifest must be JSON; the file may be anything.                    *)
Readable(path) == disk[path].mrt # Absent /\ Whole(disk[path].manifest)

SliceFile ==
  /\ At({"slice-mrt", "slice-manifest"})
  /\ Readable(Head(todo).from)
  /\ LET source == disk[Head(todo).from]
     IN Holds(Head(todo).path, Half(Head(todo).do), Cut(source.mrt, source.manifest, run))
  /\ Advance
  /\ UNCHANGED <<failures, ran>>

(* Slip: a loop over a directory that it goes back to.                     *)
ExpandGlobAgain ==
  /\ At({"glob"})
  /\ todo' = SliceFatals(Head(todo).path) \o todo
  /\ UNCHANGED <<status, version, run, disk, failures, ran, asked>>

ExpandGlob ==
  /\ At({"glob"})
  /\ todo' = SliceFatals(Head(todo).path) \o Tail(todo)
  /\ UNCHANGED <<status, version, run, disk, failures, ran, asked>>

(* rm -rf "$OUT_DIR/recovery".                                             *)
RemoveRecoveries ==
  /\ At({"remove"})
  /\ disk' = [p \in Paths |-> IF p[1] = Head(todo).path
                             THEN [mrt |-> Absent, manifest |-> Absent] ELSE disk[p]]
  /\ Advance
  /\ UNCHANGED <<failures, ran>>

Ends(how) ==
  /\ status' = how
  /\ todo' = << >>
  /\ UNCHANGED <<version, run, failures, ran, asked>>

Writes == {"generate-mrt", "generate-manifest", "slice-mrt", "slice-manifest"}

(* A removal that was cut short: some of the files are gone.               *)
SomeRemoved(dir) ==
  \E gone \in SUBSET ({p \in Paths : p[1] = dir} \X {"mrt", "manifest"}) :
    disk' = [p \in Paths |->
      [mrt |-> IF <<p, "mrt">> \in gone THEN Absent ELSE disk[p].mrt,
       manifest |-> IF <<p, "manifest">> \in gone THEN Absent ELSE disk[p].manifest]]

(* The file that was being written is as it was, or emptied.               *)
Interrupted ==
  \/ UNCHANGED disk
  \/ At(Writes) /\ Holds(Head(todo).path, Half(Head(todo).do), Partial)
  \/ At({"remove"}) /\ SomeRemoved(Head(todo).path)

(* Slip: a failure that does not end the script.                           *)
StepPassedOver ==
  /\ At(Writes)
  /\ Interrupted
  /\ Advance
  /\ UNCHANGED <<failures, ran>>

(* set -e: a generator, a slicer or rm that fails ends the script.         *)
StepFails ==
  /\ At(Writes \cup {"remove"})
  /\ Interrupted
  /\ Ends("aborted")

Kill ==
  /\ status = "running"
  /\ Interrupted
  /\ Ends("killed")

-----------------------------------------------------------------------------
Parser == Head(todo).path

LookUp ==
  /\ At({"look-up"})
  /\ Parser \in Known
  /\ Advance
  /\ UNCHANGED <<disk, failures, ran>>

(* A parser without a Dockerfile: exit 2, whatever has failed before.      *)
UnknownParser ==
  /\ At({"look-up"})
  /\ Parser \notin Known
  /\ Ends("unknown")
  /\ UNCHANGED disk

Build ==
  /\ At({"build"})
  /\ Advance
  /\ UNCHANGED <<disk, failures, ran>>

(* Slip: a build that fails is only skipped.                               *)
BuildSkipped ==
  /\ At({"build"})
  /\ todo' = Tail(Tail(todo))
  /\ UNCHANGED <<status, version, run, disk, failures, ran, asked>>

BuildFails ==
  /\ At({"build"})
  /\ failures' = failures \cup {Parser}
  /\ todo' = Tail(Tail(todo))
  /\ UNCHANGED <<status, version, run, disk, ran, asked>>

Run ==
  /\ At({"run"})
  /\ ran' = ran \cup {Parser}
  /\ Advance
  /\ UNCHANGED <<disk, failures>>

RunFails ==
  /\ At({"run"})
  /\ ran' = ran \cup {Parser}
  /\ failures' = failures \cup {Parser}
  /\ Advance
  /\ UNCHANGED disk

(* exit 1 after the list of failures, if there is any.                     *)
Exit ==
  /\ status = "running"
  /\ todo = << >>
  /\ Ends(IF failures = {} THEN "passed" ELSE "failed")
  /\ UNCHANGED disk

Steps ==
  \/ Generate \/ SliceFile \/ ExpandGlob \/ RemoveRecoveries \/ StepFails
  \/ LookUp \/ UnknownParser \/ Build \/ BuildFails \/ Run \/ RunFails
  \/ Exit

Next ==
  \/ \E v \in Versions, selection \in Selections : Start(v, selection)
  \/ Steps
  \/ Kill

Spec == Init /\ [][Next]_vars

(* A script that was started runs on; nobody has to start one.             *)
FairSpec == Spec /\ WF_vars(Steps)
-----------------------------------------------------------------------------
(* The slices of the main pair are cut from this run's file by this run's  *)
(* manifest, both whole, at whatever point an earlier run was killed: the  *)
(* slicer itself would cut any file by any manifest, so this rests on the  *)
(* generator coming first and on set -e.                                   *)
MainSlicesMatch ==
  At({"slice-mrt", "slice-manifest"}) /\ Head(todo).from = <<"corpus">> =>
    /\ OfThisRun(disk[<<"corpus">>].mrt)
    /\ OfThisRun(disk[<<"corpus">>].manifest)

Running == At({"look-up", "build", "run"})

FatalSlices == {"bgp-fatal", "bgpdump-fatal"} \X AllKinds

(* What a parser's container finds in the mounted directory is this run's: *)
(* every main pair, slice and route list whole, matching and new, one      *)
(* recovery corpus for each skip case of this version and none besides,    *)
(* and new and matching fatal slices for every fatal kind of this version. *)
(* The directory is never emptied, so a runner may also find fatal slices  *)
(* of kinds that only another version has.  They are cut anew by this run  *)
(* from what that version left, which had a manifest that can be read (one *)
(* file in fatal/ without it stops every later run before its parsers);    *)
(* only among these is there a slice whose file and manifest do not match. *)
RunnersSeeThisRun ==
  Running =>
    /\ \A p \in Paths \ (Dirs \X AllKinds) : Matching(disk[p]) /\ OfThisRun(disk[p].mrt)
    /\ \A k \in AllKinds :
         IF k \in version.skips
         THEN Matching(disk[<<"recovery", k>>]) /\ OfThisRun(disk[<<"recovery", k>>].mrt)
         ELSE disk[<<"recovery", k>>].mrt = Absent
    /\ \A p \in FatalSlices :
         /\ p[2] \in version.fatal => Matching(disk[p]) /\ OfThisRun(disk[p].mrt)
         /\ disk[<<"fatal", p[2]>>].mrt # Absent =>
              /\ Whole(disk[<<"fatal", p[2]>>].manifest)
              /\ disk[p].mrt = disk[p].manifest /\ OfThisRun(disk[p].mrt)

(* Exit code 0 means that every parser asked for has run to its end on     *)
(* this run's corpora and none has failed, and exit code 1 that every one  *)
(* has been built and run or is on the list ("runs every selected parser   *)
(* even if one fails, then exits non-zero after printing an aggregate      *)
(* failure list").                                                         *)
ExitCodeTellsAll ==
  /\ status = "passed" => failures = {} /\ Range(asked) \subseteq ran
  /\ status = "failed" => failures # {} /\ Range(asked) \subseteq ran \cup failures

(* A run that was started ends.                                            *)
RunsEnd == status = "running" ~> status # "running"
=============================================================================
