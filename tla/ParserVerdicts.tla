--------------------------- MODULE ParserVerdicts ---------------------------
(***************************************************************************)
(* The four runners of tests/parsers/runners: each gives its parser the    *)
(* files of the corpus directory one after another, judges how the parser  *)
(* ended on each, against a baseline of known failures where there is one, *)
(* and exits 1 if anything failed.  The parsers are third-party programs   *)
(* and may end in any way.  Every runner runs here in the default and in   *)
(* the strict mode side by side, on the same behaviour of the parser.      *)
(***************************************************************************)
EXTENDS Naturals, Sequences, SequencesExt, FiniteSets

CONSTANTS
  Kinds,        \* kinds that have a recovery corpus or a baseline entry
  Fatals,       \* fatal-tail files
  CutFatals,    \* the same for bgpdump, without the record it aborts on
  Rules         \* flowspec records of the manifests

(* A rule is what classify and first_violation make of its record, and     *)
(* whether its NLRI is there and as long as its length octets say.         *)
Classes == {"supported", "gap", "gated", "raw", "raw violation"}

ASSUME RulesAssumption == \A r \in Rules : r.class \in Classes /\ r.intact \in BOOLEAN

(* Directories and manifests are finite.                                   *)
ASSUME FiniteAssumption ==
  IsFiniteSet(Kinds) /\ IsFiniteSet(Fatals) /\ IsFiniteSet(CutFatals) /\ IsFiniteSet(Rules)

Runners == {"mrtparse", "bgpdump", "bgpkit-parser", "fastnetmon"}

VARIABLES
  runner,     \* the runner
  baseline,   \* its entries of parser-baseline.json
  todo,       \* what it has still to judge, in order
  outcomes,   \* how the parser ended, for what has been judged
  failed,     \* FAILURES: what failed, by strictness
  seenKnown,  \* mrtparse: the baseline entries seen to hold, by strictness
  exit        \* the exit codes, by strictness, 2 for none yet

vars == <<runner, baseline, todo, outcomes, failed, seenKnown, exit>>

Job(mode, of) == [mode |-> mode, of |-> of]

Jobs(mode, names) == SetToSeq({Job(mode, n) : n \in names})

Corpus == <<Job("valid", "bgp-valid"), Job("full", "bgp-corpus")>> \o Jobs("fatal", Fatals)

CutCorpus == <<Job("full", "bgpdump-corpus")>> \o Jobs("fatal", CutFatals)

(* What a runner judges.  Three of them look first whether a file is there *)
(* (routes-td2.mrt, bgpdump-corpus.mrt, the first manifest of the rules):  *)
(* mrtparse and bgpdump do without, fastnetmon then judges no rule at all. *)
Program(r, recoveries, there) ==
  CASE r = "mrtparse" ->
         Corpus \o Jobs("recovery", recoveries) \o <<Job("stale", "baseline")>>
         \o (IF there THEN <<Job("routes", "routes")>> ELSE << >>)
    [] r = "bgpkit-parser" -> Corpus \o Jobs("recovery", recoveries)
    [] r = "bgpdump" -> Corpus \o (IF there THEN CutCorpus ELSE << >>) \o Jobs("recovery", recoveries)
    [] r = "fastnetmon" -> IF there THEN Jobs("rule", Rules) ELSE << >>

NoRule == Job("rule", [class |-> "none", intact |-> FALSE])

(* How a command ends.  "told" is exit code 0 with what was looked for in  *)
(* the output (a line, the count of the manifest, the sentinel's prefix),  *)
(* "silent" 0 without; "assert" is a signal with bgpdump's known message.  *)
Endings == {"told", "silent", "error", "timeout", "crash", "assert"}

(* How mrtparse's Reader ends on a file: with an exception or not, after   *)
(* no record, some, or all that there are, with or without entry errors.   *)
Readings == [ok : BOOLEAN, seen : {"none", "some", "all"}, errors : BOOLEAN]

(* How the shim ends on a rule: decoded as the manifest promises, decoded  *)
(* otherwise, refused, or not at all.                                      *)
Decodings == {"same", "other", "refused", "timeout", "crash"}

Outcomes(job) ==
  CASE job.mode = "stale" -> {"judged"}
    [] job.mode = "routes" -> {"same", "other"}
    [] job.mode = "rule" -> Decodings
    [] runner = "mrtparse" -> {o \in Readings : o.errors => job.mode = "valid"}
    [] runner = "bgpkit-parser" -> Endings \ {"assert"}
    [] OTHER -> Endings

-----------------------------------------------------------------------------
(* bgpdump_check.sh and bgpkit_parser_check.sh, run_one.                   *)
(* Slip: to strict mode, any way to end but 0 as the refusal of a tail.    *)
FileFailsTailFirst(job, o, strict) ==
  IF strict /\ job.mode = "fatal" THEN o \in {"told", "silent"}
  ELSE IF job.mode = "valid" THEN o # "told" ELSE o \in {"timeout", "crash"}

FileFails(job, o, strict) ==
  \/ job.mode = "valid" /\ o # "told"
  \/ job.mode # "valid" /\ o \in {"timeout", "crash"}
  \/ strict /\ job.mode = "full" /\ o = "error"
  \/ strict /\ job.mode = "fatal" /\ o \in {"told", "silent"}

(* The loops over recovery/*.mrt.  Slip: the baseline holds in both modes. *)
RecoveryFailsBaselined(kind, o, strict) ==
  IF o = "told" THEN kind \in baseline.stops \cup baseline.crashes
  ELSE kind \notin baseline.stops
       /\ ~ (o \in {"crash", "assert"} /\ kind \in baseline.crashes)

RecoveryFails(kind, o, strict) ==
  IF o = "told" THEN kind \in baseline.stops \cup baseline.crashes
  ELSE strict \/ ( /\ kind \notin baseline.stops
                   /\ ~ (o \in {"crash", "assert"} /\ kind \in baseline.crashes) )

(* mrtparse_check.py, main.                                                *)
ReadingFails(job, o, strict) ==
  \/ job.mode = "valid" /\ (~ o.ok \/ o.seen # "all" \/ o.errors)
  \/ strict /\ job.mode = "full" /\ (~ o.ok \/ o.seen = "none")
  \/ strict /\ job.mode = "fatal" /\ o.ok /\ o.seen = "all"

Recovered(o) == o.ok /\ o.seen = "all"

RecoveryReadingFails(kind, o, strict) ==
  IF Recovered(o) THEN kind \in baseline.stops
  ELSE strict \/ kind \notin baseline.stops

(* fastnetmon_flowspec_check.py, check_record: what fails a run always, and*)
(* what fails it in strict mode.                                           *)
RuleFails(rule, o, strict) ==
  \/ ~ rule.intact \/ o \in {"timeout", "crash"}
  \/ rule.class = "supported" /\ o # "same"
  \/ strict /\ rule.class = "gap" /\ o \in {"same", "other"}
-----------------------------------------------------------------------------
Init ==
  /\ runner \in Runners
  /\ baseline \in [stops : SUBSET Kinds, crashes : IF runner = "bgpdump" THEN SUBSET Kinds ELSE {{}}]
  /\ runner = "fastnetmon" => baseline.stops = {}
  /\ \E recoveries \in SUBSET Kinds, there \in BOOLEAN : todo = Program(runner, recoveries, there)
  /\ outcomes = << >>
  /\ failed = [s \in BOOLEAN |-> {}]
  /\ seenKnown = [s \in BOOLEAN |-> {}]
  /\ exit = [s \in BOOLEAN |-> 2]

At(modes) == todo # << >> /\ Head(todo).mode \in modes

(* The job at hand is judged, and is a failure in the modes where it is.   *)
Judge(o, Fails(_)) ==
  /\ todo' = Tail(todo)
  /\ outcomes' = [j \in DOMAIN outcomes \cup {Head(todo)} |->
                   IF j = Head(todo) THEN o ELSE outcomes[j]]
  /\ failed' = [s \in BOOLEAN |-> IF Fails(s) THEN failed[s] \cup {Head(todo)} ELSE failed[s]]
  /\ UNCHANGED <<runner, baseline, exit>>

RunOne(o) ==
  /\ runner \in {"bgpdump", "bgpkit-parser"}
  /\ At({"valid", "full", "fatal"})
  /\ Judge(o, LAMBDA s : FileFails(Head(todo), o, s))
  /\ UNCHANGED seenKnown

Recover(o) ==
  /\ runner \in {"bgpdump", "bgpkit-parser"}
  /\ At({"recovery"})
  /\ Judge(o, LAMBDA s : RecoveryFails(Head(todo).of, o, s))
  /\ UNCHANGED seenKnown

ParseFile(o) ==
  /\ runner = "mrtparse"
  /\ At({"valid", "full", "fatal"})
  /\ Judge(o, LAMBDA s : ReadingFails(Head(todo), o, s))
  /\ UNCHANGED seenKnown

ParseRecovery(o) ==
  /\ runner = "mrtparse"
  /\ At({"recovery"})
  /\ Judge(o, LAMBDA s : RecoveryReadingFails(Head(todo).of, o, s))
  /\ seenKnown' = [s \in BOOLEAN |->
       IF ~ Recovered(o) /\ Head(todo).of \in baseline.stops /\ ~ s
       THEN seenKnown[s] \cup {Head(todo).of} ELSE seenKnown[s]]

(* Slip: an entry is stale only if nothing was seen to be known.           *)
JudgeBaselineAtAll ==
  /\ At({"stale"})
  /\ Judge("judged", LAMBDA s : baseline.stops # {} /\ seenKnown[s] = {})
  /\ UNCHANGED seenKnown

JudgeBaseline ==
  /\ At({"stale"})
  /\ Judge("judged", LAMBDA s : baseline.stops \ seenKnown[s] # {})
  /\ UNCHANGED seenKnown

(* routes_mrtparse_check: the fields of the route lists.                   *)
CheckRoutes(o) ==
  /\ At({"routes"})
  /\ Judge(o, LAMBDA s : o = "other")
  /\ UNCHANGED seenKnown

CheckRule(o) ==
  /\ At({"rule"})
  /\ Judge(o, LAMBDA s : RuleFails(Head(todo).of, o, s))
  /\ UNCHANGED seenKnown

Unfinished == \A s \in BOOLEAN : exit[s] = 2

(* No rule at all, or no manifest to find one in, is a failure of its own. *)
Conclude ==
  /\ todo = << >>
  /\ Unfinished
  /\ failed' = [s \in BOOLEAN |->
       IF runner = "fastnetmon" /\ DOMAIN outcomes = {} THEN {NoRule} ELSE failed[s]]
  /\ exit' = [s \in BOOLEAN |-> IF failed'[s] = {} THEN 0 ELSE 1]
  /\ UNCHANGED <<runner, baseline, todo, outcomes, seenKnown>>

JudgeNext ==
  /\ todo # << >>
  /\ \E o \in Outcomes(Head(todo)) :
       RunOne(o) \/ Recover(o) \/ ParseFile(o) \/ ParseRecovery(o) \/ CheckRoutes(o) \/ CheckRule(o)

Next == JudgeNext \/ JudgeBaseline \/ Conclude

Spec == Init /\ [][Next]_vars
-----------------------------------------------------------------------------
(* Whatever fails a run by default fails it in strict mode too, so that a  *)
(* CI that uses --strict need not run both: no order of the branches lets  *)
(* a crash or a timeout pass for the refusal that strict mode waits for.   *)
StrictIsStricter == failed[FALSE] \subseteq failed[TRUE]

Judged(mode) == {j \in DOMAIN outcomes : j.mode = mode}

Reached(job) == IF runner = "mrtparse" THEN Recovered(outcomes[job]) ELSE outcomes[job] = "told"

Passed(strict) == exit[strict] = 0

(* A baseline cannot outlive what it excuses: with exit code 0 no baselined*)
(* kind was recovered from, and every entry of mrtparse's was seen to hold *)
(* (those of the other two may name kinds that no longer have a corpus).   *)
BaselinesDoNotRot ==
  \A s \in BOOLEAN : Passed(s) =>
    /\ \A j \in Judged("recovery") : Reached(j) => j.of \notin baseline.stops \cup baseline.crashes
    /\ runner = "mrtparse" =>
         baseline.stops \subseteq {j.of : j \in {x \in Judged("recovery") : ~ Reached(x)}}

(* What a baseline entry excuses: a stop anything but a recovery, a crash  *)
(* only a crash.                                                           *)
Excused(j) ==
  \/ j.of \in baseline.stops
  \/ j.of \in baseline.crashes /\ outcomes[j] \in {"crash", "assert"}

(* What exit code 0 is worth.  In both modes: the valid corpus was parsed  *)
(* to its end, no parser ran into its timeout or crashed on a corpus or a  *)
(* tail (but for bgpdump's known assert), the fields of the route lists    *)
(* were right, and every rule was decoded or refused without a crash, the  *)
(* supported ones rightly.  Each damaged record was recovered from, or by  *)
(* default excused by an entry of the baseline that names its kind and     *)
(* covers its outcome.  In strict mode every tail was refused besides, and *)
(* no corpus ended in an error.                                            *)
PassesAreEarned ==
  /\ \A s \in BOOLEAN : Passed(s) =>
       /\ \A j \in Judged("valid") : Reached(j)
       /\ \A j \in Judged("recovery") : Reached(j) \/ (~ s /\ Excused(j))
       /\ \A j \in Judged("routes") : outcomes[j] # "other"
       /\ \A j \in Judged("rule") :
            /\ j.of.intact /\ outcomes[j] \notin {"timeout", "crash"}
            /\ j.of.class = "supported" => outcomes[j] = "same"
       /\ runner \in {"bgpdump", "bgpkit-parser"} =>
            \A j \in Judged("full") \cup Judged("fatal") : outcomes[j] \notin {"timeout", "crash"}
  /\ Passed(TRUE) =>
       /\ \A j \in Judged("fatal") : ~ Reached(j)
       /\ runner \in {"bgpdump", "bgpkit-parser"} => \A j \in Judged("full") : outcomes[j] # "error"

-----------------------------------------------------------------------------
(* What a default run makes of malformed input, in the words of README.md: *)
(* it is "not treated as a hard failure unless the parser times out or     *)
(* crashes" (run-docker.sh has it too), and of bgpdump_check.sh: with the  *)
(* known assertion a crash is no failure, but "any other crash signature   *)
(* still fails hard".  The recovery corpora break it in both directions:   *)
(* a parser fails that only stops there, without an entry in the baseline, *)
(* or that does not stop in spite of one, and a crash of a baselined kind  *)
(* passes, as no signature is looked at.                                   *)
OnlyCrashesFailByDefault ==
  runner \in {"bgpdump", "bgpkit-parser"} =>
    \A j \in DOMAIN outcomes : j.mode # "valid" =>
      (j \in failed[FALSE] <=> outcomes[j] \in {"timeout", "crash"})
=============================================================================
