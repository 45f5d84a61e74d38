------------------------------- MODULE CliRun -------------------------------
(***************************************************************************)
(* The command line of src/main.rs: runs of mrtgen, one after another over *)
(* the same files.  A run generates a corpus and writes it, the file and   *)
(* then its manifest, the main pair first and then one pair per fatal      *)
(* kind; std::fs::write empties a file before it fills it, nothing is      *)
(* renamed into place, any call can fail and the process can be killed     *)
(* between two of them.                                                    *)
(***************************************************************************)
EXTENDS Naturals, Sequences, SequencesExt

CONSTANTS
  CommandLines,       \* command lines, as records of the fields of Args
  Files,              \* every path they name
  ManifestBeside,     \* the default manifest path of an output path
  FatalMrt,           \* dir.join(kind.mrt), by directory and kind
  FatalManifest,      \* dir.join(kind.mrt.manifest.json)
  Unbuildable,        \* corpora whose generation panics or is refused
  MaxRuns             \* bound: runs of the program

NoFile == "none"      \* --manifest, --routes or --fatal-dir not given

FatalKinds == <<"length_overruns_eof", "truncated_header", "huge_length">>

(* The corpus a configuration asks for; the generator is deterministic, so *)
(* it is the content of the file.                                          *)
Corpus(c, tail) ==
  [routes |-> c.routes, profile |-> c.profile, sections |-> c.sections,
   base |-> c.base, tail |-> tail]

ASSUME CommandAssumption ==
  /\ ManifestBeside \in [Files -> Files]
  /\ \A c \in CommandLines :
       /\ c.out \in Files
       /\ c.manifest \in Files \cup {NoFile}
       /\ c.fatalDir # NoFile =>
            \A k \in Range(FatalKinds) :
              FatalMrt[c.fatalDir][k] \in Files /\ FatalManifest[c.fatalDir][k] \in Files

ASSUME MaxRunsAssumption == MaxRuns \in Nat

VARIABLES
  status,   \* "idle", "running", or how the last run ended
  todo,     \* what the running process has left to do, in order
  opened,   \* it has emptied the file it is about to fill
  disk,     \* what each path holds
  log,      \* every run so far: its command line and its end
  writer    \* for each path the last run that opened it, 0 for none

vars == <<status, todo, opened, disk, log, writer>>

-----------------------------------------------------------------------------
(* parse_args: what it refuses after having read every argument.           *)
Refused(c) ==
  \/ c.parses = "error"
  \/ c.routes # NoFile /\ (c.sections # "all" \/ c.fatal # "none" \/ c.fatalDir # NoFile)
  \/ c.routes # NoFile /\ c.profile # "standard"

ManifestPath(c) == IF c.manifest = NoFile THEN ManifestBeside[c.out] ELSE c.manifest

Write(path, what, corpus) == [do |-> "write", path |-> path, what |-> what, of |-> corpus]

(* Slip: the manifest before the file it describes.                        *)
WriteManifestFirst(corpus, mrt, manifest) ==
  <<[do |-> "generate", of |-> corpus], Write(manifest, "manifest", corpus),
    Write(mrt, "mrt", corpus)>>

(* Slip: the output emptied before there is a corpus to put in it.         *)
WriteBeforeGenerating(corpus, mrt, manifest) ==
  <<Write(mrt, "mrt", corpus), [do |-> "generate", of |-> corpus],
    Write(manifest, "manifest", corpus)>>

(* generate_profile or generate_from_routes, then write_corpus.            *)
WriteCorpus(corpus, mrt, manifest) ==
  <<[do |-> "generate", of |-> corpus], Write(mrt, "mrt", corpus),
    Write(manifest, "manifest", corpus)>>

(* Slip: the rest of the configuration not taken over (..cfg.clone()).     *)
FatalCasesOfDefault(c) ==
  IF c.fatalDir = NoFile THEN << >>
  ELSE <<[do |-> "mkdir", path |-> c.fatalDir]>> \o FlattenSeq([i \in DOMAIN FatalKinds |->
         WriteCorpus(Corpus([c EXCEPT !.sections = "all"], FatalKinds[i]),
                     FatalMrt[c.fatalDir][FatalKinds[i]],
                     FatalManifest[c.fatalDir][FatalKinds[i]])])

(* The loop over FatalKind::ALL: the configuration with its tail replaced. *)
FatalCases(c) ==
  IF c.fatalDir = NoFile THEN << >>
  ELSE <<[do |-> "mkdir", path |-> c.fatalDir]>>
       \o FlattenSeq([i \in DOMAIN FatalKinds |->
            WriteCorpus(Corpus(c, FatalKinds[i]),
                        FatalMrt[c.fatalDir][FatalKinds[i]],
                        FatalManifest[c.fatalDir][FatalKinds[i]])])

(* main, from the parsed arguments on.                                     *)
Main(c) == WriteCorpus(Corpus(c, c.fatal), c.out, ManifestPath(c)) \o FatalCases(c)

-----------------------------------------------------------------------------
Absent == [what |-> "absent"]

Holds(job, whole) == [what |-> job.what, of |-> job.of, whole |-> whole]

Contents ==
  {Absent} \cup UNION {{Holds(job, w) : w \in BOOLEAN} :
    job \in {j \in UNION {Range(Main(c)) : c \in CommandLines} : j.do = "write"}}

TypeOK ==
  /\ status \in {"idle", "running", "success", "failure", "killed"}
  /\ opened \in BOOLEAN
  /\ disk \in [Files -> Contents]
  /\ writer \in [Files -> 0 .. MaxRuns]
  /\ \A r \in DOMAIN log : log[r].end = "running" => status = "running" /\ r = Len(log)

Init ==
  /\ status = "idle"
  /\ todo = << >>
  /\ opened = FALSE
  /\ disk = [p \in Files |-> Absent]
  /\ log = << >>
  /\ writer = [p \in Files |-> 0]

Ends(how) ==
  /\ status' = how
  /\ log' = [log EXCEPT ![Len(log)].end = how]
  /\ UNCHANGED <<todo, opened, writer>>

Running(what) == status = "running" /\ todo # << >> /\ Head(todo).do = what

(* A new process, with whatever the one before it left on the disk.        *)
Invoke(c) ==
  /\ status # "running"
  /\ Len(log) < MaxRuns
  /\ opened' = FALSE
  /\ IF c.parses = "help" \/ Refused(c)
     THEN LET end == IF c.parses = "help" THEN "success" ELSE "failure"
          IN /\ status' = end
             /\ todo' = << >>
             /\ log' = Append(log, [line |-> c, end |-> end])
     ELSE /\ status' = "running"
          /\ todo' = Main(c)
          /\ log' = Append(log, [line |-> c, end |-> "running"])
  /\ UNCHANGED <<disk, writer>>

Generate ==
  /\ Running("generate")
  /\ Head(todo).of \notin Unbuildable
  /\ todo' = Tail(todo)
  /\ UNCHANGED <<status, opened, disk, log, writer>>

(* The route list is refused or cannot be read, or next_timestamp panics.  *)
GenerateFails ==
  /\ Running("generate")
  /\ Head(todo).of \in Unbuildable \/ Head(todo).of.routes # NoFile
  /\ Ends("failure")
  /\ UNCHANGED disk

MakeDir ==
  /\ Running("mkdir")
  /\ todo' = Tail(todo)
  /\ UNCHANGED <<status, opened, disk, log, writer>>

(* Slip: a file opened without emptying it.                                *)
OpenToAppend ==
  /\ Running("write")
  /\ ~ opened
  /\ opened' = TRUE
  /\ disk' = [disk EXCEPT ![Head(todo).path] =
               IF @ = Absent THEN Holds(Head(todo), FALSE) ELSE [@ EXCEPT !.what = "both"]]
  /\ writer' = [writer EXCEPT ![Head(todo).path] = Len(log)]
  /\ UNCHANGED <<status, todo, log>>

(* std::fs::write: the file is created or emptied, then filled.            *)
Open ==
  /\ Running("write")
  /\ ~ opened
  /\ opened' = TRUE
  /\ disk' = [disk EXCEPT ![Head(todo).path] = Holds(Head(todo), FALSE)]
  /\ writer' = [writer EXCEPT ![Head(todo).path] = Len(log)]
  /\ UNCHANGED <<status, todo, log>>

Fill ==
  /\ Running("write")
  /\ opened
  /\ opened' = FALSE
  /\ todo' = Tail(todo)
  /\ disk' = [disk EXCEPT ![Head(todo).path] = Holds(Head(todo), TRUE)]
  /\ UNCHANGED <<status, log, writer>>

(* Slip: an I/O error that is reported and then passed over.               *)
IoErrorPassedOver ==
  /\ Running("write")
  /\ todo' = Tail(todo)
  /\ opened' = FALSE
  /\ UNCHANGED <<status, disk, log, writer>>

(* Slip: an I/O error that is retried for ever.                            *)
IoErrorRetried ==
  /\ Running("write")
  /\ opened
  /\ opened' = FALSE
  /\ UNCHANGED <<status, todo, disk, log, writer>>

(* A directory that cannot be made, a file that cannot be opened, a disk   *)
(* that fills up: the error is reported and main returns FAILURE.          *)
IoError ==
  /\ Running("mkdir") \/ Running("write")
  /\ Ends("failure")
  /\ UNCHANGED disk

Exit ==
  /\ status = "running"
  /\ todo = << >>
  /\ Ends("success")
  /\ UNCHANGED disk

Process == Generate \/ GenerateFails \/ MakeDir \/ Open \/ Fill \/ IoError \/ Exit

Kill ==
  /\ status = "running"
  /\ Ends("killed")
  /\ UNCHANGED disk

Next == (\E c \in CommandLines : Invoke(c)) \/ Process \/ Kill

Spec == Init /\ [][Next]_vars

(* A process that was started is scheduled until it ends; nobody has to    *)
(* start one.                                                              *)
FairSpec == Spec /\ WF_vars(Process)
-----------------------------------------------------------------------------
WritesOf(c) == {job \in Range(Main(c)) : job.do = "write"}

(* No path is written twice: -m names neither the output nor a file of the *)
(* fatal directory, -o no file of the fatal directory, not even the one    *)
(* that would get the same octets.                                         *)
SeparateLines ==
  {c \in CommandLines :
    LET script == Main(c)
    IN \A i, j \in DOMAIN script :
         script[i].do = "write" /\ script[j].do = "write" /\ script[i].path = script[j].path => i = j}

Separate(c) == c \in SeparateLines

Wrote(r, job) == writer[job.path] = r

(* What a successful run wrote stays on the disk, whole and of the corpus  *)
(* its command line asks for, until a later run opens the path, whatever   *)
(* failed or was killed before it and whatever it found there.             *)
PublishedUntilRewritten ==
  \A r \in DOMAIN log :
    log[r].end = "success" /\ log[r].line.parses = "args" /\ Separate(log[r].line) =>
      \A job \in WritesOf(log[r].line) :
        /\ writer[job.path] >= r
        /\ Wrote(r, job) => disk[job.path] = Holds(job, TRUE)

(* A manifest is never ahead of its file: when a run has opened a manifest *)
(* the file it describes is finished, however the run ends.                *)
Pairs(c) ==
  {<<c.out, ManifestPath(c)>>} \cup
  IF c.fatalDir = NoFile THEN {}
  ELSE {<<FatalMrt[c.fatalDir][k], FatalManifest[c.fatalDir][k]>> : k \in Range(FatalKinds)}

FileBeforeManifest ==
  \A r \in DOMAIN log :
    Separate(log[r].line) =>
      \A pair \in Pairs(log[r].line) :
        writer[pair[2]] = r =>
          /\ writer[pair[1]] >= r
          /\ writer[pair[1]] = r =>
               disk[pair[1]] = [what |-> "mrt", of |-> disk[pair[2]].of, whole |-> TRUE]

(* A run whose corpus cannot be generated touches no file at all: not on a *)
(* refused command line, not on a route list with an error in its last     *)
(* route, not on a timestamp that overflows.                               *)
NoCorpusNoFile ==
  \A r \in DOMAIN log :
    Refused(log[r].line) \/ Corpus(log[r].line, log[r].line.fatal) \in Unbuildable =>
      \A p \in Files : writer[p] # r

(* "these files contain the same records as the main file plus the fatal   *)
(* tail": what a run left of its fatal directory and of its main file are  *)
(* the same corpus but for the tail, as long as the main file was not      *)
(* given a tail of its own and -o and -m name no file of the directory.    *)
Alone(c, path) == \A a, b \in WritesOf(c) : a.path = path /\ b.path = path => a = b

FatalFilesExtendMain ==
  \A r \in DOMAIN log :
    LET c == log[r].line IN
    c.fatalDir # NoFile /\ c.fatal = "none" /\ writer[c.out] = r =>
      \A k \in Range(FatalKinds) :
        LET f == FatalMrt[c.fatalDir][k] IN
        writer[f] = r /\ Alone(c, f) =>
          disk[f].of = [disk[c.out].of EXCEPT !.tail = k]

(* A run that was started ends.                                            *)
RunsEnd == status = "running" ~> status # "running"
=============================================================================
