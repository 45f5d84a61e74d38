------------------------ MODULE ParserHarnessProofs ------------------------
(***************************************************************************)
(* For any versions of the program, any route lists and selections, any    *)
(* number of runs over one directory, and steps that fail or are killed    *)
(* anywhere: the main slices are cut from this run's corpus, the parsers   *)
(* find what this run has made, and the exit code tells how they ended.    *)
(***************************************************************************)
EXTENDS ParserHarness, DataFacts, SequenceTheorems, TLAPS

Halves == {"mrt", "manifest"}

(* The paths by the way they are written.                                  *)
EarlyPaths == {<<"corpus">>} \cup ({"fatal"} \X AllKinds)
RoutePaths == {<<f>> : f \in RouteFiles}
MainPaths == {<<s>> : s \in Range(MainSlices)}
RecoveryPaths == {"recovery"} \X AllKinds

Produced == EarlyPaths \cup RoutePaths
CutFromMain == MainPaths \cup RecoveryPaths

(* Every path has one step of the script that writes each of its halves.   *)
SourceOf(p) == IF p \in CutFromMain THEN <<"corpus">> ELSE <<"fatal", p[2]>>

StepFor(h, p) ==
  IF p \in Produced
  THEN Step(IF h = "mrt" THEN "generate-mrt" ELSE "generate-manifest", p)
  ELSE [do |-> IF h = "mrt" THEN "slice-mrt" ELSE "slice-manifest",
        path |-> p, from |-> SourceOf(p)]

WritesOf(paths) == {StepFor(h, p) : h \in Halves, p \in paths}

Early == WritesOf(EarlyPaths)
Recoveries == WritesOf(RecoveryPaths)
FatalDirs == {"bgp-fatal", "bgpdump-fatal"}
Globs == {Glob(dir) : dir \in FatalDirs}
Removal == Step("remove", "recovery")
Asked == UNION {Range(s) : s \in Selections}
Late == {Step(what, p) : what \in {"look-up", "build", "run"}, p \in Asked}

AllSteps == WritesOf(Paths) \cup Globs \cup {Removal} \cup Late

(***************************************************************************)
(* The inductive invariant: the order of what is left of the script, and   *)
(* of each thing to be done that it is left or has been done.              *)
(***************************************************************************)

(* Step y may stand behind step x: the generator comes first, the parsers  *)
(* come last, and the recovery directory is emptied before it is filled.   *)
MayFollow(x, y) ==
  /\ y \in Early => x \in Early
  /\ x \in Late => y \in Late
  /\ y = Removal => x \notin Recoveries

Ordered(s) == \A i, j \in 1 .. Len(s) : i < j => MayFollow(s[i], s[j])

(* A build is followed by the run of its image.                            *)
Paired(s) ==
  \A i \in 1 .. Len(s) :
    s[i].do = "build" => i + 1 \in 1 .. Len(s) /\ s[i + 1] = Step("run", s[i].path)

Scripted == todo \in Seq(AllSteps) /\ Ordered(todo) /\ Paired(todo)

Filed ==
  /\ disk = [p \in Paths |-> disk[p]]
  /\ \A p \in Paths : disk[p] = [mrt |-> disk[p].mrt, manifest |-> disk[p].manifest]

Typed == version \in Versions /\ asked \in Selections /\ Filed

Pending(h, p) == StepFor(h, p) \in Range(todo)

ToProduce(v) == {<<"corpus">>} \cup ({"fatal"} \X v.fatal) \cup RoutePaths

ProducedOnce ==
  \A p \in ToProduce(version) : \A h \in Halves : Pending(h, p) \/ disk[p][h] = Generated(run)

MainCut == Cut(Generated(run), Generated(run), run)

ToCut(v) == MainPaths \cup ({"recovery"} \X v.skips)

CutOnce ==
  \A p \in ToCut(version) : \A h \in Halves :
    \/ Pending(h, p)
    \/ disk[p][h] = MainCut /\ (p \in RecoveryPaths => Removal \notin Range(todo))

(* Of the other versions' skip cases there is none.                        *)
EmptiedOnce ==
  \A k \in AllKinds \ version.skips :
    /\ \A h \in Halves : ~ Pending(h, <<"recovery", k>>)
    /\ Removal \in Range(todo) \/ disk[<<"recovery", k>>].mrt = Absent

(* What is in fatal/ when the generator has ended is cut, whoever made it. *)
FatalCut(p, h) ==
  LET source == disk[<<"fatal", p[2]>>]
  IN /\ Range(todo) \cap Early = {}
     /\ source.mrt # Absent =>
          Whole(source.manifest) /\ disk[p][h] = Cut(source.mrt, source.manifest, run)

FatalsOnce ==
  \A p \in FatalSlices : \A h \in Halves :
    Glob(p[1]) \in Range(todo) \/ Pending(h, p) \/ FatalCut(p, h)

(* Every parser asked for has run, has failed, or is still to run.         *)
ParsersOnce ==
  \A p \in Range(asked) : Step("run", p) \in Range(todo) \/ p \in ran \/ p \in failures

Underway ==
  status = "running" =>
    Scripted /\ ProducedOnce /\ CutOnce /\ EmptiedOnce /\ FatalsOnce /\ ParsersOnce

IInv == Typed /\ Underway /\ ExitCodeTellsAll

-----------------------------------------------------------------------------
(* The families of paths, and the step for each of them.                   *)
LEMMA MainNames == Range(MainSlices) = {"valid", "bgp-valid", "bgp-corpus", "bgpdump-corpus"}
<1>1. DOMAIN MainSlices = 1 .. 4
  BY DEF MainSlices
<1>2. \A i \in 1 .. 4 : i = 1 \/ i = 2 \/ i = 3 \/ i = 4
  OBVIOUS
<1>3. /\ MainSlices[1] = "valid" /\ MainSlices[2] = "bgp-valid"
      /\ MainSlices[3] = "bgp-corpus" /\ MainSlices[4] = "bgpdump-corpus"
  BY DEF MainSlices
<1>4. 1 \in 1 .. 4 /\ 2 \in 1 .. 4 /\ 3 \in 1 .. 4 /\ 4 \in 1 .. 4
  OBVIOUS
<1>5. QED
  BY <1>1, <1>2, <1>3, <1>4 DEF Range

LEMMA PathFamilies ==
  /\ Paths = Produced \cup CutFromMain \cup FatalSlices
  /\ EarlyPaths \cap RoutePaths = {}
  /\ Produced \cap CutFromMain = {}
  /\ FatalSlices \cap (Produced \cup CutFromMain) = {}
  /\ MainPaths \cap RecoveryPaths = {}
<1>1. /\ "corpus" \notin RouteFiles /\ "corpus" \notin Range(MainSlices)
      /\ \A f \in RouteFiles : f \notin Range(MainSlices)
  BY FilesAssumption, MainNames
<1>2. /\ EarlyPaths = {<<"corpus">>} \cup {<<"fatal", k>> : k \in AllKinds}
      /\ RecoveryPaths = {<<"recovery", k>> : k \in AllKinds}
      /\ FatalSlices = {<<"bgp-fatal", k>> : k \in AllKinds}
                       \cup {<<"bgpdump-fatal", k>> : k \in AllKinds}
      /\ Dirs \X AllKinds = {<<"fatal", k>> : k \in AllKinds} \cup RecoveryPaths \cup FatalSlices
  BY DEF EarlyPaths, RecoveryPaths, FatalSlices, Dirs
<1>3. Paths = Produced \cup CutFromMain \cup FatalSlices
  BY <1>2 DEF Paths, Produced, CutFromMain, RoutePaths, MainPaths
<1>4. EarlyPaths \cap RoutePaths = {}
  BY <1>1, <1>2 DEF RoutePaths
<1>5. MainPaths \cap RecoveryPaths = {}
  BY <1>2 DEF MainPaths
<1>6. Produced \cap CutFromMain = {}
  BY <1>1, <1>2 DEF RoutePaths, MainPaths, Produced, CutFromMain
<1>7. FatalSlices \cap (Produced \cup CutFromMain) = {}
  BY <1>2 DEF RoutePaths, MainPaths, Produced, CutFromMain
<1>8. QED
  BY <1>3, <1>4, <1>5, <1>6, <1>7

LEMMA StepForm ==
  ASSUME NEW h \in Halves, NEW p
  PROVE  /\ StepFor(h, p).path = p
         /\ StepFor(h, p).do \in Writes
         /\ Half(StepFor(h, p).do) = h
         /\ p \in Produced => StepFor(h, p).do \in {"generate-mrt", "generate-manifest"}
         /\ p \notin Produced => /\ StepFor(h, p).do \in {"slice-mrt", "slice-manifest"}
                                 /\ StepFor(h, p).from = SourceOf(p)
<1>1. h = "mrt" \/ h = "manifest"
  BY DEF Halves
<1>2. CASE p \in Produced
  BY <1>1, <1>2 DEF StepFor, Step, Writes, Half
<1>3. CASE p \notin Produced
  BY <1>1, <1>3 DEF StepFor, Writes, Half
<1>4. QED
  BY <1>2, <1>3

LEMMA StepKinds ==
  /\ \A x \in WritesOf(Paths) : x.do \in Writes
  /\ \A x \in Globs : x.do = "glob" /\ x.path \in FatalDirs /\ x = Glob(x.path)
  /\ Removal.do = "remove" /\ Removal.path = "recovery"
  /\ \A x \in Late : x.do \in {"look-up", "build", "run"} /\ x.path \in Asked /\ x = Step(x.do, x.path)
<1>1. \A x \in WritesOf(Paths) : x.do \in Writes
  BY StepForm DEF WritesOf
<1>2. \A x \in Globs : x.do = "glob" /\ x.path \in FatalDirs /\ x = Glob(x.path)
  BY DEF Globs, Glob
<1>3. Removal.do = "remove" /\ Removal.path = "recovery"
  BY DEF Removal, Step
<1>4. \A x \in Late : x.do \in {"look-up", "build", "run"} /\ x.path \in Asked /\ x = Step(x.do, x.path)
  BY DEF Late, Step
<1>5. QED
  BY <1>1, <1>2, <1>3, <1>4

LEMMA WriteFamilies ==
  ASSUME NEW h \in Halves, NEW p \in Paths
  PROVE  /\ StepFor(h, p) \in Early <=> p \in EarlyPaths
         /\ StepFor(h, p) \in Recoveries <=> p \in RecoveryPaths
         /\ StepFor(h, p) \notin Globs
         /\ StepFor(h, p) # Removal
         /\ StepFor(h, p) \notin Late
         /\ \A g \in Halves, q \in Paths : StepFor(h, p) = StepFor(g, q) => g = h /\ q = p
<1>1. \A g \in Halves, q \in Paths : StepFor(h, p) = StepFor(g, q) => g = h /\ q = p
  BY StepForm
<1>2. EarlyPaths \subseteq Paths /\ RecoveryPaths \subseteq Paths
  BY PathFamilies DEF Produced, CutFromMain
<1>3. StepFor(h, p) \in Early <=> p \in EarlyPaths
  BY <1>1, <1>2 DEF Early, WritesOf
<1>4. StepFor(h, p) \in Recoveries <=> p \in RecoveryPaths
  BY <1>1, <1>2 DEF Recoveries, WritesOf
<1>5. StepFor(h, p).do \in Writes
  BY StepForm
<1>6. StepFor(h, p) \notin Globs /\ StepFor(h, p) # Removal /\ StepFor(h, p) \notin Late
  BY <1>5, StepKinds DEF Writes
<1>7. QED
  BY <1>1, <1>3, <1>4, <1>6
-----------------------------------------------------------------------------
(* Pieces of a script, and how they are put together.                      *)
Piece(s, X) == s \in Seq(X) /\ Ordered(s) /\ Paired(s)

AllMayFollow(X, Y) == \A x \in X, y \in Y : MayFollow(x, y)

LEMMA PieceOf ==
  ASSUME NEW Y, NEW t \in Seq(Y),
         \A x \in Y : x.do # "build",
         AllMayFollow(Y, Y)
  PROVE  Piece(t, Y)
<1>1. \A i \in 1 .. Len(t) : t[i] \in Y
  OBVIOUS
<1>2. QED
  BY <1>1 DEF Piece, Ordered, Paired, AllMayFollow

Link(s, t, X, Y) ==
  Piece(Joined(s, t), X \cup Y) /\ Range(Joined(s, t)) = Range(s) \cup Range(t)

LEMMA Chain ==
  ASSUME NEW X, NEW Y, NEW s, NEW t, Piece(s, X), Piece(t, Y), AllMayFollow(X, Y)
  PROVE  Link(s, t, X, Y)
<1> DEFINE u == s \o t
           Z == X \cup Y
<1>1. /\ s \in Seq(X) /\ s \in Seq(Z) /\ Ordered(s) /\ Paired(s)
      /\ t \in Seq(Y) /\ t \in Seq(Z) /\ Ordered(t) /\ Paired(t)
  BY DEF Piece
<1>2. /\ u \in Seq(Z)
      /\ Len(u) = Len(s) + Len(t)
      /\ \A i \in 1 .. Len(s) + Len(t) : u[i] = IF i <= Len(s) THEN s[i] ELSE t[i - Len(s)]
  BY <1>1, ConcatProperties
<1>3. Range(u) = Range(s) \cup Range(t)
  BY <1>1, InConcat
<1>4. Len(s) \in Nat /\ Len(t) \in Nat
  BY <1>1
<1> HIDE DEF u
<1>5. \A i \in 1 .. Len(s) : u[i] = s[i] /\ s[i] \in X
  BY <1>1, <1>2, <1>4
<1>6. \A i \in Len(s) + 1 .. Len(s) + Len(t) :
        i - Len(s) \in 1 .. Len(t) /\ u[i] = t[i - Len(s)] /\ t[i - Len(s)] \in Y
  BY <1>1, <1>2, <1>4
<1>7. Ordered(u)
  <2>1. SUFFICES ASSUME NEW i \in 1 .. Len(u), NEW j \in 1 .. Len(u), i < j
                 PROVE  MayFollow(u[i], u[j])
    BY DEF Ordered
  <2>2. CASE j <= Len(s)
    <3>1. i \in 1 .. Len(s) /\ j \in 1 .. Len(s)
      BY <1>4, <2>1, <2>2
    <3>2. QED
      BY <1>1, <1>5, <2>1, <3>1 DEF Ordered
  <2>3. CASE i <= Len(s) /\ j > Len(s)
    <3>1. i \in 1 .. Len(s) /\ j \in Len(s) + 1 .. Len(s) + Len(t)
      BY <1>2, <1>4, <2>1, <2>3
    <3>2. u[i] \in X /\ u[j] \in Y
      BY <1>5, <1>6, <3>1
    <3>3. QED
      BY <3>2 DEF AllMayFollow
  <2>4. CASE i > Len(s)
    <3>1. i \in Len(s) + 1 .. Len(s) + Len(t) /\ j \in Len(s) + 1 .. Len(s) + Len(t)
      BY <1>2, <1>4, <2>1, <2>4
    <3>2. i - Len(s) < j - Len(s)
      BY <1>4, <2>1
    <3>3. MayFollow(t[i - Len(s)], t[j - Len(s)])
      BY <1>1, <1>6, <3>1, <3>2 DEF Ordered
    <3>4. QED
      BY <1>6, <3>1, <3>3
  <2>5. QED
    BY <1>4, <2>2, <2>3, <2>4
<1>8. Paired(u)
  <2>1. SUFFICES ASSUME NEW i \in 1 .. Len(u), u[i].do = "build"
                 PROVE  i + 1 \in 1 .. Len(u) /\ u[i + 1] = Step("run", u[i].path)
    BY DEF Paired
  <2>2. CASE i <= Len(s)
    <3>1. i \in 1 .. Len(s)
      BY <2>2
    <3>2. i + 1 \in 1 .. Len(s) /\ s[i + 1] = Step("run", s[i].path)
      BY <1>1, <1>5, <2>1, <3>1 DEF Paired
    <3>3. QED
      BY <1>2, <1>4, <1>5, <3>1, <3>2
  <2>3. CASE i > Len(s)
    <3> DEFINE k == i - Len(s)
    <3>1. i \in Len(s) + 1 .. Len(s) + Len(t)
      BY <1>2, <1>4, <2>3
    <3>2. k \in 1 .. Len(t) /\ u[i] = t[k]
      BY <1>6, <3>1
    <3>3. k + 1 \in 1 .. Len(t) /\ t[k + 1] = Step("run", t[k].path)
      BY <1>1, <2>1, <3>2 DEF Paired
    <3>4. i + 1 \in Len(s) + 1 .. Len(s) + Len(t) /\ (i + 1) - Len(s) = k + 1
      BY <1>4, <3>1, <3>3
    <3> HIDE DEF k
    <3>5. u[i + 1] = t[k + 1]
      BY <1>6, <3>4
    <3>6. i + 1 \in 1 .. Len(u)
      BY <1>2, <1>4, <3>4
    <3>7. QED
      BY <3>2, <3>3, <3>5, <3>6
  <2>4. QED
    BY <1>4, <2>2, <2>3
<1>9. QED
  BY <1>2, <1>3, <1>7, <1>8 DEF Link, Piece, Joined, u

(* What is left behind a first step.                                       *)
LEMMA Rest ==
  ASSUME NEW X, NEW s, Piece(s, X), s # << >>
  PROVE  /\ Piece(Tail(s), X)
         /\ Head(s) \in X
         /\ Range(s) = {Head(s)} \cup Range(Tail(s))
         /\ \A y \in Range(Tail(s)) : MayFollow(Head(s), y)
<1> DEFINE t == Tail(s)
<1>1. s \in Seq(X) /\ Ordered(s) /\ Paired(s) /\ Len(s) \in Nat /\ Len(s) # 0
  BY DEF Piece
<1>2. /\ t \in Seq(X) /\ Len(t) = Len(s) - 1
      /\ \A i \in 1 .. Len(t) : i + 1 \in 1 .. Len(s) /\ t[i] = s[i + 1]
      /\ Head(s) = s[1] /\ 1 \in 1 .. Len(s)
  BY <1>1, HeadTailProperties
<1> HIDE DEF t
<1>3. Ordered(t)
  <2>1. SUFFICES ASSUME NEW i \in 1 .. Len(t), NEW j \in 1 .. Len(t), i < j
                 PROVE  MayFollow(t[i], t[j])
    BY DEF Ordered
  <2>2. i + 1 < j + 1 /\ i + 1 \in 1 .. Len(s) /\ j + 1 \in 1 .. Len(s)
    BY <1>2, <2>1
  <2>3. QED
    BY <1>1, <1>2, <2>2 DEF Ordered
<1>4. Paired(t)
  <2>1. SUFFICES ASSUME NEW i \in 1 .. Len(t), t[i].do = "build"
                 PROVE  i + 1 \in 1 .. Len(t) /\ t[i + 1] = Step("run", t[i].path)
    BY DEF Paired
  <2>2. (i + 1) + 1 \in 1 .. Len(s) /\ s[(i + 1) + 1] = Step("run", s[i + 1].path)
    BY <1>1, <1>2, <2>1 DEF Paired
  <2>3. i + 1 \in 1 .. Len(t)
    BY <1>1, <1>2, <2>2
  <2>4. QED
    BY <1>2, <2>2, <2>3
<1>5. \A i \in 1 .. Len(s) : i = 1 \/ (i - 1 \in 1 .. Len(t) /\ s[i] = t[i - 1])
  <2>1. SUFFICES ASSUME NEW i \in 1 .. Len(s), i # 1
                 PROVE  i - 1 \in 1 .. Len(t) /\ s[i] = t[i - 1]
    OBVIOUS
  <2>2. i - 1 \in 1 .. Len(t) /\ (i - 1) + 1 = i
    BY <1>1, <1>2, <2>1
  <2>3. QED
    BY <1>2, <2>2
<1>6. DOMAIN s = 1 .. Len(s) /\ DOMAIN t = 1 .. Len(t)
  BY <1>1, <1>2
<1>7. Range(s) = {s[1]} \cup Range(t)
  <2>1. \A x \in Range(s) : x = s[1] \/ x \in Range(t)
    BY <1>5, <1>6 DEF Range
  <2>2. s[1] \in Range(s)
    BY <1>2, <1>6 DEF Range
  <2>3. \A x \in Range(t) : x \in Range(s)
    BY <1>2, <1>6 DEF Range
  <2>4. QED
    BY <2>1, <2>2, <2>3
<1>8. ASSUME NEW y \in Range(t) PROVE MayFollow(s[1], y)
  <2>1. PICK i \in 1 .. Len(t) : y = t[i]
    BY <1>6 DEF Range
  <2>2. i + 1 \in 1 .. Len(s) /\ 1 < i + 1 /\ t[i] = s[i + 1]
    BY <1>2, <2>1
  <2>3. QED
    BY <1>1, <1>2, <2>1, <2>2 DEF Ordered
<1>9. s[1] \in X
  BY <1>1, <1>2
<1>10. QED
  BY <1>2, <1>3, <1>4, <1>7, <1>8, <1>9 DEF Piece, t
-----------------------------------------------------------------------------
(* What may stand behind what, by the parts of a script.                   *)
Between == WritesOf(RoutePaths \cup MainPaths \cup FatalSlices) \cup Globs
RecoveriesOf(v) == WritesOf({"recovery"} \X v.skips)

LEMMA PartsOfScripts ==
  /\ Early \subseteq AllSteps /\ Between \subseteq AllSteps /\ Recoveries \subseteq AllSteps
  /\ Removal \in AllSteps /\ Late \subseteq AllSteps
  /\ \A x \in Early : x \notin Late /\ x # Removal /\ x \notin Recoveries
  /\ \A x \in Between : x \notin Early /\ x \notin Late /\ x # Removal /\ x \notin Recoveries
  /\ \A x \in Recoveries : x \notin Early /\ x \notin Late /\ x # Removal
  /\ Removal \notin Early /\ Removal \notin Recoveries /\ Removal \notin Late
  /\ \A x \in Late : x \notin Early /\ x # Removal /\ x \notin Recoveries
  /\ \A x \in Early \cup Between \cup Recoveries \cup {Removal} : x.do # "build"
<1>1. /\ EarlyPaths \subseteq Paths /\ RecoveryPaths \subseteq Paths
      /\ RoutePaths \cup MainPaths \cup FatalSlices \subseteq Paths
      /\ (RoutePaths \cup MainPaths \cup FatalSlices) \cap (EarlyPaths \cup RecoveryPaths) = {}
      /\ EarlyPaths \cap RecoveryPaths = {}
  BY PathFamilies DEF Produced, CutFromMain
<1>2. /\ Early \subseteq WritesOf(Paths) /\ Recoveries \subseteq WritesOf(Paths)
      /\ Between \subseteq WritesOf(Paths) \cup Globs
  BY <1>1 DEF Early, Recoveries, Between, WritesOf
<1>3. \A x \in WritesOf(Paths) : x \notin Late /\ x # Removal /\ x.do # "build"
  BY StepKinds, WriteFamilies DEF WritesOf, Writes
<1>4. \A x \in Globs : x \notin Late /\ x # Removal /\ x.do # "build"
                       /\ x \notin WritesOf(Paths)
  BY StepKinds DEF Writes
<1>5. \A x \in Late : x # Removal /\ x \notin WritesOf(Paths)
  BY StepKinds, <1>3
<1>6. Removal \notin WritesOf(Paths) /\ Removal \notin Late /\ Removal.do # "build"
  BY StepKinds, <1>3, <1>5
<1>7. \A x \in WritesOf(RoutePaths \cup MainPaths \cup FatalSlices) :
        x \notin Early /\ x \notin Recoveries
  <2>1. SUFFICES ASSUME NEW h \in Halves, NEW p \in RoutePaths \cup MainPaths \cup FatalSlices
                 PROVE  StepFor(h, p) \notin Early /\ StepFor(h, p) \notin Recoveries
    BY DEF WritesOf
  <2>2. p \in Paths /\ p \notin EarlyPaths /\ p \notin RecoveryPaths
    BY <1>1
  <2>3. QED
    BY <2>2, WriteFamilies
<1>8. \A x \in Early : x \notin Recoveries
  <2>1. SUFFICES ASSUME NEW h \in Halves, NEW p \in EarlyPaths
                 PROVE  StepFor(h, p) \notin Recoveries
    BY DEF Early, WritesOf
  <2>2. p \in Paths /\ p \notin RecoveryPaths
    BY <1>1
  <2>3. QED
    BY <2>2, WriteFamilies
<1>9. \A x \in Between : x \notin Early /\ x \notin Late /\ x # Removal /\ x \notin Recoveries
  BY <1>2, <1>3, <1>4, <1>7 DEF Between
<1>10. Early \subseteq AllSteps /\ Between \subseteq AllSteps /\ Recoveries \subseteq AllSteps
       /\ Removal \in AllSteps /\ Late \subseteq AllSteps
  BY <1>2 DEF AllSteps
<1>11. \A x \in Early \cup Between \cup Recoveries \cup {Removal} : x.do # "build"
  BY <1>2, <1>3, <1>4, <1>6
<1>12. QED
  BY <1>2, <1>3, <1>5, <1>6, <1>8, <1>9, <1>10, <1>11

LEMMA RecoveriesOfVersion ==
  ASSUME NEW v \in Versions
  PROVE  RecoveriesOf(v) \subseteq Recoveries
<1>1. {"recovery"} \X v.skips \subseteq RecoveryPaths
  BY VersionsAssumption DEF RecoveryPaths
<1>2. QED
  BY <1>1 DEF RecoveriesOf, Recoveries, WritesOf

(* File and manifest of one path.                                          *)
LEMMA TwoWrites ==
  ASSUME NEW Q, NEW p \in Q
  PROVE  LET s == <<StepFor("mrt", p), StepFor("manifest", p)>>
         IN /\ s \in Seq(WritesOf(Q))
            /\ \A h \in Halves : StepFor(h, p) \in Range(s)
            /\ p \in Produced => Produce(p) = s
            /\ p \notin Produced => Slice(SourceOf(p), p) = s
<1> DEFINE s == <<StepFor("mrt", p), StepFor("manifest", p)>>
<1>1. "mrt" \in Halves /\ "manifest" \in Halves /\ \A h \in Halves : h = "mrt" \/ h = "manifest"
  BY DEF Halves
<1>2. StepFor("mrt", p) \in WritesOf(Q) /\ StepFor("manifest", p) \in WritesOf(Q)
  BY <1>1 DEF WritesOf
<1>3. s \in Seq(WritesOf(Q))
  BY <1>2
<1>4. s[1] = StepFor("mrt", p) /\ s[2] = StepFor("manifest", p) /\ DOMAIN s = 1 .. 2
  OBVIOUS
<1>5. \A h \in Halves : StepFor(h, p) \in Range(s)
  <2>1. 1 \in 1 .. 2 /\ 2 \in 1 .. 2
    OBVIOUS
  <2>2. s[1] \in Range(s) /\ s[2] \in Range(s)
    BY <1>4, <2>1 DEF Range
  <2>3. QED
    BY <1>1, <1>4, <2>2
<1>6. p \in Produced => Produce(p) = s
  BY DEF Produce, StepFor
<1>7. p \notin Produced => Slice(SourceOf(p), p) = s
  BY DEF Slice, StepFor
<1>8. QED
  BY <1>3, <1>5, <1>6, <1>7

(* The same of all paths of a finite family.                               *)
LEMMA ManyWrites ==
  ASSUME NEW K, IsFiniteSet(K), NEW Q, NEW f, \A k \in K : f[k] \in Q,
         NEW w, \A k \in K : w[k] = <<StepFor("mrt", f[k]), StepFor("manifest", f[k])>>,
         NEW s, s = FlattenSeq(SetToSeq({w[k] : k \in K}))
  PROVE  /\ s \in Seq(WritesOf(Q))
         /\ \A k \in K, h \in Halves : StepFor(h, f[k]) \in Range(s)
<1> DEFINE T == {w[k] : k \in K}
           v == [k \in K |-> w[k]]
<1>1. ASSUME NEW k \in K
      PROVE  w[k] \in Seq(WritesOf(Q)) /\ \A h \in Halves : StepFor(h, f[k]) \in Range(w[k])
  <2>1. f[k] \in Q
    OBVIOUS
  <2>2. w[k] = <<StepFor("mrt", f[k]), StepFor("manifest", f[k])>>
    OBVIOUS
  <2>3. QED
    BY <2>1, <2>2, TwoWrites
<1>2. IsFiniteSet(T)
  <2>1. v \in Surjection(K, T)
    BY DEF Surjection
  <2>2. QED
    BY <2>1, FS_Surjection
<1>3. T \subseteq Seq(WritesOf(Q))
  BY <1>1
<1>4. \A k \in K : w[k] \in T
  OBVIOUS
<1>5. s = FlattenSeq(SetToSeq(T))
  OBVIOUS
<1> HIDE DEF T
<1>6. s \in Seq(WritesOf(Q)) /\ \A t \in T : Range(t) \subseteq Range(s)
  BY <1>2, <1>3, <1>5, AllOfThem
<1>7. \A k \in K, h \in Halves : StepFor(h, f[k]) \in Range(s)
  BY <1>1, <1>4, <1>6
<1>8. QED
  BY <1>6, <1>7
-----------------------------------------------------------------------------
(* The parts of the script.                                                *)
LEMMA GeneratedKinds ==
  ASSUME NEW v \in Versions
  PROVE  /\ Piece(Produce(<<"corpus">>) \o GenerateKinds(v), Early)
         /\ \A h \in Halves : StepFor(h, <<"corpus">>) \in Range(Produce(<<"corpus">>) \o GenerateKinds(v))
         /\ \A h \in Halves, p \in {"fatal"} \X v.fatal :
              StepFor(h, p) \in Range(Produce(<<"corpus">>) \o GenerateKinds(v))
<1> DEFINE c == Produce(<<"corpus">>)
           f == [k \in v.fatal |-> <<"fatal", k>>]
           w == [k \in v.fatal |-> <<StepFor("mrt", f[k]), StepFor("manifest", f[k])>>]
           g == GenerateKinds(v)
<1>1. v.fatal \subseteq AllKinds /\ IsFiniteSet(v.fatal)
  BY VersionsAssumption, FilesAssumption, FS_Subset
<1>2. <<"corpus">> \in EarlyPaths /\ \A k \in v.fatal : f[k] \in EarlyPaths
  BY <1>1 DEF EarlyPaths
<1>3. <<"corpus">> \in Produced /\ \A k \in v.fatal : f[k] \in Produced
  BY <1>2 DEF Produced
<1>4. c \in Seq(Early) /\ \A h \in Halves : StepFor(h, <<"corpus">>) \in Range(c)
  <2>1. c = <<StepFor("mrt", <<"corpus">>), StepFor("manifest", <<"corpus">>)>>
    BY <1>2, <1>3, TwoWrites
  <2>2. QED
    BY <1>2, <2>1, TwoWrites DEF Early
<1>5. \A k \in v.fatal : w[k] = Produce(<<"fatal", k>>)
  BY <1>2, <1>3, TwoWrites
<1>6. g = FlattenSeq(SetToSeq({w[k] : k \in v.fatal}))
  <2>1. {w[k] : k \in v.fatal} = {Produce(<<"fatal", k>>) : k \in v.fatal}
    <3> HIDE DEF w
    <3>1. QED
      BY <1>5
  <2>2. QED
    BY <2>1 DEF GenerateKinds
<1>7. \A k \in v.fatal : w[k] = <<StepFor("mrt", f[k]), StepFor("manifest", f[k])>>
  OBVIOUS
<1>8. \A p \in {"fatal"} \X v.fatal : \E k \in v.fatal : p = f[k]
  OBVIOUS
<1> HIDE DEF f, w, c, g
<1>9. g \in Seq(WritesOf(EarlyPaths))
      /\ \A k \in v.fatal, h \in Halves : StepFor(h, f[k]) \in Range(g)
  BY <1>1, <1>2, <1>6, <1>7, ManyWrites
<1>10. g \in Seq(Early)
  BY <1>9 DEF Early
<1>11. c \o g \in Seq(Early) /\ Range(c \o g) = Range(c) \cup Range(g)
  BY <1>4, <1>10, InConcat
<1>12. Piece(c \o g, Early)
  <2>1. AllMayFollow(Early, Early)
    BY PartsOfScripts DEF AllMayFollow, MayFollow
  <2>2. QED
    BY <1>11, <2>1, PieceOf, PartsOfScripts
<1>13. QED
  BY <1>4, <1>8, <1>9, <1>11, <1>12 DEF c, g

(* Parts that stand between the generator and the parsers.                 *)
LEMMA BetweenPiece ==
  ASSUME NEW t \in Seq(Between)
  PROVE  Piece(t, Between)
<1>1. AllMayFollow(Between, Between)
  BY PartsOfScripts DEF AllMayFollow, MayFollow
<1>2. \A x \in Between : x.do # "build"
  BY PartsOfScripts
<1>3. QED
  BY <1>1, <1>2, PieceOf

LEMMA MainSlice ==
  ASSUME NEW i \in 1 .. 4
  PROVE  /\ SliceMain(i) \in Seq(Between)
         /\ <<MainSlices[i]>> \in MainPaths
         /\ \A h \in Halves : StepFor(h, <<MainSlices[i]>>) \in Range(SliceMain(i))
<1> DEFINE p == <<MainSlices[i]>>
           s == <<StepFor("mrt", p), StepFor("manifest", p)>>
           Q == RoutePaths \cup MainPaths \cup FatalSlices
<1>1. DOMAIN MainSlices = 1 .. 4
  BY DEF MainSlices
<1>2. p \in MainPaths
  BY <1>1 DEF MainPaths, Range
<1>3. p \notin Produced /\ SourceOf(p) = <<"corpus">>
  BY <1>2, PathFamilies DEF CutFromMain, SourceOf
<1>4. SliceMain(i) = Slice(SourceOf(p), p)
  BY <1>3 DEF SliceMain
<1>5. p \in Q
  BY <1>2
<1> HIDE DEF p, Q
<1>6. /\ s \in Seq(WritesOf(Q)) /\ Slice(SourceOf(p), p) = s
      /\ \A h \in Halves : StepFor(h, p) \in Range(s)
  BY <1>3, <1>5, TwoWrites
<1>7. WritesOf(Q) \subseteq Between
  BY DEF Between, Q
<1>8. s \in Seq(Between)
  BY <1>6, <1>7
<1> HIDE DEF s
<1>9. QED
  BY <1>2, <1>4, <1>6, <1>8 DEF p

LEMMA RouteLists ==
  LET s == FlattenSeq([i \in 1 .. Cardinality(RouteFiles) |-> Produce(<<SetToSeq(RouteFiles)[i]>>)])
  IN /\ s \in Seq(Between)
     /\ \A h \in Halves, p \in RoutePaths : StepFor(h, p) \in Range(s)
<1> DEFINE n == Cardinality(RouteFiles)
           e == SetToSeq(RouteFiles)
           t == [i \in 1 .. n |-> Produce(<<e[i]>>)]
           s == FlattenSeq(t)
<1>1. n \in Nat /\ e \in [1 .. n -> RouteFiles] /\ Range(e) = RouteFiles
  <2>1. IsFiniteSet(RouteFiles)
    BY FilesAssumption
  <2>2. PICK f : f \in Bijection(1 .. n, RouteFiles)
    BY <2>1, FS_CardinalityType DEF ExistsBijection
  <2>3. f \in [1 .. n -> RouteFiles] /\ IsInjective(f)
    BY <2>2 DEF Bijection, Injection, IsInjective
  <2>4. e \in [1 .. n -> RouteFiles]
    BY <2>3 DEF SetToSeq
  <2>5. QED
    BY <2>1, <2>4, FS_CardinalityType, InSomeOrder
<1> HIDE DEF e, n
<1>2. ASSUME NEW i \in 1 .. n
      PROVE  /\ t[i] \in Seq(Between)
             /\ \A h \in Halves : StepFor(h, <<e[i]>>) \in Range(t[i])
  <2> DEFINE p == <<e[i]>>
             Q == RoutePaths \cup MainPaths \cup FatalSlices
  <2>1. p \in RoutePaths
    BY <1>1 DEF RoutePaths
  <2>2. p \in Q /\ p \in Produced
    BY <2>1 DEF Produced
  <2>3. t[i] = Produce(p)
    OBVIOUS
  <2>4. WritesOf(Q) \subseteq Between
    BY DEF Between
  <2> HIDE DEF p, Q, t
  <2>5. Produce(p) \in Seq(WritesOf(Q)) /\ \A h \in Halves : StepFor(h, p) \in Range(Produce(p))
    BY <2>2, TwoWrites
  <2>6. QED
    BY <2>3, <2>4, <2>5 DEF p
<1>3. t \in Seq(Seq(Between)) /\ Len(t) = n
  <2>1. \A i \in 1 .. n : t[i] \in Seq(Between)
    BY <1>2
  <2>2. QED
    BY <1>1, <2>1
<1> HIDE DEF t
<1>4. s \in Seq(Between) /\ \A i \in 1 .. n : Range(t[i]) \subseteq Range(s)
  BY <1>3, FlattenCovers
<1>5. ASSUME NEW h \in Halves, NEW f \in RouteFiles
      PROVE  StepFor(h, <<f>>) \in Range(s)
  <2>1. PICK i \in 1 .. n : f = e[i]
    BY <1>1 DEF Range
  <2>2. StepFor(h, <<e[i]>>) \in Range(t[i])
    BY <1>2
  <2>3. QED
    BY <1>4, <2>1, <2>2
<1>6. QED
  BY <1>4, <1>5 DEF RoutePaths, s, t, n, e

LEMMA RecoveryPieces ==
  ASSUME NEW v \in Versions
  PROVE  /\ Piece(MakeRecoveries(v), RecoveriesOf(v))
         /\ \A h \in Halves, p \in {"recovery"} \X v.skips : StepFor(h, p) \in Range(MakeRecoveries(v))
<1> DEFINE f == [k \in v.skips |-> <<"recovery", k>>]
           w == [k \in v.skips |-> <<StepFor("mrt", f[k]), StepFor("manifest", f[k])>>]
           g == MakeRecoveries(v)
<1>1. v.skips \subseteq AllKinds /\ IsFiniteSet(v.skips)
  BY VersionsAssumption, FilesAssumption, FS_Subset
<1>2. \A k \in v.skips : f[k] \in RecoveryPaths
  BY <1>1 DEF RecoveryPaths
<1>3. \A k \in v.skips : f[k] \notin Produced /\ SourceOf(f[k]) = <<"corpus">>
  BY <1>2, PathFamilies DEF CutFromMain, SourceOf
<1>4. \A k \in v.skips : w[k] = Slice(<<"corpus">>, <<"recovery", k>>)
  <2>1. ASSUME NEW k \in v.skips PROVE w[k] = Slice(<<"corpus">>, <<"recovery", k>>)
    <3>1. w[k] = Slice(SourceOf(f[k]), f[k])
      BY <1>2, <1>3, TwoWrites
    <3>2. QED
      BY <1>3, <3>1
  <2>2. QED
    BY <2>1
<1>5. g = FlattenSeq(SetToSeq({w[k] : k \in v.skips}))
  <2>1. {w[k] : k \in v.skips} = {Slice(<<"corpus">>, <<"recovery", k>>) : k \in v.skips}
    <3> HIDE DEF w
    <3>1. QED
      BY <1>4
  <2>2. QED
    BY <2>1 DEF MakeRecoveries
<1>6. \A k \in v.skips : w[k] = <<StepFor("mrt", f[k]), StepFor("manifest", f[k])>>
  OBVIOUS
<1>7. \A k \in v.skips : f[k] \in {"recovery"} \X v.skips
  OBVIOUS
<1>8. \A p \in {"recovery"} \X v.skips : \E k \in v.skips : p = f[k]
  OBVIOUS
<1> HIDE DEF f, w, g
<1>9. g \in Seq(RecoveriesOf(v))
      /\ \A k \in v.skips, h \in Halves : StepFor(h, f[k]) \in Range(g)
  BY <1>1, <1>5, <1>6, <1>7, ManyWrites DEF RecoveriesOf
<1>10. Piece(g, RecoveriesOf(v))
  <2>1. AllMayFollow(RecoveriesOf(v), RecoveriesOf(v))
    BY PartsOfScripts, RecoveriesOfVersion DEF AllMayFollow, MayFollow
  <2>2. \A x \in RecoveriesOf(v) : x.do # "build"
    BY PartsOfScripts, RecoveriesOfVersion
  <2>3. QED
    BY <1>9, <2>1, <2>2, PieceOf
<1>11. QED
  BY <1>8, <1>9, <1>10 DEF g
LEMMA ParserPieces ==
  ASSUME NEW selection \in Selections
  PROVE  /\ Piece(Parsers(selection), Late)
         /\ \A p \in Range(selection) : Step("run", p) \in Range(Parsers(selection))
<1> DEFINE n == Len(selection)
           three(p) == <<Step("look-up", p), Step("build", p), Step("run", p)>>
           t == [i \in 1 .. n |-> three(selection[i])]
           G == {u \in Seq(Late) : Piece(u, Late)}
<1>1. /\ n \in Nat /\ DOMAIN selection = 1 .. n
      /\ \A p \in Range(selection) : p \in Asked
      /\ \A i \in 1 .. n : selection[i] \in Asked
  <2>1. selection \in Seq(Range(selection))
    BY SelectionsAssumption
  <2>2. n \in Nat /\ DOMAIN selection = 1 .. n
    BY <2>1
  <2>3. \A p \in Range(selection) : p \in Asked
    BY DEF Asked
  <2>4. \A i \in 1 .. n : selection[i] \in Range(selection)
    BY <2>2 DEF Range
  <2>5. QED
    BY <2>2, <2>3, <2>4
<1>2. Parsers(selection) = FlattenSeq(t)
  BY <1>1 DEF Parsers
<1>3. AllMayFollow(Late, Late)
  BY PartsOfScripts DEF AllMayFollow, MayFollow
<1>4. ASSUME NEW p \in Asked
      PROVE  three(p) \in G /\ Step("run", p) \in Range(three(p))
  <2> DEFINE u == three(p)
  <2>1. Step("look-up", p) \in Late /\ Step("build", p) \in Late /\ Step("run", p) \in Late
    BY DEF Late
  <2>2. u \in Seq(Late) /\ Len(u) = 3
    BY <2>1
  <2>3. u[1] = Step("look-up", p) /\ u[2] = Step("build", p) /\ u[3] = Step("run", p)
    OBVIOUS
  <2>4. /\ Step("look-up", p).do = "look-up" /\ Step("run", p).do = "run"
        /\ Step("build", p).path = p
    BY DEF Step
  <2> HIDE DEF u, three
  <2>5. \A i \in 1 .. 3 : u[i] \in Late /\ (i = 1 \/ i = 2 \/ i = 3)
    BY <2>1, <2>3
  <2>6. Ordered(u)
    BY <1>3, <2>2, <2>5 DEF Ordered, AllMayFollow
  <2>7. Paired(u)
    <3>1. SUFFICES ASSUME NEW i \in 1 .. 3, u[i].do = "build"
                   PROVE  i + 1 \in 1 .. 3 /\ u[i + 1] = Step("run", u[i].path)
      BY <2>2 DEF Paired
    <3>2. i = 2
      BY <2>3, <2>4, <2>5, <3>1
    <3>3. QED
      BY <2>3, <2>4, <3>2
  <2>8. Step("run", p) \in Range(u)
    <3>1. 3 \in DOMAIN u
      BY <2>2
    <3>2. QED
      BY <2>3, <3>1 DEF Range
  <2>9. QED
    BY <2>2, <2>6, <2>7, <2>8 DEF Piece, u
<1> HIDE DEF three
<1>5. << >> \in G
  BY DEF Piece, Ordered, Paired
<1>6. \A a \in G, b \in G : a \o b \in G
  <2>1. SUFFICES ASSUME NEW a, NEW b, Piece(a, Late), Piece(b, Late)
                 PROVE  Piece(a \o b, Late)
    BY DEF Piece
  <2>2. Link(a, b, Late, Late)
    BY <1>3, <2>1, Chain
  <2>3. QED
    BY <2>2 DEF Link, Joined
<1>7. \A i \in 1 .. n : t[i] = three(selection[i])
  OBVIOUS
<1>8. t \in Seq(G) /\ Len(t) = n
  <2>1. \A i \in 1 .. n : t[i] \in G
    BY <1>1, <1>4
  <2> HIDE DEF G
  <2>2. QED
    BY <1>1, <2>1
<1> HIDE DEF t
<1>9. FlattenSeq(t) \in G
  <2> HIDE DEF G
  <2>1. QED
    BY <1>5, <1>6, <1>8, FlattenIn
<1>10. \A i \in 1 .. n : Range(t[i]) \subseteq Range(FlattenSeq(t))
  <2>1. t \in Seq(Seq(Late))
    BY <1>8
  <2>2. QED
    BY <1>8, <2>1, FlattenCovers
<1>11. ASSUME NEW p \in Range(selection)
       PROVE  Step("run", p) \in Range(FlattenSeq(t))
  <2>1. PICK i \in 1 .. n : p = selection[i]
    BY <1>1 DEF Range
  <2>2. Step("run", p) \in Range(t[i])
    BY <1>1, <1>4, <1>7, <2>1
  <2>3. QED
    BY <1>10, <2>2
<1>12. QED
  BY <1>2, <1>9, <1>11

(* The script is in order and has all there is to do.                      *)
LEMMA Scripts ==
  ASSUME NEW v \in Versions, NEW selection \in Selections
  PROVE  LET s == Script(v, selection)
         IN /\ s \in Seq(AllSteps) /\ Ordered(s) /\ Paired(s)
            /\ \A h \in Halves, p \in ToProduce(v) \cup ToCut(v) : StepFor(h, p) \in Range(s)
            /\ \A k \in AllKinds \ v.skips, h \in Halves :
                 StepFor(h, <<"recovery", k>>) \notin Range(s)
            /\ Removal \in Range(s)
            /\ \A dir \in FatalDirs : Glob(dir) \in Range(s)
            /\ \A p \in Range(selection) : Step("run", p) \in Range(s)
<1> DEFINE p1 == Produce(<<"corpus">>) \o GenerateKinds(v)
           p2 == Joined(p1, SliceMain(1))
           r3 == FlattenSeq([i \in 1 .. Cardinality(RouteFiles) |->
                               Produce(<<SetToSeq(RouteFiles)[i]>>)])
           p3 == Joined(p2, r3)
           p4 == Joined(p3, SliceMain(2))
           p5 == Joined(p4, SliceMain(3))
           g6 == <<Glob("bgp-fatal")>>
           p6 == Joined(p5, g6)
           r7 == <<Removal>>
           p7 == Joined(p6, r7)
           r8 == MakeRecoveries(v)
           p8 == Joined(p7, r8)
           p9 == Joined(p8, SliceMain(4))
           g10 == <<Glob("bgpdump-fatal")>>
           p10 == Joined(p9, g10)
           r11 == Parsers(selection)
           p11 == Joined(p10, r11)
           Z == Early \cup Between
           ZR == Z \cup {Removal}
           ZZ == ZR \cup RecoveriesOf(v)
           All == ZZ \cup Late
<1>1. Script(v, selection) = p11
  BY DEF Script, Removal, Joined
<1>2. Piece(p1, Early)
  BY GeneratedKinds
<1>3. /\ Piece(SliceMain(1), Between) /\ Piece(SliceMain(2), Between)
      /\ Piece(SliceMain(3), Between) /\ Piece(SliceMain(4), Between)
  BY MainSlice, BetweenPiece
<1>4. Piece(r3, Between) /\ \A h \in Halves, p \in RoutePaths : StepFor(h, p) \in Range(r3)
  BY RouteLists, BetweenPiece
<1>5. /\ Piece(g6, Between) /\ Glob("bgp-fatal") \in Range(g6)
      /\ Piece(g10, Between) /\ Glob("bgpdump-fatal") \in Range(g10)
  <2>1. Glob("bgp-fatal") \in Between /\ Glob("bgpdump-fatal") \in Between
    BY DEF Between, Globs, FatalDirs
  <2>2. g6 \in Seq(Between) /\ g10 \in Seq(Between)
    BY <2>1
  <2>3. DOMAIN g6 = 1 .. 1 /\ DOMAIN g10 = 1 .. 1 /\ 1 \in 1 .. 1
    OBVIOUS
  <2>4. g6[1] = Glob("bgp-fatal") /\ g10[1] = Glob("bgpdump-fatal")
    OBVIOUS
  <2>5. QED
    BY <2>2, <2>3, <2>4, BetweenPiece DEF Range
<1>6. Piece(r7, {Removal}) /\ Removal \in Range(r7)
  <2>1. r7 \in Seq({Removal}) /\ DOMAIN r7 = 1 .. 1 /\ 1 \in 1 .. 1 /\ r7[1] = Removal
    OBVIOUS
  <2>2. AllMayFollow({Removal}, {Removal}) /\ \A x \in {Removal} : x.do # "build"
    BY PartsOfScripts DEF AllMayFollow, MayFollow
  <2>3. Piece(r7, {Removal})
    BY <2>1, <2>2, PieceOf
  <2>4. QED
    BY <2>1, <2>3 DEF Range
<1>7. /\ Piece(r8, RecoveriesOf(v))
      /\ \A h \in Halves, p \in {"recovery"} \X v.skips : StepFor(h, p) \in Range(r8)
  BY RecoveryPieces
<1>8. Piece(r11, Late) /\ \A p \in Range(selection) : Step("run", p) \in Range(r11)
  BY ParserPieces
<1>9. \A h \in Halves, p \in {<<"corpus">>} \cup ({"fatal"} \X v.fatal) : StepFor(h, p) \in Range(p1)
  BY GeneratedKinds
<1>10. /\ AllMayFollow(Early, Between) /\ AllMayFollow(Z, Between)
       /\ AllMayFollow(Z, {Removal}) /\ AllMayFollow(ZR, RecoveriesOf(v))
       /\ AllMayFollow(ZZ, Between) /\ AllMayFollow(ZZ, Late)
  BY PartsOfScripts, RecoveriesOfVersion DEF AllMayFollow, MayFollow
<1> HIDE DEF p1, p2, r3, p3, p4, p5, g6, p6, r7, p7, r8, p8, p9, g10, p10, r11, p11
<1>11. /\ Early \cup Between = Z /\ Z \cup Between = Z /\ Z \cup {Removal} = ZR
       /\ ZR \cup RecoveriesOf(v) = ZZ /\ ZZ \cup Between = ZZ /\ ZZ \cup Late = All
  OBVIOUS
<1> HIDE DEF Z, ZR, ZZ, All
<1>12. Piece(p2, Z) /\ Range(p2) = Range(p1) \cup Range(SliceMain(1))
  <2>1. Piece(p1, Early) /\ Piece(SliceMain(1), Between) /\ AllMayFollow(Early, Between)
    BY <1>2, <1>3, <1>10
  <2>2. Link(p1, SliceMain(1), Early, Between)
    BY <2>1, Chain
  <2>3. QED
    BY <2>2, <1>11, Zenon DEF Link, p2
<1>13. Piece(p3, Z) /\ Range(p3) = Range(p2) \cup Range(r3)
  <2>1. Piece(p2, Z) /\ Piece(r3, Between) /\ AllMayFollow(Z, Between)
    BY <1>4, <1>12, <1>10
  <2>2. Link(p2, r3, Z, Between)
    BY <2>1, Chain
  <2>3. QED
    BY <2>2, <1>11, Zenon DEF Link, p3
<1>14. Piece(p4, Z) /\ Range(p4) = Range(p3) \cup Range(SliceMain(2))
  <2>1. Piece(p3, Z) /\ Piece(SliceMain(2), Between) /\ AllMayFollow(Z, Between)
    BY <1>3, <1>13, <1>10
  <2>2. Link(p3, SliceMain(2), Z, Between)
    BY <2>1, Chain
  <2>3. QED
    BY <2>2, <1>11, Zenon DEF Link, p4
<1>15. Piece(p5, Z) /\ Range(p5) = Range(p4) \cup Range(SliceMain(3))
  <2>1. Piece(p4, Z) /\ Piece(SliceMain(3), Between) /\ AllMayFollow(Z, Between)
    BY <1>3, <1>14, <1>10
  <2>2. Link(p4, SliceMain(3), Z, Between)
    BY <2>1, Chain
  <2>3. QED
    BY <2>2, <1>11, Zenon DEF Link, p5
<1>16. Piece(p6, Z) /\ Range(p6) = Range(p5) \cup Range(g6)
  <2>1. Piece(p5, Z) /\ Piece(g6, Between) /\ AllMayFollow(Z, Between)
    BY <1>5, <1>15, <1>10
  <2>2. Link(p5, g6, Z, Between)
    BY <2>1, Chain
  <2>3. QED
    BY <2>2, <1>11, Zenon DEF Link, p6
<1>17. Piece(p7, ZR) /\ Range(p7) = Range(p6) \cup Range(r7)
  <2>1. Piece(p6, Z) /\ Piece(r7, {Removal}) /\ AllMayFollow(Z, {Removal})
    BY <1>6, <1>16, <1>10
  <2>2. Link(p6, r7, Z, {Removal})
    BY <2>1, Chain
  <2>3. QED
    BY <2>2, <1>11, Zenon DEF Link, p7
<1>18. Piece(p8, ZZ) /\ Range(p8) = Range(p7) \cup Range(r8)
  <2>1. Piece(p7, ZR) /\ Piece(r8, RecoveriesOf(v)) /\ AllMayFollow(ZR, RecoveriesOf(v))
    BY <1>7, <1>17, <1>10
  <2>2. Link(p7, r8, ZR, RecoveriesOf(v))
    BY <2>1, Chain
  <2>3. QED
    BY <2>2, <1>11, Zenon DEF Link, p8
<1>19. Piece(p9, ZZ) /\ Range(p9) = Range(p8) \cup Range(SliceMain(4))
  <2>1. Piece(p8, ZZ) /\ Piece(SliceMain(4), Between) /\ AllMayFollow(ZZ, Between)
    BY <1>3, <1>18, <1>10
  <2>2. Link(p8, SliceMain(4), ZZ, Between)
    BY <2>1, Chain
  <2>3. QED
    BY <2>2, <1>11, Zenon DEF Link, p9
<1>20. Piece(p10, ZZ) /\ Range(p10) = Range(p9) \cup Range(g10)
  <2>1. Piece(p9, ZZ) /\ Piece(g10, Between) /\ AllMayFollow(ZZ, Between)
    BY <1>5, <1>19, <1>10
  <2>2. Link(p9, g10, ZZ, Between)
    BY <2>1, Chain
  <2>3. QED
    BY <2>2, <1>11, Zenon DEF Link, p10
<1>21. Piece(p11, All) /\ Range(p11) = Range(p10) \cup Range(r11)
  <2>1. Piece(p10, ZZ) /\ Piece(r11, Late) /\ AllMayFollow(ZZ, Late)
    BY <1>8, <1>20, <1>10
  <2>2. Link(p10, r11, ZZ, Late)
    BY <2>1, Chain
  <2>3. QED
    BY <2>2, <1>11, Zenon DEF Link, p11
<1>22. /\ Range(p1) \subseteq Range(p11) /\ Range(SliceMain(1)) \subseteq Range(p11)
       /\ Range(r3) \subseteq Range(p11) /\ Range(SliceMain(2)) \subseteq Range(p11)
       /\ Range(SliceMain(3)) \subseteq Range(p11) /\ Range(g6) \subseteq Range(p11)
       /\ Range(r7) \subseteq Range(p11) /\ Range(r8) \subseteq Range(p11)
       /\ Range(SliceMain(4)) \subseteq Range(p11) /\ Range(g10) \subseteq Range(p11)
       /\ Range(r11) \subseteq Range(p11)
  BY <1>12, <1>13, <1>14, <1>15, <1>16, <1>17, <1>18, <1>19, <1>20, <1>21
<1>23. p11 \in Seq(AllSteps) /\ Ordered(p11) /\ Paired(p11)
  <2>1. All \subseteq AllSteps
    BY PartsOfScripts, RecoveriesOfVersion DEF Z, ZR, ZZ, All
  <2>2. QED
    BY <1>21, <2>1 DEF Piece
<1>24. ASSUME NEW h \in Halves, NEW p \in MainPaths
       PROVE  StepFor(h, p) \in Range(p11)
  <2>1. PICK i \in 1 .. 4 : p = <<MainSlices[i]>>
    <3>1. DOMAIN MainSlices = 1 .. 4
      BY DEF MainSlices
    <3>2. QED
      BY <3>1 DEF MainPaths, Range
  <2>2. StepFor(h, p) \in Range(SliceMain(i))
    BY <2>1, MainSlice
  <2>3. i = 1 \/ i = 2 \/ i = 3 \/ i = 4
    OBVIOUS
  <2>4. QED
    BY <1>22, <2>2, <2>3
<1>25. \A h \in Halves, p \in ToProduce(v) \cup ToCut(v) : StepFor(h, p) \in Range(p11)
  BY <1>4, <1>7, <1>9, <1>22, <1>24 DEF ToProduce, ToCut
<1>26. ASSUME NEW k \in AllKinds \ v.skips, NEW h \in Halves,
              StepFor(h, <<"recovery", k>>) \in Range(p11)
       PROVE  FALSE
  <2> DEFINE p == <<"recovery", k>>
  <2>1. p \in RecoveryPaths /\ p \notin {"recovery"} \X v.skips
    BY DEF RecoveryPaths
  <2>2. StepFor(h, p) \in All
    BY <1>21, <1>26 DEF Piece, Range
  <2>3. p \in Paths
    BY <2>1, PathFamilies DEF CutFromMain
  <2> HIDE DEF p
  <2>4. StepFor(h, p) \in Recoveries
    BY <2>1, <2>3, WriteFamilies
  <2>5. StepFor(h, p) \in RecoveriesOf(v)
    BY <2>2, <2>4, PartsOfScripts DEF Z, ZR, ZZ, All
  <2>6. PICK g \in Halves, q \in {"recovery"} \X v.skips : StepFor(h, p) = StepFor(g, q)
    BY <2>5 DEF RecoveriesOf, WritesOf
  <2>7. p = q
    BY <2>6, StepForm
  <2>8. QED
    BY <2>1, <2>7
<1>27. Removal \in Range(p11) /\ \A dir \in FatalDirs : Glob(dir) \in Range(p11)
  BY <1>5, <1>6, <1>22 DEF FatalDirs
<1>28. \A p \in Range(selection) : Step("run", p) \in Range(p11)
  BY <1>8, <1>22
<1>29. QED
  BY <1>1, <1>23, <1>25, <1>26, <1>27, <1>28
-----------------------------------------------------------------------------
(* The first of the steps left.                                            *)
LEMMA FirstStep ==
  ASSUME Scripted, todo # << >>
  PROVE  /\ Head(todo) \in AllSteps
         /\ Piece(Tail(todo), AllSteps)
         /\ Range(todo) = {Head(todo)} \cup Range(Tail(todo))
         /\ \A y \in Range(Tail(todo)) : MayFollow(Head(todo), y)
BY Rest DEF Scripted, Piece

LEMMA WriteStep ==
  ASSUME NEW x \in AllSteps, x.do \in Writes
  PROVE  \E h \in Halves, p \in Paths : x = StepFor(h, p)
<1>1. x \in WritesOf(Paths)
  BY StepKinds DEF AllSteps, Writes
<1>2. QED
  BY <1>1 DEF WritesOf

(* Writing a half of a path leaves the others alone.                       *)
LEMMA Written ==
  ASSUME Filed, NEW p \in Paths, NEW h \in Halves, NEW c, Holds(p, h, c)
  PROVE  /\ Filed'
         /\ disk'[p][h] = c
         /\ \A q \in Paths, g \in Halves : q # p \/ g # h => disk'[q][g] = disk[q][g]
<1>1. /\ disk = [q \in Paths |-> disk[q]]
      /\ \A q \in Paths : disk[q] = [mrt |-> disk[q].mrt, manifest |-> disk[q].manifest]
  BY DEF Filed
<1>2. h = "mrt" \/ h = "manifest"
  BY DEF Halves
<1>3. disk' = [disk EXCEPT ![p] = [disk[p] EXCEPT ![h] = c]]
  BY DEF Holds
<1>4. disk' = [q \in Paths |-> disk'[q]]
  BY <1>1, <1>3
<1>5. \A q \in Paths : disk'[q] = IF q = p THEN [disk[p] EXCEPT ![h] = c] ELSE disk[q]
  BY <1>1, <1>3
<1>6. DOMAIN disk[p] = {"mrt", "manifest"}
  BY <1>1
<1>7. \A q \in Paths : disk'[q] = [mrt |-> disk'[q].mrt, manifest |-> disk'[q].manifest]
  <2>1. disk'[p] = [mrt |-> disk'[p].mrt, manifest |-> disk'[p].manifest]
    BY <1>1, <1>2, <1>5
  <2>2. QED
    BY <1>1, <1>5, <2>1
<1>8. disk'[p][h] = c
  BY <1>2, <1>5, <1>6
<1>9. \A q \in Paths, g \in Halves : q # p \/ g # h => disk'[q][g] = disk[q][g]
  BY <1>2, <1>5, <1>6 DEF Halves
<1>10. QED
  BY <1>4, <1>7, <1>8, <1>9 DEF Filed

(* Work on the disk is unaffected by steps that do not touch it, as long   *)
(* as only steps of the parsers are gone.                                  *)
LEMMA DiskWorkKept ==
  ASSUME ProducedOnce, CutOnce, EmptiedOnce, FatalsOnce,
         UNCHANGED <<version, run, disk>>,
         Range(todo') \subseteq Range(todo),
         \A x \in Range(todo) : x \in Range(todo') \/ x \in Late,
         Typed
  PROVE  (ProducedOnce /\ CutOnce /\ EmptiedOnce /\ FatalsOnce)'
<1>1. version \in Versions /\ version.fatal \subseteq AllKinds /\ version.skips \subseteq AllKinds
  BY VersionsAssumption DEF Typed
<1>2. ToProduce(version) \subseteq Paths /\ ToCut(version) \subseteq Paths /\ FatalSlices \subseteq Paths
  BY <1>1, PathFamilies DEF ToProduce, ToCut, Produced, CutFromMain, EarlyPaths, RecoveryPaths
<1>3. \A h \in Halves, p \in Paths : StepFor(h, p) \in Range(todo) => StepFor(h, p) \in Range(todo')
  BY WriteFamilies
<1>4. Removal \in Range(todo) => Removal \in Range(todo')
  BY PartsOfScripts
<1>5. \A p \in FatalSlices : Glob(p[1]) \in Range(todo) => Glob(p[1]) \in Range(todo')
  <2>1. \A p \in FatalSlices : Glob(p[1]) \in Globs
    BY DEF Globs, FatalDirs, FatalSlices
  <2>2. \A x \in Globs : x \notin Late
    BY StepKinds
  <2>3. QED
    BY <2>1, <2>2
<1>6. ProducedOnce'
  BY <1>2, <1>3 DEF ProducedOnce, Pending
<1>7. CutOnce'
  BY <1>2, <1>3 DEF CutOnce, Pending, MainCut
<1>8. EmptiedOnce'
  BY <1>4 DEF EmptiedOnce, Pending
<1>9. FatalsOnce'
  <2>1. SUFFICES ASSUME NEW p \in FatalSlices, NEW h \in Halves
                 PROVE  Glob(p[1]) \in Range(todo') \/ StepFor(h, p) \in Range(todo') \/ FatalCut(p, h)'
    BY DEF FatalsOnce, Pending
  <2>2. CASE FatalCut(p, h)
    BY <2>2 DEF FatalCut
  <2>3. CASE Glob(p[1]) \in Range(todo) \/ StepFor(h, p) \in Range(todo)
    BY <1>2, <1>3, <1>5, <2>3
  <2>4. QED
    BY <2>2, <2>3 DEF FatalsOnce, Pending
<1>10. QED
  BY <1>6, <1>7, <1>8, <1>9
(* What a write of the script has to write.                                *)
RightContent(p, c) ==
  IF p \in Produced THEN c = Generated(run)
  ELSE Readable(SourceOf(p)) /\ c = Cut(disk[SourceOf(p)].mrt, disk[SourceOf(p)].manifest, run)

(* Once a first step is not the generator's, what the generator had to do  *)
(* is done.                                                                *)
LEMMA GeneratorDone ==
  ASSUME Scripted, ProducedOnce, todo # << >>, Head(todo) \notin Early
  PROVE  /\ Range(todo) \cap Early = {}
         /\ disk[<<"corpus">>]["mrt"] = Generated(run)
         /\ disk[<<"corpus">>]["manifest"] = Generated(run)
<1>1. Range(todo) \cap Early = {}
  BY FirstStep DEF MayFollow
<1>2. \A h \in Halves : StepFor(h, <<"corpus">>) \in Early
  BY DEF Early, WritesOf, EarlyPaths
<1>3. \A h \in Halves : disk[<<"corpus">>][h] = Generated(run)
  BY <1>1, <1>2 DEF ProducedOnce, ToProduce, Pending
<1>4. QED
  BY <1>1, <1>3 DEF Halves

LEMMA WriteKeeps ==
  ASSUME Typed, Scripted, ProducedOnce, CutOnce, EmptiedOnce, FatalsOnce,
         todo # << >>,
         NEW h \in Halves, NEW p \in Paths, Head(todo) = StepFor(h, p),
         NEW c, Holds(p, h, c), RightContent(p, c),
         todo' = Tail(todo), UNCHANGED <<version, run>>
  PROVE  (ProducedOnce /\ CutOnce /\ EmptiedOnce /\ FatalsOnce)'
<1>1. version \in Versions /\ version.fatal \subseteq AllKinds /\ version.skips \subseteq AllKinds
  BY VersionsAssumption DEF Typed
<1>2. ToProduce(version) \subseteq Produced /\ ToCut(version) \subseteq CutFromMain
  BY <1>1 DEF ToProduce, ToCut, Produced, CutFromMain, EarlyPaths, RecoveryPaths
<1>3. /\ Produced \subseteq Paths /\ CutFromMain \subseteq Paths /\ FatalSlices \subseteq Paths
      /\ EarlyPaths \subseteq Produced /\ RecoveryPaths \subseteq CutFromMain
      /\ \A q \in CutFromMain : q \notin Produced /\ SourceOf(q) = <<"corpus">>
      /\ \A q \in FatalSlices : q \notin Produced /\ SourceOf(q) = <<"fatal", q[2]>>
      /\ \A q \in FatalSlices : <<"fatal", q[2]>> \in EarlyPaths
  BY PathFamilies DEF Produced, CutFromMain, SourceOf, EarlyPaths, FatalSlices
<1>4. Range(todo) = {StepFor(h, p)} \cup Range(todo')
  BY FirstStep
<1>5. disk'[p][h] = c /\ \A q \in Paths, g \in Halves : q # p \/ g # h => disk'[q][g] = disk[q][g]
  BY Written DEF Typed
<1>6. ASSUME NEW g \in Halves, NEW q \in Paths, q # p \/ g # h, StepFor(g, q) \in Range(todo)
      PROVE  StepFor(g, q) \in Range(todo')
  BY <1>4, <1>6, WriteFamilies
<1>7. ASSUME p \notin EarlyPaths
      PROVE  Range(todo) \cap Early = {} /\ Range(todo') \cap Early = {}
  <2>1. Head(todo) \notin Early
    BY <1>7, WriteFamilies
  <2>2. QED
    BY <1>4, <2>1, GeneratorDone
<1>8. ProducedOnce'
  <2>1. SUFFICES ASSUME NEW q \in ToProduce(version), NEW g \in Halves
                 PROVE  StepFor(g, q) \in Range(todo') \/ disk'[q][g] = Generated(run)
    BY DEF ProducedOnce, Pending
  <2>2. q \in Produced /\ q \in Paths
    BY <1>2, <1>3
  <2>3. CASE q = p /\ g = h
    BY <1>5, <2>2, <2>3 DEF RightContent
  <2>4. CASE q # p \/ g # h
    BY <1>5, <1>6, <2>2, <2>4 DEF ProducedOnce, Pending
  <2>5. QED
    BY <2>3, <2>4
<1>9. CutOnce'
  <2>1. SUFFICES ASSUME NEW q \in ToCut(version), NEW g \in Halves
                 PROVE  \/ StepFor(g, q) \in Range(todo')
                        \/ /\ disk'[q][g] = MainCut
                           /\ q \in RecoveryPaths => Removal \notin Range(todo')
    BY DEF CutOnce, Pending, MainCut
  <2>2. q \in CutFromMain /\ q \in Paths
    BY <1>2, <1>3
  <2>3. CASE q = p /\ g = h
    <3>1. p \notin Produced /\ SourceOf(p) = <<"corpus">>
      BY <1>3, <2>2, <2>3
    <3>2. p \notin EarlyPaths
      BY <1>3, <3>1
    <3>3. Head(todo) \notin Early
      BY <3>2, WriteFamilies
    <3>4. /\ disk[<<"corpus">>]["mrt"] = Generated(run)
          /\ disk[<<"corpus">>]["manifest"] = Generated(run)
      BY <3>3, GeneratorDone
    <3>5. c = MainCut
      BY <3>1, <3>4 DEF RightContent, MainCut
    <3>6. ASSUME q \in RecoveryPaths PROVE Removal \notin Range(todo')
      <4>1. Head(todo) \in Recoveries
        BY <2>3, <3>6, WriteFamilies
      <4>2. QED
        BY <4>1, FirstStep DEF MayFollow
    <3>7. QED
      BY <1>5, <2>3, <3>5, <3>6
  <2>4. CASE q # p \/ g # h
    <3>1. disk'[q][g] = disk[q][g]
      BY <1>5, <2>2, <2>4
    <3>2. CASE StepFor(g, q) \in Range(todo)
      BY <1>6, <2>2, <2>4, <3>2
    <3>3. CASE disk[q][g] = MainCut /\ (q \in RecoveryPaths => Removal \notin Range(todo))
      BY <1>4, <3>1, <3>3
    <3>4. QED
      BY <3>2, <3>3 DEF CutOnce, Pending
  <2>5. QED
    BY <2>3, <2>4
<1>10. EmptiedOnce'
  <2>1. SUFFICES ASSUME NEW k \in AllKinds \ version.skips
                 PROVE  /\ \A g \in Halves : StepFor(g, <<"recovery", k>>) \notin Range(todo')
                        /\ Removal \in Range(todo') \/ disk'[<<"recovery", k>>].mrt = Absent
    BY DEF EmptiedOnce, Pending
  <2>2. \A g \in Halves : StepFor(g, <<"recovery", k>>) \notin Range(todo)
    BY DEF EmptiedOnce, Pending
  <2>3. p # <<"recovery", k>>
    BY <1>4, <2>2
  <2>4. <<"recovery", k>> \in Paths
    BY <1>3 DEF RecoveryPaths
  <2>5. disk'[<<"recovery", k>>]["mrt"] = disk[<<"recovery", k>>]["mrt"]
    BY <1>5, <2>3, <2>4 DEF Halves
  <2>6. Removal # StepFor(h, p)
    BY WriteFamilies
  <2>7. QED
    BY <1>4, <2>2, <2>5, <2>6 DEF EmptiedOnce
<1>11. FatalsOnce'
  <2>1. SUFFICES ASSUME NEW q \in FatalSlices, NEW g \in Halves
                 PROVE  Glob(q[1]) \in Range(todo') \/ StepFor(g, q) \in Range(todo') \/ FatalCut(q, g)'
    BY DEF FatalsOnce, Pending
  <2> DEFINE from == <<"fatal", q[2]>>
  <2>2. q \in Paths /\ q \notin Produced /\ SourceOf(q) = from /\ from \in EarlyPaths /\ from \in Paths
    BY <1>3
  <2>3. Glob(q[1]) # StepFor(h, p)
    <3>1. Glob(q[1]) \in Globs
      BY DEF Globs, FatalDirs, FatalSlices
    <3>2. QED
      BY <3>1, WriteFamilies
  <2> HIDE DEF from
  <2>4. FatalCut(q, g)' <=>
          /\ Range(todo') \cap Early = {}
          /\ disk'[from]["mrt"] # Absent =>
               /\ Whole(disk'[from]["manifest"])
               /\ disk'[q][g] = Cut(disk'[from]["mrt"], disk'[from]["manifest"], run)
    BY DEF FatalCut, from
  <2>5. FatalCut(q, g) <=>
          /\ Range(todo) \cap Early = {}
          /\ disk[from]["mrt"] # Absent =>
               /\ Whole(disk[from]["manifest"])
               /\ disk[q][g] = Cut(disk[from]["mrt"], disk[from]["manifest"], run)
    BY DEF FatalCut, from
  <2>6. p \notin EarlyPaths =>
          disk'[from]["mrt"] = disk[from]["mrt"] /\ disk'[from]["manifest"] = disk[from]["manifest"]
    <3>1. "mrt" \in Halves /\ "manifest" \in Halves
      BY DEF Halves
    <3>2. QED
      BY <1>5, <2>2, <3>1
  <2>7. CASE q = p /\ g = h
    <3>1. p \notin EarlyPaths
      BY <1>3, <2>2, <2>7
    <3>2. /\ Whole(disk[from]["manifest"])
          /\ c = Cut(disk[from]["mrt"], disk[from]["manifest"], run)
      BY <2>2, <2>7 DEF RightContent, Readable
    <3>3. QED
      BY <1>5, <1>7, <2>4, <2>6, <2>7, <3>1, <3>2
  <2>8. CASE q # p \/ g # h
    <3>1. disk'[q][g] = disk[q][g]
      BY <1>5, <2>2, <2>8
    <3>2. CASE Glob(q[1]) \in Range(todo)
      BY <1>4, <2>3, <3>2
    <3>3. CASE StepFor(g, q) \in Range(todo)
      BY <1>6, <2>2, <2>8, <3>3
    <3>4. CASE FatalCut(q, g)
      <4>1. p \notin EarlyPaths
        <5>1. StepFor(h, p) \notin Early
          BY <1>4, <2>5, <3>4
        <5>2. QED
          BY <5>1, WriteFamilies
      <4>2. QED
        BY <1>7, <2>4, <2>5, <2>6, <3>1, <3>4, <4>1
    <3>5. QED
      BY <3>2, <3>3, <3>4 DEF FatalsOnce, Pending
  <2>9. QED
    BY <2>7, <2>8
<1>12. QED
  BY <1>8, <1>9, <1>10, <1>11
(* What a glob is expanded to.                                             *)
LEMMA Expansion ==
  ASSUME NEW dir \in FatalDirs
  PROVE  /\ SliceFatals(dir) \in Seq(WritesOf(FatalSlices))
         /\ \A k \in AllKinds, h \in Halves : disk[<<"fatal", k>>].mrt # Absent =>
              StepFor(h, <<dir, k>>) \in Range(SliceFatals(dir))
<1> DEFINE K == {x \in AllKinds : disk[<<"fatal", x>>].mrt # Absent}
           f == [k \in K |-> <<dir, k>>]
           w == [k \in K |-> <<StepFor("mrt", f[k]), StepFor("manifest", f[k])>>]
           s == SliceFatals(dir)
<1>1. IsFiniteSet(K)
  BY FilesAssumption, FS_Subset
<1>2. \A k \in K : f[k] \in FatalSlices
  BY DEF FatalSlices, FatalDirs
<1>3. \A k \in K : f[k] \notin Produced /\ SourceOf(f[k]) = <<"fatal", k>>
  BY <1>2, PathFamilies DEF SourceOf
<1>4. \A k \in K : w[k] = Slice(<<"fatal", k>>, <<dir, k>>)
  <2>1. ASSUME NEW k \in K PROVE w[k] = Slice(<<"fatal", k>>, <<dir, k>>)
    <3>1. w[k] = Slice(SourceOf(f[k]), f[k])
      BY <1>2, <1>3, TwoWrites
    <3>2. QED
      BY <1>3, <3>1
  <2>2. QED
    BY <2>1
<1>5. s = FlattenSeq(SetToSeq({w[k] : k \in K}))
  <2>1. {w[k] : k \in K} = {Slice(<<"fatal", k>>, <<dir, k>>) : k \in K}
    <3> HIDE DEF w
    <3>1. QED
      BY <1>4
  <2>2. QED
    BY <2>1 DEF SliceFatals
<1>6. \A k \in K : w[k] = <<StepFor("mrt", f[k]), StepFor("manifest", f[k])>>
  OBVIOUS
<1>7. \A k \in AllKinds : disk[<<"fatal", k>>].mrt # Absent => k \in K /\ f[k] = <<dir, k>>
  OBVIOUS
<1> HIDE DEF K, f, w, s
<1>8. s \in Seq(WritesOf(FatalSlices))
      /\ \A k \in K, h \in Halves : StepFor(h, f[k]) \in Range(s)
  BY <1>1, <1>2, <1>5, <1>6, ManyWrites
<1>9. QED
  BY <1>7, <1>8 DEF s

LEMMA InOwnRange ==
  ASSUME NEW X, NEW s, Piece(s, X)
  PROVE  Piece(s, Range(s))
<1>1. s \in Seq(X)
  BY DEF Piece
<1>2. \A i \in 1 .. Len(s) : s[i] \in Range(s)
  BY <1>1 DEF Range
<1>3. s \in Seq(Range(s))
  BY <1>1, <1>2
<1>4. QED
  BY <1>3 DEF Piece

LEMMA GlobKeeps ==
  ASSUME Typed, Scripted, ProducedOnce, CutOnce, EmptiedOnce, FatalsOnce,
         todo # << >>, NEW dir \in FatalDirs, Head(todo) = Glob(dir),
         todo' = SliceFatals(dir) \o Tail(todo), UNCHANGED <<version, run, disk>>
  PROVE  /\ Scripted'
         /\ (ProducedOnce /\ CutOnce /\ EmptiedOnce /\ FatalsOnce)'
         /\ \A x \in Late : x \in Range(todo) => x \in Range(todo')
<1> DEFINE s == SliceFatals(dir)
<1>1. version \in Versions /\ version.fatal \subseteq AllKinds /\ version.skips \subseteq AllKinds
  BY VersionsAssumption DEF Typed
<1>2. ToProduce(version) \subseteq Paths /\ ToCut(version) \subseteq Paths /\ FatalSlices \subseteq Paths
  BY <1>1, PathFamilies DEF ToProduce, ToCut, Produced, CutFromMain, EarlyPaths, RecoveryPaths
<1>3. Glob(dir) \in Globs /\ Glob(dir) \in Between
  BY DEF Globs, Between
<1>4. Glob(dir) \notin Early /\ Glob(dir) # Removal /\ Glob(dir) \notin Late
  BY <1>3, PartsOfScripts
<1>5. WritesOf(FatalSlices) \subseteq Between /\ WritesOf(FatalSlices) \subseteq AllSteps
  BY PartsOfScripts DEF Between, WritesOf
<1>6. s \in Seq(WritesOf(FatalSlices))
  BY Expansion
<1> HIDE DEF s
<1>7. \A x \in Range(s) : x \in WritesOf(FatalSlices)
  BY <1>6 DEF Range
<1>8. /\ Piece(Tail(todo), AllSteps)
      /\ Range(todo) = {Glob(dir)} \cup Range(Tail(todo))
      /\ \A y \in Range(Tail(todo)) : y \notin Early
  BY <1>4, FirstStep DEF MayFollow
<1>9. Link(s, Tail(todo), WritesOf(FatalSlices), Range(Tail(todo)))
  <2>1. AllMayFollow(WritesOf(FatalSlices), WritesOf(FatalSlices))
    BY <1>5, PartsOfScripts DEF AllMayFollow, MayFollow
  <2>2. \A x \in WritesOf(FatalSlices) : x.do # "build"
    BY <1>5, PartsOfScripts
  <2>3. Piece(s, WritesOf(FatalSlices))
    BY <1>6, <2>1, <2>2, PieceOf
  <2>4. Piece(Tail(todo), Range(Tail(todo)))
    BY <1>8, InOwnRange
  <2>5. AllMayFollow(WritesOf(FatalSlices), Range(Tail(todo)))
    BY <1>5, <1>8, PartsOfScripts DEF AllMayFollow, MayFollow
  <2>6. QED
    BY <2>3, <2>4, <2>5, Chain
<1>10. /\ Piece(todo', WritesOf(FatalSlices) \cup Range(Tail(todo)))
       /\ Range(todo') = Range(s) \cup Range(Tail(todo))
  BY <1>9 DEF Link, Joined, s
<1>11. Scripted'
  <2>1. Range(Tail(todo)) \subseteq AllSteps
    BY <1>8 DEF Piece, Range
  <2>2. WritesOf(FatalSlices) \cup Range(Tail(todo)) \subseteq AllSteps
    BY <1>5, <2>1
  <2>3. QED
    BY <1>10, <2>2 DEF Piece, Scripted
<1>12. Range(todo') \cap Early = {}
  BY <1>5, <1>7, <1>8, <1>10, PartsOfScripts
<1>13. \A x \in Range(todo) : x = Glob(dir) \/ x \in Range(todo')
  BY <1>8, <1>10
<1>14. \A h \in Halves, p \in Paths : StepFor(h, p) \in Range(todo) => StepFor(h, p) \in Range(todo')
  BY <1>3, <1>13, WriteFamilies
<1>15. Removal \notin Range(s)
  BY <1>5, <1>7, PartsOfScripts
<1>16. Removal \in Range(todo) <=> Removal \in Range(todo')
  BY <1>4, <1>8, <1>10, <1>15
<1>17. ProducedOnce'
  BY <1>2, <1>14 DEF ProducedOnce, Pending
<1>18. CutOnce'
  BY <1>2, <1>14, <1>16 DEF CutOnce, Pending, MainCut
<1>19. EmptiedOnce'
  <2>1. SUFFICES ASSUME NEW k \in AllKinds \ version.skips, NEW h \in Halves
                 PROVE  StepFor(h, <<"recovery", k>>) \notin Range(todo')
    BY <1>16 DEF EmptiedOnce, Pending
  <2>2. StepFor(h, <<"recovery", k>>) \notin Range(todo)
    BY DEF EmptiedOnce, Pending
  <2>3. <<"recovery", k>> \in RecoveryPaths /\ <<"recovery", k>> \in Paths
    BY PathFamilies DEF RecoveryPaths, CutFromMain
  <2>4. StepFor(h, <<"recovery", k>>) \in Recoveries
    BY <2>3, WriteFamilies
  <2>5. StepFor(h, <<"recovery", k>>) \notin Range(s)
    BY <1>5, <1>7, <2>4, PartsOfScripts
  <2>6. QED
    BY <1>8, <1>10, <2>2, <2>5
<1>20. FatalsOnce'
  <2>1. SUFFICES ASSUME NEW p \in FatalSlices, NEW h \in Halves
                 PROVE  Glob(p[1]) \in Range(todo') \/ StepFor(h, p) \in Range(todo') \/ FatalCut(p, h)'
    BY DEF FatalsOnce, Pending
  <2>2. p = <<p[1], p[2]>> /\ p[1] \in FatalDirs /\ p[2] \in AllKinds
    BY DEF FatalSlices, FatalDirs
  <2>3. CASE p[1] = dir
    <3>1. CASE disk[<<"fatal", p[2]>>].mrt # Absent
      <4>1. StepFor(h, p) \in Range(s)
        BY <2>2, <2>3, <3>1, Expansion DEF s
      <4>2. QED
        BY <1>10, <4>1
    <3>2. CASE disk[<<"fatal", p[2]>>].mrt = Absent
      BY <1>12, <3>2 DEF FatalCut
    <3>3. QED
      BY <3>1, <3>2
  <2>4. CASE p[1] # dir
    <3>1. Glob(p[1]) # Glob(dir)
      BY <2>4 DEF Glob
    <3>2. CASE FatalCut(p, h)
      BY <1>12, <3>2 DEF FatalCut
    <3>3. CASE Glob(p[1]) \in Range(todo) \/ StepFor(h, p) \in Range(todo)
      BY <1>2, <1>13, <1>14, <3>1, <3>3
    <3>4. QED
      BY <3>2, <3>3 DEF FatalsOnce, Pending
  <2>5. QED
    BY <2>3, <2>4
<1>21. \A x \in Late : x \in Range(todo) => x \in Range(todo')
  BY <1>4, <1>13
<1>22. QED
  BY <1>11, <1>17, <1>18, <1>19, <1>20, <1>21

LEMMA RecoveryDirectory ==
  ASSUME NEW p \in Paths
  PROVE  p[1] = "recovery" <=> p \in RecoveryPaths
<1>1. CASE p \in RoutePaths
  BY <1>1, FilesAssumption, PathFamilies DEF RoutePaths, Dirs, Produced, CutFromMain
<1>2. CASE p \in MainPaths
  BY <1>2, MainNames, PathFamilies DEF MainPaths
<1>3. CASE p \in EarlyPaths
  BY <1>3, PathFamilies DEF EarlyPaths, Produced, CutFromMain
<1>4. CASE p \in FatalSlices
  BY <1>4, PathFamilies DEF FatalSlices, CutFromMain
<1>5. CASE p \in RecoveryPaths
  BY <1>5 DEF RecoveryPaths
<1>6. QED
  BY <1>1, <1>2, <1>3, <1>4, <1>5, PathFamilies DEF Produced, CutFromMain

LEMMA RemovalKeeps ==
  ASSUME Typed, Scripted, ProducedOnce, CutOnce, EmptiedOnce, FatalsOnce,
         todo # << >>, Head(todo) = Removal, todo' = Tail(todo),
         disk' = [p \in Paths |-> IF p[1] = "recovery"
                                  THEN [mrt |-> Absent, manifest |-> Absent] ELSE disk[p]],
         UNCHANGED <<version, run>>
  PROVE  (Filed /\ ProducedOnce /\ CutOnce /\ EmptiedOnce /\ FatalsOnce)'
<1>1. version \in Versions /\ version.fatal \subseteq AllKinds /\ version.skips \subseteq AllKinds
  BY VersionsAssumption DEF Typed
<1>2. ToProduce(version) \subseteq Paths /\ ToCut(version) \subseteq Paths /\ FatalSlices \subseteq Paths
  BY <1>1, PathFamilies DEF ToProduce, ToCut, Produced, CutFromMain, EarlyPaths, RecoveryPaths
<1>3. /\ \A p \in Paths : p \notin RecoveryPaths => disk'[p] = disk[p]
      /\ \A p \in Paths : p \in RecoveryPaths => disk'[p] = [mrt |-> Absent, manifest |-> Absent]
      /\ disk' = [p \in Paths |-> disk'[p]]
  BY RecoveryDirectory
<1>4. Range(todo) = {Removal} \cup Range(todo')
  BY FirstStep
<1>5. \A h \in Halves, p \in Paths : StepFor(h, p) \in Range(todo) => StepFor(h, p) \in Range(todo')
  BY <1>4, WriteFamilies
<1>6. Filed'
  BY <1>3 DEF Filed, Typed
<1>7. ProducedOnce'
  <2>1. \A p \in ToProduce(version) : p \notin RecoveryPaths
    BY <1>1, PathFamilies DEF ToProduce, Produced, CutFromMain, EarlyPaths
  <2>2. QED
    BY <1>2, <1>3, <1>5, <2>1 DEF ProducedOnce, Pending
<1>8. CutOnce'
  <2>1. SUFFICES ASSUME NEW p \in ToCut(version), NEW h \in Halves
                 PROVE  \/ StepFor(h, p) \in Range(todo')
                        \/ /\ disk'[p][h] = MainCut
                           /\ p \in RecoveryPaths => Removal \notin Range(todo')
    BY DEF CutOnce, Pending, MainCut
  <2>2. CASE StepFor(h, p) \in Range(todo)
    BY <1>2, <1>5, <2>2
  <2>3. CASE disk[p][h] = MainCut /\ p \notin RecoveryPaths
    BY <1>2, <1>3, <2>3
  <2>4. QED
    BY <1>4, <2>2, <2>3 DEF CutOnce, Pending
<1>9. EmptiedOnce'
  <2>1. SUFFICES ASSUME NEW k \in AllKinds \ version.skips
                 PROVE  /\ \A h \in Halves : StepFor(h, <<"recovery", k>>) \notin Range(todo')
                        /\ disk'[<<"recovery", k>>].mrt = Absent
    BY DEF EmptiedOnce, Pending
  <2>2. <<"recovery", k>> \in RecoveryPaths /\ <<"recovery", k>> \in Paths
    BY PathFamilies DEF RecoveryPaths, CutFromMain
  <2>3. QED
    BY <1>3, <1>4, <2>2 DEF EmptiedOnce, Pending
<1>10. FatalsOnce'
  <2>1. SUFFICES ASSUME NEW p \in FatalSlices, NEW h \in Halves
                 PROVE  Glob(p[1]) \in Range(todo') \/ StepFor(h, p) \in Range(todo') \/ FatalCut(p, h)'
    BY DEF FatalsOnce, Pending
  <2>2. /\ p \in Paths /\ p \notin RecoveryPaths
        /\ <<"fatal", p[2]>> \in Paths /\ <<"fatal", p[2]>> \notin RecoveryPaths
    BY <1>2, PathFamilies DEF FatalSlices, EarlyPaths, RecoveryPaths, Produced, CutFromMain
  <2>3. disk'[p] = disk[p] /\ disk'[<<"fatal", p[2]>>] = disk[<<"fatal", p[2]>>]
    BY <1>3, <2>2
  <2>4. Glob(p[1]) # Removal
    BY StepKinds DEF Glob
  <2>5. CASE FatalCut(p, h)
    BY <1>4, <2>3, <2>5 DEF FatalCut
  <2>6. CASE Glob(p[1]) \in Range(todo) \/ StepFor(h, p) \in Range(todo)
    BY <1>4, <1>5, <2>2, <2>4, <2>6
  <2>7. QED
    BY <2>5, <2>6 DEF FatalsOnce, Pending
<1>11. QED
  BY <1>6, <1>7, <1>8, <1>9, <1>10
-----------------------------------------------------------------------------
(* Every step keeps the invariant.                                         *)
LEMMA StartKeeps ==
  ASSUME IInv, NEW v \in Versions, NEW selection \in Selections, Start(v, selection)
  PROVE  IInv'
<1>1. /\ status' = "running" /\ version' = v /\ todo' = Script(v, selection) /\ asked' = selection
      /\ UNCHANGED disk
  BY DEF Start
<1>2. Typed'
  BY <1>1 DEF IInv, Typed, Filed
<1> DEFINE s == Script(v, selection)
<1>3. /\ s \in Seq(AllSteps) /\ Ordered(s) /\ Paired(s)
      /\ \A h \in Halves, p \in ToProduce(v) \cup ToCut(v) : StepFor(h, p) \in Range(s)
      /\ \A k \in AllKinds \ v.skips, h \in Halves : StepFor(h, <<"recovery", k>>) \notin Range(s)
      /\ Removal \in Range(s)
      /\ \A dir \in FatalDirs : Glob(dir) \in Range(s)
      /\ \A p \in Range(selection) : Step("run", p) \in Range(s)
  BY Scripts
<1> HIDE DEF s
<1>4. todo' = s
  BY <1>1 DEF s
<1>5. \A p \in FatalSlices : p[1] \in FatalDirs
  BY DEF FatalSlices, FatalDirs
<1>6. Scripted'
  BY <1>3, <1>4 DEF Scripted
<1>7. ProducedOnce'
  BY <1>1, <1>3, <1>4 DEF ProducedOnce, Pending
<1>8. CutOnce'
  BY <1>1, <1>3, <1>4 DEF CutOnce, Pending
<1>9. EmptiedOnce'
  BY <1>1, <1>3, <1>4 DEF EmptiedOnce, Pending
<1>10. FatalsOnce'
  BY <1>3, <1>4, <1>5 DEF FatalsOnce
<1>11. ParsersOnce'
  BY <1>1, <1>3, <1>4 DEF ParsersOnce
<1>12. ExitCodeTellsAll'
  BY <1>1 DEF ExitCodeTellsAll
<1>13. QED
  BY <1>2, <1>6, <1>7, <1>8, <1>9, <1>10, <1>11, <1>12 DEF IInv, Underway

(* A step that goes on with the script and takes nothing from the parsers. *)
LEMMA Onward ==
  ASSUME IInv, status = "running", UNCHANGED <<status, version, run, asked>>,
         Filed', Scripted',
         (ProducedOnce /\ CutOnce /\ EmptiedOnce /\ FatalsOnce)',
         ParsersOnce'
  PROVE  IInv'
BY DEF IInv, Typed, Underway, ExitCodeTellsAll

LEMMA TailIsScripted ==
  ASSUME Scripted, todo # << >>, todo' = Tail(todo)
  PROVE  Scripted'
BY FirstStep DEF Scripted, Piece

LEMMA WritingKeeps ==
  ASSUME IInv, Generate \/ SliceFile
  PROVE  IInv'
<1>1. /\ status = "running" /\ todo # << >> /\ Head(todo).do \in Writes
      /\ todo' = Tail(todo) /\ UNCHANGED <<status, version, run, asked, failures, ran>>
  BY DEF Generate, SliceFile, At, Advance, Writes
<1>2. /\ Typed /\ Scripted /\ ProducedOnce /\ CutOnce /\ EmptiedOnce /\ FatalsOnce /\ ParsersOnce
      /\ Filed
  BY <1>1 DEF IInv, Typed, Underway
<1>3. Head(todo) \in AllSteps /\ Range(todo) = {Head(todo)} \cup Range(Tail(todo))
  BY <1>1, <1>2, FirstStep
<1>4. PICK h \in Halves, p \in Paths : Head(todo) = StepFor(h, p)
  BY <1>1, <1>3, WriteStep
<1>5. Head(todo).path = p /\ Half(Head(todo).do) = h
  BY <1>4, StepForm
<1>6. PICK c : Holds(p, h, c) /\ RightContent(p, c)
  <2>1. CASE Generate
    <3>1. p \in Produced
      BY <1>4, <2>1, StepForm DEF Generate, At
    <3>2. Holds(p, h, Generated(run)) /\ RightContent(p, Generated(run))
      BY <1>5, <2>1, <3>1 DEF Generate, RightContent
    <3>3. QED
      BY <3>2
  <2>2. CASE SliceFile
    <3>1. p \notin Produced /\ Head(todo).from = SourceOf(p)
      BY <1>4, <2>2, StepForm DEF SliceFile, At
    <3> DEFINE c == Cut(disk[SourceOf(p)].mrt, disk[SourceOf(p)].manifest, run)
    <3>2. Holds(p, h, c) /\ Readable(SourceOf(p))
      BY <1>5, <2>2, <3>1 DEF SliceFile
    <3>3. RightContent(p, c)
      BY <3>1, <3>2 DEF RightContent
    <3>4. QED
      BY <3>2, <3>3
  <2>3. QED
    BY <2>1, <2>2
<1>7. Filed'
  BY <1>2, <1>6, Written
<1>8. Scripted'
  BY <1>1, <1>2, TailIsScripted
<1>9. (ProducedOnce /\ CutOnce /\ EmptiedOnce /\ FatalsOnce)'
  BY <1>1, <1>2, <1>4, <1>6, WriteKeeps
<1>10. ParsersOnce'
  <2>1. ASSUME NEW q \in Range(asked), Step("run", q) \in Range(todo)
        PROVE  Step("run", q) \in Range(todo')
    <3>1. Step("run", q).do = "run"
      BY DEF Step
    <3>2. Step("run", q) # Head(todo)
      BY <1>1, <3>1 DEF Writes
    <3>3. QED
      BY <1>1, <1>3, <2>1, <3>2
  <2>2. QED
    BY <1>1, <1>2, <2>1 DEF ParsersOnce
<1>11. QED
  BY <1>1, <1>7, <1>8, <1>9, <1>10, Onward

LEMMA ExpandingKeeps ==
  ASSUME IInv, ExpandGlob
  PROVE  IInv'
<1>1. /\ status = "running" /\ todo # << >> /\ Head(todo).do = "glob"
      /\ todo' = SliceFatals(Head(todo).path) \o Tail(todo)
      /\ UNCHANGED <<status, version, run, asked, disk, failures, ran>>
  BY DEF ExpandGlob, At
<1>2. /\ Typed /\ Scripted /\ ProducedOnce /\ CutOnce /\ EmptiedOnce /\ FatalsOnce /\ ParsersOnce
      /\ Filed /\ asked \in Selections
  BY <1>1 DEF IInv, Typed, Underway
<1>3. Head(todo) \in AllSteps
  BY <1>1, <1>2, FirstStep
<1>4. Head(todo).path \in FatalDirs /\ Head(todo) = Glob(Head(todo).path)
  <2>1. Head(todo) \in Globs
    BY <1>1, <1>3, StepKinds DEF AllSteps, Writes
  <2>2. QED
    BY <2>1, StepKinds
<1>5. PICK dir \in FatalDirs : Head(todo) = Glob(dir) /\ todo' = SliceFatals(dir) \o Tail(todo)
  BY <1>1, <1>4
<1>6. /\ Scripted'
      /\ (ProducedOnce /\ CutOnce /\ EmptiedOnce /\ FatalsOnce)'
      /\ \A x \in Late : x \in Range(todo) => x \in Range(todo')
  BY <1>1, <1>2, <1>5, GlobKeeps
<1>7. ParsersOnce'
  <2>1. \A p \in Range(asked) : Step("run", p) \in Late
    BY <1>2 DEF Late, Asked
  <2>2. QED
    BY <1>1, <1>2, <1>6, <2>1 DEF ParsersOnce
<1>8. Filed'
  BY <1>1, <1>2 DEF Filed
<1>9. QED
  BY <1>1, <1>6, <1>7, <1>8, Onward

LEMMA RemovingKeeps ==
  ASSUME IInv, RemoveRecoveries
  PROVE  IInv'
<1>1. /\ status = "running" /\ todo # << >> /\ Head(todo).do = "remove"
      /\ todo' = Tail(todo)
      /\ UNCHANGED <<status, version, run, asked, failures, ran>>
  BY DEF RemoveRecoveries, At, Advance
<1>2. /\ Typed /\ Scripted /\ ProducedOnce /\ CutOnce /\ EmptiedOnce /\ FatalsOnce /\ ParsersOnce
  BY <1>1 DEF IInv, Underway
<1>3. Head(todo) \in AllSteps /\ Range(todo) = {Head(todo)} \cup Range(Tail(todo))
  BY <1>1, <1>2, FirstStep
<1>4. Head(todo) = Removal /\ Head(todo).path = "recovery"
  BY <1>1, <1>3, StepKinds DEF AllSteps, Writes
<1>5. disk' = [p \in Paths |-> IF p[1] = "recovery"
                              THEN [mrt |-> Absent, manifest |-> Absent] ELSE disk[p]]
  BY <1>4 DEF RemoveRecoveries
<1>6. (Filed /\ ProducedOnce /\ CutOnce /\ EmptiedOnce /\ FatalsOnce)'
  BY <1>1, <1>2, <1>4, <1>5, RemovalKeeps
<1>7. Scripted'
  BY <1>1, <1>2, TailIsScripted
<1>8. ParsersOnce'
  <2>1. \A q \in Range(asked) : Step("run", q) # Removal
    BY StepKinds DEF Step
  <2>2. QED
    BY <1>1, <1>2, <1>3, <1>4, <2>1 DEF ParsersOnce
<1>9. QED
  BY <1>1, <1>6, <1>7, <1>8, Onward

LEMMA ParsersKeep ==
  ASSUME IInv, LookUp \/ Build \/ Run \/ RunFails
  PROVE  IInv'
<1>1. /\ status = "running" /\ todo # << >> /\ Head(todo).do \in {"look-up", "build", "run"}
      /\ todo' = Tail(todo) /\ UNCHANGED <<status, version, run, asked, disk>>
      /\ failures \subseteq failures' /\ ran \subseteq ran'
      /\ Head(todo).do = "run" => Head(todo).path \in ran'
  BY DEF LookUp, Build, Run, RunFails, At, Advance, Parser
<1>2. /\ Typed /\ Scripted /\ ProducedOnce /\ CutOnce /\ EmptiedOnce /\ FatalsOnce /\ ParsersOnce
      /\ Filed
  BY <1>1 DEF IInv, Typed, Underway
<1>3. Head(todo) \in AllSteps /\ Range(todo) = {Head(todo)} \cup Range(Tail(todo))
  BY <1>1, <1>2, FirstStep
<1>4. Head(todo) \in Late
  BY <1>1, <1>3, StepKinds DEF AllSteps, Writes
<1>5. (ProducedOnce /\ CutOnce /\ EmptiedOnce /\ FatalsOnce)'
  <2>1. /\ Range(todo') \subseteq Range(todo)
        /\ \A x \in Range(todo) : x \in Range(todo') \/ x \in Late
    BY <1>1, <1>3, <1>4
  <2>2. QED
    BY <1>1, <1>2, <2>1, DiskWorkKept
<1>6. Scripted'
  BY <1>1, <1>2, TailIsScripted
<1>7. ParsersOnce'
  <2>1. \A q : Step("run", q).do = "run" /\ Step("run", q).path = q
    BY DEF Step
  <2>2. \A q \in Range(asked) : Step("run", q) = Head(todo) => q \in ran'
    BY <1>1, <2>1
  <2>3. QED
    BY <1>1, <1>2, <1>3, <2>2 DEF ParsersOnce
<1>8. Filed'
  BY <1>1, <1>2 DEF Filed
<1>9. QED
  BY <1>1, <1>5, <1>6, <1>7, <1>8, Onward

LEMMA FailedBuildKeeps ==
  ASSUME IInv, BuildFails
  PROVE  IInv'
<1>1. /\ status = "running" /\ todo # << >> /\ Head(todo).do = "build"
      /\ todo' = Tail(Tail(todo)) /\ UNCHANGED <<status, version, run, asked, disk, ran>>
      /\ failures' = failures \cup {Head(todo).path}
  BY DEF BuildFails, At, Parser
<1>2. /\ Typed /\ Scripted /\ ProducedOnce /\ CutOnce /\ EmptiedOnce /\ FatalsOnce /\ ParsersOnce
      /\ Filed
  BY <1>1 DEF IInv, Typed, Underway
<1> DEFINE rest == Tail(todo)
<1>3. /\ Head(todo) \in AllSteps /\ Piece(rest, AllSteps)
      /\ Range(todo) = {Head(todo)} \cup Range(rest)
  BY <1>1, <1>2, FirstStep
<1>4. Head(todo) \in Late
  BY <1>1, <1>3, StepKinds DEF AllSteps, Writes
<1>5. rest # << >> /\ Head(rest) = Step("run", Head(todo).path)
  <2>1. todo \in Seq(AllSteps) /\ Paired(todo) /\ Len(todo) \in Nat /\ Head(todo) = todo[1]
        /\ 1 \in 1 .. Len(todo)
    BY <1>1, <1>2 DEF Scripted
  <2>2. 1 + 1 \in 1 .. Len(todo) /\ todo[1 + 1] = Step("run", todo[1].path)
    BY <1>1, <2>1 DEF Paired
  <2>3. Len(rest) = Len(todo) - 1 /\ \A i \in 1 .. Len(rest) : rest[i] = todo[i + 1]
    BY <1>1, <2>1, HeadTailProperties
  <2> HIDE DEF rest
  <2>4. Len(rest) >= 1 /\ rest[1] = todo[1 + 1]
    BY <2>1, <2>2, <2>3
  <2>5. Head(rest) = rest[1]
    BY <1>3 DEF Piece
  <2>6. rest # << >>
    BY <2>4
  <2>7. QED
    BY <2>1, <2>2, <2>4, <2>5, <2>6
<1> HIDE DEF rest
<1>6. /\ Piece(Tail(rest), AllSteps)
      /\ Range(rest) = {Head(rest)} \cup Range(Tail(rest))
      /\ Head(rest) \in AllSteps
  BY <1>3, <1>5, Rest
<1>7. todo' = Tail(rest)
  BY <1>1 DEF rest
<1>8. \A q : Step("run", q).do = "run" /\ Step("run", q).path = q
  BY DEF Step
<1>9. Head(rest) \in Late
  BY <1>5, <1>6, <1>8, StepKinds DEF AllSteps, Writes
<1>10. (ProducedOnce /\ CutOnce /\ EmptiedOnce /\ FatalsOnce)'
  <2>1. /\ Range(todo') \subseteq Range(todo)
        /\ \A x \in Range(todo) : x \in Range(todo') \/ x \in Late
    BY <1>3, <1>4, <1>6, <1>7, <1>9
  <2>2. QED
    BY <1>1, <1>2, <2>1, DiskWorkKept
<1>11. Scripted'
  BY <1>6, <1>7 DEF Scripted, Piece
<1>12. ParsersOnce'
  <2>1. \A q \in Range(asked) : Step("run", q) # Head(todo)
    BY <1>1, <1>8
  <2>2. \A q \in Range(asked) : Step("run", q) = Head(rest) => q \in failures'
    BY <1>1, <1>5, <1>8
  <2>3. QED
    BY <1>1, <1>2, <1>3, <1>6, <1>7, <2>1, <2>2 DEF ParsersOnce
<1>13. Filed'
  BY <1>1, <1>2 DEF Filed
<1>14. QED
  BY <1>1, <1>10, <1>11, <1>12, <1>13, Onward

(* A run that ends, in whatever way, keeps the verdict of what has run.    *)
LEMMA EndsKeep ==
  ASSUME IInv, StepFails \/ Kill \/ UnknownParser \/ Exit
  PROVE  IInv'
<1>1. /\ status = "running" /\ Interrupted /\ UNCHANGED <<version, asked, failures, ran>>
      /\ \/ status' \in {"aborted", "killed", "unknown"}
         \/ Exit
  BY DEF StepFails, Kill, UnknownParser, Exit, Ends, At, Interrupted
<1>2. Typed /\ Filed /\ Scripted /\ ParsersOnce
  BY <1>1 DEF IInv, Typed, Underway
<1>3. status' # "running"
  BY <1>1 DEF Exit, Ends
<1>4. Filed'
  <2>1. CASE UNCHANGED disk
    BY <1>2, <2>1 DEF Filed
  <2>2. CASE At(Writes) /\ Holds(Head(todo).path, Half(Head(todo).do), Partial)
    <3>1. Head(todo) \in AllSteps /\ Head(todo).do \in Writes
      BY <1>2, <2>2, FirstStep DEF At
    <3>2. PICK h \in Halves, p \in Paths : Head(todo) = StepFor(h, p)
      BY <3>1, WriteStep
    <3>3. Holds(p, h, Partial)
      BY <2>2, <3>2, StepForm
    <3>4. QED
      BY <1>2, <3>3, Written
  <2>3. CASE At({"remove"}) /\ SomeRemoved(Head(todo).path)
    <3>1. PICK gone :
            disk' = [p \in Paths |->
              [mrt |-> IF <<p, "mrt">> \in gone THEN Absent ELSE disk[p].mrt,
               manifest |-> IF <<p, "manifest">> \in gone THEN Absent ELSE disk[p].manifest]]
      BY <2>3 DEF SomeRemoved
    <3>2. QED
      BY <3>1 DEF Filed
  <2>4. QED
    BY <1>1, <2>1, <2>2, <2>3 DEF Interrupted
<1>5. ExitCodeTellsAll'
  <2>1. CASE status' \in {"aborted", "killed", "unknown"}
    BY <2>1 DEF ExitCodeTellsAll
  <2>2. CASE Exit
    <3>1. \A p \in Range(asked) : p \in ran \/ p \in failures
      BY <1>2, <2>2 DEF ParsersOnce, Exit, Range
    <3>2. status' = IF failures = {} THEN "passed" ELSE "failed"
      BY <2>2 DEF Exit, Ends
    <3>3. QED
      BY <1>1, <3>1, <3>2 DEF ExitCodeTellsAll
  <2>3. QED
    BY <1>1, <2>1, <2>2
<1>6. QED
  BY <1>1, <1>2, <1>3, <1>4, <1>5 DEF IInv, Typed, Underway

LEMMA StutterKeeps ==
  ASSUME IInv, UNCHANGED vars
  PROVE  IInv'
<1>1. UNCHANGED <<status, version, run, todo, disk, failures, ran, asked>>
  BY DEF vars
<1>2. Typed' /\ ExitCodeTellsAll'
  BY <1>1 DEF IInv, Typed, Filed, ExitCodeTellsAll
<1>3. ASSUME status = "running" PROVE Underway'
  <2>1. /\ Typed /\ Scripted /\ ProducedOnce /\ CutOnce /\ EmptiedOnce /\ FatalsOnce /\ ParsersOnce
    BY <1>3 DEF IInv, Underway
  <2>2. (ProducedOnce /\ CutOnce /\ EmptiedOnce /\ FatalsOnce)'
    BY <1>1, <2>1, DiskWorkKept
  <2>3. Scripted' /\ ParsersOnce'
    BY <1>1, <2>1 DEF Scripted, ParsersOnce
  <2>4. QED
    BY <2>2, <2>3 DEF Underway
<1>4. QED
  BY <1>1, <1>2, <1>3 DEF IInv, Underway

(* The invariant holds throughout.                                         *)
THEOREM SpecInv == Spec => []IInv
<1>1. Init => IInv
  <2>1. SUFFICES ASSUME Init PROVE IInv
    OBVIOUS
  <2>2. Typed
    BY <2>1 DEF Init, Typed, Filed
  <2>3. status = "idle"
    BY <2>1 DEF Init
  <2>4. QED
    BY <2>2, <2>3 DEF IInv, Underway, ExitCodeTellsAll
<1>2. IInv /\ [Next]_vars => IInv'
  <2>1. SUFFICES ASSUME IInv, [Next]_vars PROVE IInv'
    OBVIOUS
  <2>2. ASSUME NEW v \in Versions, NEW selection \in Selections, Start(v, selection)
        PROVE  IInv'
    BY <2>1, <2>2, StartKeeps
  <2>3. CASE Generate \/ SliceFile
    BY <2>1, <2>3, WritingKeeps
  <2>4. CASE ExpandGlob
    BY <2>1, <2>4, ExpandingKeeps
  <2>5. CASE RemoveRecoveries
    BY <2>1, <2>5, RemovingKeeps
  <2>6. CASE LookUp \/ Build \/ Run \/ RunFails
    BY <2>1, <2>6, ParsersKeep
  <2>7. CASE BuildFails
    BY <2>1, <2>7, FailedBuildKeeps
  <2>8. CASE StepFails \/ Kill \/ UnknownParser \/ Exit
    BY <2>1, <2>8, EndsKeep
  <2>9. CASE UNCHANGED vars
    BY <2>1, <2>9, StutterKeeps
  <2>10. QED
    BY <2>1, <2>2, <2>3, <2>4, <2>5, <2>6, <2>7, <2>8, <2>9 DEF Next, Steps
<1>3. QED
  BY <1>1, <1>2, PTL DEF Spec
-----------------------------------------------------------------------------
(* The slices of the main pair are cut from this run's file by this run's  *)
(* manifest, whatever an earlier run has left.                             *)
THEOREM SlicesAreOfThisRun == Spec => []MainSlicesMatch
<1>1. ASSUME IInv PROVE MainSlicesMatch
  <2>1. SUFFICES ASSUME At({"slice-mrt", "slice-manifest"})
                 PROVE  /\ OfThisRun(disk[<<"corpus">>].mrt)
                        /\ OfThisRun(disk[<<"corpus">>].manifest)
    BY DEF MainSlicesMatch
  <2>2. /\ status = "running" /\ todo # << >>
        /\ Head(todo).do \in {"slice-mrt", "slice-manifest"}
        /\ Scripted /\ ProducedOnce
    BY <1>1, <2>1 DEF At, IInv, Underway
  <2>3. PICK h \in Halves, p \in Paths : Head(todo) = StepFor(h, p)
    BY <2>2, FirstStep, WriteStep DEF Writes
  <2>4. p \notin Produced
    BY <2>2, <2>3, StepForm
  <2>5. Head(todo) \notin Early
    BY <2>3, <2>4, WriteFamilies DEF Produced
  <2>6. /\ disk[<<"corpus">>]["mrt"] = Generated(run)
        /\ disk[<<"corpus">>]["manifest"] = Generated(run)
    BY <2>2, <2>5, GeneratorDone
  <2>7. OfThisRun(Generated(run))
    BY DEF OfThisRun, Whole, Generated
  <2>8. QED
    BY <2>6, <2>7
<1>2. QED
  BY <1>1, SpecInv, PTL

(* When the parsers are started everything before them has been done.      *)
LEMMA WorkDone ==
  ASSUME IInv, Running
  PROVE  /\ Range(todo) \subseteq Late
         /\ \A h \in Halves, p \in Paths : ~ Pending(h, p)
         /\ Removal \notin Range(todo)
         /\ \A p \in FatalSlices : Glob(p[1]) \notin Range(todo)
         /\ ProducedOnce /\ CutOnce /\ EmptiedOnce /\ FatalsOnce
<1>1. /\ status = "running" /\ todo # << >> /\ Head(todo).do \in {"look-up", "build", "run"}
      /\ Scripted /\ ProducedOnce /\ CutOnce /\ EmptiedOnce /\ FatalsOnce
  BY DEF Running, At, IInv, Underway
<1>2. Head(todo) \in Late
  BY <1>1, FirstStep, StepKinds DEF AllSteps, Writes
<1>3. Range(todo) \subseteq Late
  BY <1>1, <1>2, FirstStep DEF MayFollow
<1>4. \A h \in Halves, p \in Paths : ~ Pending(h, p)
  BY <1>3, WriteFamilies DEF Pending
<1>5. Removal \notin Range(todo)
  BY <1>3, PartsOfScripts
<1>6. \A p \in FatalSlices : Glob(p[1]) \notin Range(todo)
  BY <1>3, StepKinds DEF Glob
<1>7. QED
  BY <1>1, <1>3, <1>4, <1>5, <1>6

LEMMA GeneratedMatches ==
  ASSUME NEW pair, pair["mrt"] = Generated(run), pair["manifest"] = Generated(run)
  PROVE  Matching(pair) /\ OfThisRun(pair.mrt)
BY DEF Matching, OfThisRun, Whole, Generated

LEMMA CutMatches ==
  ASSUME NEW pair, pair["mrt"] = MainCut, pair["manifest"] = MainCut
  PROVE  Matching(pair) /\ OfThisRun(pair.mrt)
BY DEF Matching, OfThisRun, Whole, MainCut, Cut, Generated

(* What the container of a parser finds is what this run has made.         *)
THEOREM ParsersSeeThisRun == Spec => []RunnersSeeThisRun
<1>1. ASSUME IInv PROVE RunnersSeeThisRun
  <2> DEFINE Good(p) == Matching(disk[p]) /\ OfThisRun(disk[p].mrt)
  <2>1. SUFFICES ASSUME Running
                 PROVE  /\ \A p \in Paths \ (Dirs \X AllKinds) : Good(p)
                        /\ \A k \in AllKinds :
                             IF k \in version.skips THEN Good(<<"recovery", k>>)
                             ELSE disk[<<"recovery", k>>].mrt = Absent
                        /\ \A p \in FatalSlices :
                             /\ p[2] \in version.fatal => Good(p)
                             /\ disk[<<"fatal", p[2]>>].mrt # Absent =>
                                  /\ Whole(disk[<<"fatal", p[2]>>].manifest)
                                  /\ disk[p].mrt = disk[p].manifest /\ OfThisRun(disk[p].mrt)
    BY DEF RunnersSeeThisRun
  <2>2. version \in Versions /\ version.fatal \subseteq AllKinds /\ version.skips \subseteq AllKinds
    BY <1>1, VersionsAssumption DEF IInv, Typed
  <2>3. /\ \A p \in ToProduce(version), h \in Halves : disk[p][h] = Generated(run)
        /\ \A p \in ToCut(version), h \in Halves : disk[p][h] = MainCut
        /\ \A k \in AllKinds \ version.skips : disk[<<"recovery", k>>].mrt = Absent
        /\ \A p \in FatalSlices, h \in Halves : FatalCut(p, h)
    <3>1. ToProduce(version) \subseteq Paths /\ ToCut(version) \subseteq Paths /\ FatalSlices \subseteq Paths
      BY <2>2, PathFamilies DEF ToProduce, ToCut, Produced, CutFromMain, EarlyPaths, RecoveryPaths
    <3>2. QED
      BY <1>1, <2>1, <3>1, WorkDone DEF ProducedOnce, CutOnce, EmptiedOnce, FatalsOnce
  <2>4. "mrt" \in Halves /\ "manifest" \in Halves
    BY DEF Halves
  <2>5. \A p \in ToProduce(version) : Good(p)
    BY <2>3, <2>4, GeneratedMatches
  <2>6. \A p \in ToCut(version) : Good(p)
    BY <2>3, <2>4, CutMatches
  <2> HIDE DEF Good
  <2>7. \A p \in Paths \ (Dirs \X AllKinds) : Good(p)
    <3>1. \A p \in Paths \ (Dirs \X AllKinds) : p \in ToProduce(version) \/ p \in ToCut(version)
      BY DEF Paths, ToProduce, ToCut, RoutePaths, MainPaths
    <3>2. QED
      BY <2>5, <2>6, <3>1
  <2>8. \A k \in version.skips : Good(<<"recovery", k>>)
    BY <2>6 DEF ToCut
  <2>9. ASSUME NEW p \in FatalSlices, disk[<<"fatal", p[2]>>].mrt # Absent
        PROVE  /\ Whole(disk[<<"fatal", p[2]>>].manifest)
               /\ disk[p].mrt = Cut(disk[<<"fatal", p[2]>>].mrt, disk[<<"fatal", p[2]>>].manifest, run)
               /\ disk[p].mrt = disk[p].manifest /\ OfThisRun(disk[p].mrt)
    <3>1. FatalCut(p, "mrt") /\ FatalCut(p, "manifest")
      BY <2>3, <2>4
    <3> DEFINE c == Cut(disk[<<"fatal", p[2]>>].mrt, disk[<<"fatal", p[2]>>].manifest, run)
    <3>2. disk[p].mrt = c /\ disk[p].manifest = c /\ Whole(disk[<<"fatal", p[2]>>].manifest)
      BY <2>9, <3>1 DEF FatalCut
    <3>3. OfThisRun(c)
      BY DEF OfThisRun, Whole, Cut
    <3>4. QED
      BY <3>2, <3>3
  <2>10. ASSUME NEW p \in FatalSlices, p[2] \in version.fatal
         PROVE  Good(p)
    <3> DEFINE from == <<"fatal", p[2]>>
    <3>1. from \in ToProduce(version)
      BY <2>10 DEF ToProduce
    <3>2. disk[from].mrt = Generated(run) /\ disk[from].manifest = Generated(run)
      BY <2>3, <2>4, <3>1
    <3>3. Generated(run) # Absent
      BY DEF Generated, Absent
    <3>4. disk[p].mrt = MainCut /\ disk[p].manifest = MainCut
      BY <2>9, <3>2, <3>3 DEF MainCut
    <3>5. QED
      BY <3>4, CutMatches DEF Good
  <2>11. QED
    BY <2>3, <2>7, <2>8, <2>9, <2>10 DEF Good
<1>2. QED
  BY <1>1, SpecInv, PTL

(* Exit codes 0 and 1 account for every parser that was asked for.         *)
THEOREM ExitCodesAreTrue == Spec => []ExitCodeTellsAll
<1>1. IInv => ExitCodeTellsAll
  BY DEF IInv
<1>2. QED
  BY <1>1, SpecInv, PTL
=============================================================================
