------------------------ MODULE ParserVerdictsProofs ------------------------
(***************************************************************************)
(* For any kinds, recovery corpora and baselines, any tails and rules, and *)
(* parsers that end in any way: strict mode is stricter, exit code 0 says  *)
(* what it seems to say, and baselines do not outlive what they excuse.    *)
(***************************************************************************)
EXTENDS ParserVerdicts, Integers, FiniteSetTheorems, SequenceTheorems, TLAPS

Stale == Job("stale", "baseline")

(* When a job fails a run.  The baseline itself is judged apart.           *)
Fails(j, o, s) ==
  \/ /\ j.mode \in {"valid", "full", "fatal"}
     /\ IF runner = "mrtparse" THEN ReadingFails(j, o, s) ELSE FileFails(j, o, s)
  \/ /\ j.mode = "recovery"
     /\ IF runner = "mrtparse" THEN RecoveryReadingFails(j.of, o, s)
        ELSE RecoveryFails(j.of, o, s)
  \/ j.mode = "routes" /\ o = "other"
  \/ j.mode = "rule" /\ RuleFails(j.of, o, s)

(***************************************************************************)
(* The inductive invariant.                                                *)
(***************************************************************************)

Names ==
  Kinds \cup Fatals \cup CutFatals \cup Rules
  \cup {"bgp-valid", "bgp-corpus", "bgpdump-corpus", "baseline", "routes"}

Modes == {"valid", "full", "fatal", "recovery", "stale", "routes", "rule"}

AllJobs == {Job(m, n) : m \in Modes, n \in Names}

Typed == todo \in Seq(AllJobs)

(* Files and recovery corpora are judged by the three runners that have    *)
(* them, and mrtparse's baseline has no crashes.                           *)
RunnersOfFiles ==
  /\ runner \in Runners
  /\ runner = "mrtparse" => baseline.crashes = {}
  /\ \A j \in DOMAIN outcomes :
       j.mode \in {"valid", "full", "fatal", "recovery"} =>
         runner \in {"mrtparse", "bgpdump", "bgpkit-parser"}

(* What failed by its last outcome is among the failures, also when the    *)
(* same job is judged again.                                               *)
FailuresAreKept ==
  \A j \in DOMAIN outcomes : \A s \in BOOLEAN : Fails(j, outcomes[j], s) => j \in failed[s]

(* Strict mode sees no baseline entry to hold.                             *)
StrictKnowsNothing == seenKnown[TRUE] = {}

(* What was seen to hold is an entry whose corpus was not recovered from,  *)
(* or has failed since.                                                    *)
SeenIsKnown ==
  runner = "mrtparse" =>
    \A s \in BOOLEAN : \A k \in seenKnown[s] :
      /\ k \in baseline.stops
      /\ Job("recovery", k) \in DOMAIN outcomes
      /\ Reached(Job("recovery", k)) => Job("recovery", k) \in failed[s]

(* mrtparse's baseline is judged in the end, and passes only if every      *)
(* entry has been seen to hold.                                            *)
BaselineIsJudged ==
  runner = "mrtparse" =>
    /\ Stale \in DOMAIN outcomes \/ \E i \in 1 .. Len(todo) : todo[i] = Stale
    /\ \A s \in BOOLEAN :
         Stale \in DOMAIN outcomes /\ Stale \notin failed[s] => baseline.stops \subseteq seenKnown[s]

(* Exit code 0 comes last, and without a failure.                          *)
ZeroIsClean == \A s \in BOOLEAN : exit[s] = 0 => todo = << >> /\ failed[s] = {}

IInv ==
  /\ Typed
  /\ RunnersOfFiles
  /\ FailuresAreKept
  /\ StrictKnowsNothing
  /\ SeenIsKnown
  /\ BaselineIsJudged
  /\ ZeroIsClean
  /\ StrictIsStricter

-----------------------------------------------------------------------------
(* The elements of a finite set in some order.                             *)
LEMMA InSomeOrder ==
  ASSUME NEW S, IsFiniteSet(S)
  PROVE  SetToSeq(S) \in Seq(S)
<1> DEFINE n == Cardinality(S)
<1>1. n \in Nat /\ ExistsBijection(1 .. n, S)
  BY FS_CardinalityType
<1>2. PICK f : f \in Bijection(1 .. n, S)
  BY <1>1 DEF ExistsBijection
<1>3. f \in [1 .. n -> S] /\ IsInjective(f)
  BY <1>2 DEF Bijection, Injection, IsInjective
<1>4. SetToSeq(S) \in [1 .. n -> S]
  BY <1>3 DEF SetToSeq
<1>5. QED
  BY <1>1, <1>4

LEMMA JobIsJob ==
  ASSUME NEW m \in Modes, NEW n \in Names
  PROVE  Job(m, n) \in AllJobs
BY DEF AllJobs

LEMMA JobFields ==
  ASSUME NEW j \in AllJobs
  PROVE  j = Job(j.mode, j.of)
BY DEF AllJobs, Job

LEMMA JobsAreJobs ==
  ASSUME NEW m \in Modes, NEW names \in SUBSET Names, IsFiniteSet(names)
  PROVE  Jobs(m, names) \in Seq(AllJobs)
<1> DEFINE T == {Job(m, n) : n \in names}
           f == [n \in names |-> Job(m, n)]
<1>1. f \in Surjection(names, T)
  BY DEF Surjection
<1> HIDE DEF f
<1>2. IsFiniteSet(T)
  BY <1>1, FS_Surjection
<1>3. T \subseteq AllJobs
  BY JobIsJob
<1>4. Jobs(m, names) = SetToSeq(T)
  BY DEF Jobs
<1> HIDE DEF T
<1>5. SetToSeq(T) \in Seq(T)
  BY <1>2, InSomeOrder
<1>6. QED
  BY <1>3, <1>4, <1>5

LEMMA Programs ==
  ASSUME NEW r \in Runners, NEW recoveries \in SUBSET Kinds, NEW there \in BOOLEAN
  PROVE  /\ Program(r, recoveries, there) \in Seq(AllJobs)
         /\ r = "mrtparse" =>
              \E i \in 1 .. Len(Program(r, recoveries, there)) :
                Program(r, recoveries, there)[i] = Stale
<1>1. IsFiniteSet(recoveries)
  BY FiniteAssumption, FS_Subset
<1>2. /\ Jobs("recovery", recoveries) \in Seq(AllJobs)
      /\ Jobs("fatal", Fatals) \in Seq(AllJobs)
      /\ Jobs("fatal", CutFatals) \in Seq(AllJobs)
      /\ Jobs("rule", Rules) \in Seq(AllJobs)
  <2>1. /\ recoveries \in SUBSET Names /\ Fatals \in SUBSET Names
        /\ CutFatals \in SUBSET Names /\ Rules \in SUBSET Names
    BY DEF Names
  <2>2. "recovery" \in Modes /\ "fatal" \in Modes /\ "rule" \in Modes
    BY DEF Modes
  <2>3. QED
    BY <1>1, <2>1, <2>2, FiniteAssumption, JobsAreJobs
<1>3. /\ Job("valid", "bgp-valid") \in AllJobs /\ Job("full", "bgp-corpus") \in AllJobs
      /\ Job("full", "bgpdump-corpus") \in AllJobs /\ Stale \in AllJobs
      /\ Job("routes", "routes") \in AllJobs
  <2>1. /\ "bgp-valid" \in Names /\ "bgp-corpus" \in Names /\ "bgpdump-corpus" \in Names
        /\ "baseline" \in Names /\ "routes" \in Names
    BY DEF Names
  <2>2. /\ "valid" \in Modes /\ "full" \in Modes /\ "stale" \in Modes /\ "routes" \in Modes
    BY DEF Modes
  <2>3. QED
    BY <2>1, <2>2, JobIsJob DEF Stale
<1> DEFINE pair == <<Job("valid", "bgp-valid"), Job("full", "bgp-corpus")>>
           cut == <<Job("full", "bgpdump-corpus")>>
           stale == <<Stale>>
           routes == IF there THEN <<Job("routes", "routes")>> ELSE << >>
           cuts == IF there THEN CutCorpus ELSE << >>
<1>4. /\ pair \in Seq(AllJobs) /\ cut \in Seq(AllJobs)
      /\ stale \in Seq(AllJobs) /\ routes \in Seq(AllJobs) /\ << >> \in Seq(AllJobs)
  BY <1>3
<1>5. Len(stale) = 1 /\ stale[1] = Stale
  OBVIOUS
<1>6. Corpus = pair \o Jobs("fatal", Fatals) /\ CutCorpus = cut \o Jobs("fatal", CutFatals)
  BY DEF Corpus, CutCorpus
<1>7. Program("mrtparse", recoveries, there) =
        ((Corpus \o Jobs("recovery", recoveries)) \o stale) \o routes
  BY DEF Program, Stale
<1> HIDE DEF pair, cut, stale, routes
<1>8. Corpus \in Seq(AllJobs) /\ CutCorpus \in Seq(AllJobs)
  BY <1>2, <1>4, <1>6, ConcatProperties
<1>9. /\ Corpus \o Jobs("recovery", recoveries) \in Seq(AllJobs)
      /\ Corpus \o cuts \in Seq(AllJobs)
  BY <1>2, <1>4, <1>8, ConcatProperties
<1>10. (Corpus \o cuts) \o Jobs("recovery", recoveries) \in Seq(AllJobs)
  BY <1>2, <1>9, ConcatProperties
<1> DEFINE front == Corpus \o Jobs("recovery", recoveries)
<1>11. front \in Seq(AllJobs) /\ Len(front) \in Nat
  BY <1>9
<1>12. Program("mrtparse", recoveries, there) = (front \o stale) \o routes
  BY <1>7
<1> HIDE DEF front
<1>13. /\ front \o stale \in Seq(AllJobs)
       /\ Len(front \o stale) = Len(front) + 1
       /\ (front \o stale)[Len(front) + 1] = Stale
  <2>1. /\ front \o stale \in Seq(AllJobs)
        /\ Len(front \o stale) = Len(front) + Len(stale)
        /\ \A i \in 1 .. Len(front) + Len(stale) :
             (front \o stale)[i] = IF i <= Len(front) THEN front[i] ELSE stale[i - Len(front)]
    BY <1>4, <1>11, ConcatProperties
  <2>2. Len(front) + 1 \in 1 .. Len(front) + Len(stale) /\ (Len(front) + 1) - Len(front) = 1
    BY <1>5, <1>11
  <2>3. QED
    BY <1>5, <1>11, <2>1, <2>2
<1> DEFINE begun == front \o stale
<1>14. begun \in Seq(AllJobs) /\ Len(begun) = Len(front) + 1 /\ begun[Len(front) + 1] = Stale
  BY <1>13
<1>15. Program("mrtparse", recoveries, there) = begun \o routes
  BY <1>12
<1> HIDE DEF begun
<1>16. CASE r = "mrtparse"
  <2>1. /\ begun \o routes \in Seq(AllJobs)
        /\ Len(begun \o routes) = Len(begun) + Len(routes)
        /\ \A i \in 1 .. Len(begun) + Len(routes) :
             (begun \o routes)[i] = IF i <= Len(begun) THEN begun[i] ELSE routes[i - Len(begun)]
    BY <1>4, <1>14, ConcatProperties
  <2>2. Len(routes) \in Nat
    BY <1>4
  <2>3. Len(front) + 1 \in 1 .. Len(begun) + Len(routes) /\ Len(front) + 1 <= Len(begun)
    BY <1>11, <1>14, <2>2
  <2>4. QED
    BY <1>14, <1>15, <1>16, <2>1, <2>3
<1>17. CASE r # "mrtparse"
  BY <1>2, <1>4, <1>9, <1>10, <1>17 DEF Program, Runners
<1>18. QED
  BY <1>16, <1>17

LEMMA InitInv == Init => IInv
<1> SUFFICES ASSUME Init
             PROVE  IInv
  OBVIOUS
<1>1. PICK recoveries \in SUBSET Kinds, there \in BOOLEAN :
        todo = Program(runner, recoveries, there)
  BY DEF Init
<1>2. /\ runner \in Runners /\ outcomes = << >> /\ failed = [s \in BOOLEAN |-> {}]
      /\ seenKnown = [s \in BOOLEAN |-> {}] /\ exit = [s \in BOOLEAN |-> 2]
      /\ runner = "mrtparse" => baseline.crashes = {}
  BY DEF Init
<1>3. DOMAIN outcomes = {}
  BY <1>2
<1>4. Typed /\ BaselineIsJudged
  BY <1>1, <1>2, <1>3, Programs DEF Typed, BaselineIsJudged
<1>5. RunnersOfFiles /\ FailuresAreKept
  BY <1>2, <1>3 DEF RunnersOfFiles, FailuresAreKept
<1>6. StrictKnowsNothing /\ SeenIsKnown /\ ZeroIsClean /\ StrictIsStricter
  BY <1>2 DEF StrictKnowsNothing, SeenIsKnown, ZeroIsClean, StrictIsStricter
<1>7. QED
  BY <1>4, <1>5, <1>6 DEF IInv

-----------------------------------------------------------------------------
(***************************************************************************)
(* A job is judged, and failed where F says so.                            *)
(***************************************************************************)
Verdict(o, F) ==
  /\ todo # << >>
  /\ todo' = Tail(todo)
  /\ outcomes' = [j \in DOMAIN outcomes \cup {Head(todo)} |->
                   IF j = Head(todo) THEN o ELSE outcomes[j]]
  /\ failed' = [s \in BOOLEAN |-> IF F[s] THEN failed[s] \cup {Head(todo)} ELSE failed[s]]
  /\ UNCHANGED <<runner, baseline, exit>>

(* F has what the runner looks for, and is no milder in strict mode.       *)
Sound(o, F) ==
  /\ \A s \in BOOLEAN : Fails(Head(todo), o, s) => F[s]
  /\ F[FALSE] => F[TRUE]
  /\ Head(todo).mode \in {"valid", "full", "fatal", "recovery"} =>
       runner \in {"mrtparse", "bgpdump", "bgpkit-parser"}
  /\ Head(todo) = Stale => \A s \in BOOLEAN : ~ F[s] => baseline.stops \subseteq seenKnown[s]

(* A baseline entry may be seen to hold.                                   *)
Noted(o) ==
  /\ seenKnown'[TRUE] = seenKnown[TRUE]
  /\ \/ seenKnown'[FALSE] = seenKnown[FALSE]
     \/ /\ runner = "mrtparse" /\ ~ Recovered(o)
        /\ Head(todo).mode = "recovery" /\ Head(todo).of \in baseline.stops
        /\ seenKnown'[FALSE] = seenKnown[FALSE] \cup {Head(todo).of}

LEMMA AtHead ==
  ASSUME Typed, todo # << >>
  PROVE  /\ Head(todo) \in AllJobs /\ Tail(todo) \in Seq(AllJobs)
         /\ Head(todo) = Job(Head(todo).mode, Head(todo).of)
         /\ \A i \in 1 .. Len(todo) : todo[i] = Head(todo) \/
              \E k \in 1 .. Len(Tail(todo)) : Tail(todo)[k] = todo[i]
<1>1. todo \in Seq(AllJobs) /\ Len(todo) \in Nat
  BY DEF Typed
<1>2. /\ Head(todo) \in AllJobs /\ Tail(todo) \in Seq(AllJobs)
      /\ Len(Tail(todo)) = Len(todo) - 1
      /\ \A i \in 1 .. Len(Tail(todo)) : Tail(todo)[i] = todo[i + 1]
  BY <1>1, HeadTailProperties
<1>3. Head(todo) = todo[1]
  BY <1>1
<1>4. ASSUME NEW i \in 1 .. Len(todo), todo[i] # Head(todo)
      PROVE  \E k \in 1 .. Len(Tail(todo)) : Tail(todo)[k] = todo[i]
  <2>1. i # 1
    BY <1>3, <1>4
  <2>2. i - 1 \in 1 .. Len(Tail(todo)) /\ (i - 1) + 1 = i
    BY <1>1, <1>2, <2>1
  <2>3. QED
    BY <1>2, <2>2
<1>5. QED
  BY <1>2, <1>4, JobFields

LEMMA VerdictKeeps ==
  ASSUME IInv, NEW o, NEW F, Verdict(o, F), Sound(o, F), Noted(o)
  PROVE  IInv'
<1> DEFINE h == Head(todo)
<1>1. /\ Typed /\ RunnersOfFiles /\ FailuresAreKept /\ StrictKnowsNothing
      /\ SeenIsKnown /\ BaselineIsJudged /\ ZeroIsClean /\ StrictIsStricter
  BY DEF IInv
<1>2. /\ todo # << >> /\ todo' = Tail(todo)
      /\ outcomes' = [j \in DOMAIN outcomes \cup {h} |-> IF j = h THEN o ELSE outcomes[j]]
      /\ failed' = [s \in BOOLEAN |-> IF F[s] THEN failed[s] \cup {h} ELSE failed[s]]
      /\ runner' = runner /\ baseline' = baseline /\ exit' = exit
  BY DEF Verdict
<1>3. /\ h = Job(h.mode, h.of) /\ Tail(todo) \in Seq(AllJobs)
      /\ \A i \in 1 .. Len(todo) : todo[i] = h \/
           \E k \in 1 .. Len(Tail(todo)) : Tail(todo)[k] = todo[i]
  BY <1>1, <1>2, AtHead
<1>4. /\ \A s \in BOOLEAN : Fails(h, o, s) => F[s]
      /\ F[FALSE] => F[TRUE]
      /\ h.mode \in {"valid", "full", "fatal", "recovery"} =>
           runner \in {"mrtparse", "bgpdump", "bgpkit-parser"}
      /\ h = Stale => \A s \in BOOLEAN : ~ F[s] => baseline.stops \subseteq seenKnown[s]
  BY DEF Sound
<1> HIDE DEF h
<1>5. /\ DOMAIN outcomes' = DOMAIN outcomes \cup {h} /\ outcomes'[h] = o
      /\ \A j \in DOMAIN outcomes : j # h => outcomes'[j] = outcomes[j]
  BY <1>2
<1>6. \A s \in BOOLEAN : /\ failed[s] \subseteq failed'[s]
                         /\ F[s] => h \in failed'[s]
                         /\ ~ F[s] => failed'[s] = failed[s]
  BY <1>2
<1>7. Typed'
  BY <1>2, <1>3 DEF Typed
<1>8. RunnersOfFiles'
  BY <1>1, <1>2, <1>4, <1>5 DEF RunnersOfFiles
<1>9. FailuresAreKept'
  <2>1. \A j, x, s : Fails(j, x, s)' <=> Fails(j, x, s)
    BY <1>2 DEF Fails, ReadingFails, FileFails, RecoveryReadingFails, RecoveryFails, RuleFails
  <2>2. SUFFICES ASSUME NEW j \in DOMAIN outcomes', NEW s \in BOOLEAN, Fails(j, outcomes'[j], s)
                 PROVE  j \in failed'[s]
    BY <2>1 DEF FailuresAreKept
  <2>3. CASE j = h
    BY <1>4, <1>5, <1>6, <2>2, <2>3
  <2>4. CASE j # h
    BY <1>1, <1>5, <1>6, <2>2, <2>4 DEF FailuresAreKept
  <2>5. QED
    BY <2>3, <2>4
<1>10. \A s \in BOOLEAN : seenKnown[s] \subseteq seenKnown'[s]
  BY DEF Noted
<1>11. StrictKnowsNothing'
  BY <1>1 DEF StrictKnowsNothing, Noted
<1>12. SeenIsKnown'
  <2>1. SUFFICES ASSUME runner = "mrtparse", NEW s \in BOOLEAN, NEW k \in seenKnown'[s]
                 PROVE  /\ k \in baseline.stops
                        /\ Job("recovery", k) \in DOMAIN outcomes'
                        /\ Reached(Job("recovery", k))' => Job("recovery", k) \in failed'[s]
    BY <1>2 DEF SeenIsKnown
  <2> DEFINE j == Job("recovery", k)
  <2>2. j.mode = "recovery" /\ j.of = k
    BY DEF Job
  <2>3. Reached(j)' <=> Recovered(outcomes'[j])
    BY <1>2, <2>1 DEF Reached, Job
  <2>4. Reached(j) <=> Recovered(outcomes[j])
    BY <2>1 DEF Reached
  <2>5. k \in seenKnown[s] \/ ( /\ ~ Recovered(o) /\ h.mode = "recovery"
                               /\ h.of \in baseline.stops /\ k = h.of )
    BY <2>1 DEF Noted, h
  <2>6. CASE k \in seenKnown[s]
    <3>1. k \in baseline.stops /\ j \in DOMAIN outcomes /\ (Reached(j) => j \in failed[s])
      BY <1>1, <2>1, <2>6 DEF SeenIsKnown
    <3>2. CASE j = h
      <4>1. Recovered(o) => Fails(h, o, s)
        BY <2>1, <2>2, <3>1, <3>2 DEF Fails, RecoveryReadingFails
      <4>2. Recovered(o) => j \in failed'[s]
        BY <1>4, <1>6, <3>2, <4>1
      <4>3. QED
        BY <1>5, <2>3, <3>1, <3>2, <4>2
    <3>3. CASE j # h
      <4>1. outcomes'[j] = outcomes[j] /\ j \in DOMAIN outcomes'
        BY <1>5, <3>1, <3>3
      <4>2. QED
        BY <1>6, <2>3, <2>4, <3>1, <4>1
    <3>4. QED
      BY <3>2, <3>3
  <2>7. CASE ~ Recovered(o) /\ h.mode = "recovery" /\ h.of \in baseline.stops /\ k = h.of
    <3>1. j = h
      BY <1>3, <2>7
    <3>2. QED
      BY <1>5, <2>3, <2>7, <3>1
  <2>8. QED
    BY <2>5, <2>6, <2>7
<1>13. BaselineIsJudged'
  <2>1. SUFFICES ASSUME runner = "mrtparse"
                 PROVE  /\ Stale \in DOMAIN outcomes' \/ \E i \in 1 .. Len(todo') : todo'[i] = Stale
                        /\ \A s \in BOOLEAN :
                             Stale \in DOMAIN outcomes' /\ Stale \notin failed'[s] =>
                               baseline.stops \subseteq seenKnown'[s]
    BY <1>2 DEF BaselineIsJudged, Stale, Job
  <2>2. Stale \in DOMAIN outcomes' \/ \E i \in 1 .. Len(todo') : todo'[i] = Stale
    BY <1>1, <1>2, <1>3, <1>5, <2>1 DEF BaselineIsJudged
  <2>3. ASSUME NEW s \in BOOLEAN, Stale \in DOMAIN outcomes', Stale \notin failed'[s]
        PROVE  baseline.stops \subseteq seenKnown[s]
    <3>1. CASE h = Stale
      BY <1>4, <1>6, <2>3, <3>1
    <3>2. CASE h # Stale
      BY <1>1, <1>5, <1>6, <2>1, <2>3, <3>2 DEF BaselineIsJudged
    <3>3. QED
      BY <3>1, <3>2
  <2>4. QED
    BY <1>10, <2>2, <2>3
<1>14. ZeroIsClean'
  BY <1>1, <1>2 DEF ZeroIsClean
<1>15. StrictIsStricter'
  BY <1>1, <1>2, <1>4 DEF StrictIsStricter
<1>16. QED
  BY <1>7, <1>8, <1>9, <1>11, <1>12, <1>13, <1>14, <1>15 DEF IInv

-----------------------------------------------------------------------------
(***************************************************************************)
(* Every action but the last is such a verdict.                            *)
(***************************************************************************)

LEMMA SameSeen ==
  ASSUME UNCHANGED seenKnown, NEW o
  PROVE  Noted(o)
BY DEF Noted

LEMMA StaleIsStale ==
  ASSUME Head(todo) = Stale
  PROVE  Head(todo).mode = "stale"
BY DEF Stale, Job

LEMMA RunOneKeeps ==
  ASSUME IInv, NEW o, RunOne(o)
  PROVE  IInv'
<1> DEFINE F == [s \in BOOLEAN |-> FileFails(Head(todo), o, s)]
<1>1. /\ runner \in {"bgpdump", "bgpkit-parser"} /\ todo # << >>
      /\ Head(todo).mode \in {"valid", "full", "fatal"}
  BY DEF RunOne, At
<1>2. Verdict(o, F)
  BY <1>1 DEF RunOne, Judge, Verdict
<1>3. Sound(o, F)
  <2>1. \A s \in BOOLEAN : Fails(Head(todo), o, s) => F[s]
    BY <1>1 DEF Fails
  <2>2. F[FALSE] => F[TRUE]
    BY DEF FileFails
  <2>3. QED
    BY <1>1, <2>1, <2>2, StaleIsStale DEF Sound
<1> HIDE DEF F
<1>4. Noted(o)
  BY SameSeen DEF RunOne
<1>5. QED
  BY <1>2, <1>3, <1>4, VerdictKeeps

LEMMA RecoverKeeps ==
  ASSUME IInv, NEW o, Recover(o)
  PROVE  IInv'
<1> DEFINE F == [s \in BOOLEAN |-> RecoveryFails(Head(todo).of, o, s)]
<1>1. /\ runner \in {"bgpdump", "bgpkit-parser"} /\ todo # << >>
      /\ Head(todo).mode = "recovery"
  BY DEF Recover, At
<1>2. Verdict(o, F)
  BY <1>1 DEF Recover, Judge, Verdict
<1>3. Sound(o, F)
  <2>1. \A s \in BOOLEAN : Fails(Head(todo), o, s) => F[s]
    BY <1>1 DEF Fails
  <2>2. F[FALSE] => F[TRUE]
    BY DEF RecoveryFails
  <2>3. QED
    BY <1>1, <2>1, <2>2, StaleIsStale DEF Sound
<1> HIDE DEF F
<1>4. Noted(o)
  BY SameSeen DEF Recover
<1>5. QED
  BY <1>2, <1>3, <1>4, VerdictKeeps

LEMMA ParseFileKeeps ==
  ASSUME IInv, NEW o, ParseFile(o)
  PROVE  IInv'
<1> DEFINE F == [s \in BOOLEAN |-> ReadingFails(Head(todo), o, s)]
<1>1. /\ runner = "mrtparse" /\ todo # << >> /\ Head(todo).mode \in {"valid", "full", "fatal"}
  BY DEF ParseFile, At
<1>2. Verdict(o, F)
  BY <1>1 DEF ParseFile, Judge, Verdict
<1>3. Sound(o, F)
  <2>1. \A s \in BOOLEAN : Fails(Head(todo), o, s) => F[s]
    BY <1>1 DEF Fails
  <2>2. F[FALSE] => F[TRUE]
    BY DEF ReadingFails
  <2>3. QED
    BY <1>1, <2>1, <2>2, StaleIsStale DEF Sound
<1> HIDE DEF F
<1>4. Noted(o)
  BY SameSeen DEF ParseFile
<1>5. QED
  BY <1>2, <1>3, <1>4, VerdictKeeps

LEMMA ParseRecoveryKeeps ==
  ASSUME IInv, NEW o, ParseRecovery(o)
  PROVE  IInv'
<1> DEFINE F == [s \in BOOLEAN |-> RecoveryReadingFails(Head(todo).of, o, s)]
<1>1. runner = "mrtparse" /\ todo # << >> /\ Head(todo).mode = "recovery"
  BY DEF ParseRecovery, At
<1>2. Verdict(o, F)
  BY <1>1 DEF ParseRecovery, Judge, Verdict
<1>3. Sound(o, F)
  <2>1. \A s \in BOOLEAN : Fails(Head(todo), o, s) => F[s]
    BY <1>1 DEF Fails
  <2>2. F[FALSE] => F[TRUE]
    BY DEF RecoveryReadingFails
  <2>3. QED
    BY <1>1, <2>1, <2>2, StaleIsStale DEF Sound
<1> HIDE DEF F
<1>4. Noted(o)
  <2>1. seenKnown' = [s \in BOOLEAN |->
          IF ~ Recovered(o) /\ Head(todo).of \in baseline.stops /\ ~ s
          THEN seenKnown[s] \cup {Head(todo).of} ELSE seenKnown[s]]
    BY DEF ParseRecovery
  <2>2. QED
    BY <1>1, <2>1 DEF Noted
<1>5. QED
  BY <1>2, <1>3, <1>4, VerdictKeeps

LEMMA JudgeBaselineKeeps ==
  ASSUME IInv, JudgeBaseline
  PROVE  IInv'
<1> DEFINE F == [s \in BOOLEAN |-> baseline.stops \ seenKnown[s] # {}]
<1>1. todo # << >> /\ Head(todo).mode = "stale"
  BY DEF JudgeBaseline, At
<1>2. Verdict("judged", F)
  BY <1>1 DEF JudgeBaseline, Judge, Verdict
<1>3. Sound("judged", F)
  <2>1. \A s \in BOOLEAN : ~ Fails(Head(todo), "judged", s)
    BY <1>1 DEF Fails
  <2>2. F[FALSE] => F[TRUE]
    BY DEF IInv, StrictKnowsNothing
  <2>3. \A s \in BOOLEAN : ~ F[s] => baseline.stops \subseteq seenKnown[s]
    OBVIOUS
  <2>4. QED
    BY <1>1, <2>1, <2>2, <2>3 DEF Sound
<1> HIDE DEF F
<1>4. Noted("judged")
  BY SameSeen DEF JudgeBaseline
<1>5. QED
  BY <1>2, <1>3, <1>4, VerdictKeeps

LEMMA CheckRoutesKeeps ==
  ASSUME IInv, NEW o, CheckRoutes(o)
  PROVE  IInv'
<1> DEFINE F == [s \in BOOLEAN |-> o = "other"]
<1>1. todo # << >> /\ Head(todo).mode = "routes"
  BY DEF CheckRoutes, At
<1>2. Verdict(o, F)
  BY <1>1 DEF CheckRoutes, Judge, Verdict
<1>3. Sound(o, F)
  <2>1. \A s \in BOOLEAN : Fails(Head(todo), o, s) => F[s]
    BY <1>1 DEF Fails
  <2>2. QED
    BY <1>1, <2>1, StaleIsStale DEF Sound
<1> HIDE DEF F
<1>4. Noted(o)
  BY SameSeen DEF CheckRoutes
<1>5. QED
  BY <1>2, <1>3, <1>4, VerdictKeeps

LEMMA CheckRuleKeeps ==
  ASSUME IInv, NEW o, CheckRule(o)
  PROVE  IInv'
<1> DEFINE F == [s \in BOOLEAN |-> RuleFails(Head(todo).of, o, s)]
<1>1. todo # << >> /\ Head(todo).mode = "rule"
  BY DEF CheckRule, At
<1>2. Verdict(o, F)
  BY <1>1 DEF CheckRule, Judge, Verdict
<1>3. Sound(o, F)
  <2>1. \A s \in BOOLEAN : Fails(Head(todo), o, s) => F[s]
    BY <1>1 DEF Fails
  <2>2. F[FALSE] => F[TRUE]
    BY DEF RuleFails
  <2>3. QED
    BY <1>1, <2>1, <2>2, StaleIsStale DEF Sound
<1> HIDE DEF F
<1>4. Noted(o)
  BY SameSeen DEF CheckRule
<1>5. QED
  BY <1>2, <1>3, <1>4, VerdictKeeps

(* Conclude only adds that a run without a rule has failed.                *)
LEMMA ConcludeKeeps ==
  ASSUME IInv, Conclude
  PROVE  IInv'
<1>1. /\ todo = << >> /\ UNCHANGED <<runner, baseline, todo, outcomes, seenKnown>>
      /\ failed' = [s \in BOOLEAN |->
           IF runner = "fastnetmon" /\ DOMAIN outcomes = {} THEN {NoRule} ELSE failed[s]]
      /\ exit' = [s \in BOOLEAN |-> IF failed'[s] = {} THEN 0 ELSE 1]
  BY DEF Conclude
<1>2. /\ Typed /\ RunnersOfFiles /\ FailuresAreKept /\ StrictKnowsNothing
      /\ SeenIsKnown /\ BaselineIsJudged /\ StrictIsStricter
  BY DEF IInv
<1>3. \A s \in BOOLEAN : failed'[s] = failed[s] \/ (runner = "fastnetmon" /\ DOMAIN outcomes = {})
  BY <1>1
<1>4. Typed' /\ RunnersOfFiles' /\ StrictKnowsNothing'
  BY <1>1, <1>2 DEF Typed, RunnersOfFiles, StrictKnowsNothing
<1>5. FailuresAreKept'
  <2>1. \A j, x, s : Fails(j, x, s)' <=> Fails(j, x, s)
    BY <1>1 DEF Fails, ReadingFails, FileFails, RecoveryReadingFails, RecoveryFails, RuleFails
  <2>2. QED
    BY <1>1, <1>2, <1>3, <2>1 DEF FailuresAreKept
<1>6. SeenIsKnown'
  <2>1. \A j : Reached(j)' <=> Reached(j)
    BY <1>1 DEF Reached
  <2>2. QED
    BY <1>1, <1>2, <1>3, <2>1 DEF SeenIsKnown
<1>7. BaselineIsJudged'
  BY <1>1, <1>2, <1>3 DEF BaselineIsJudged
<1>8. ZeroIsClean'
  BY <1>1 DEF ZeroIsClean
<1>9. StrictIsStricter'
  BY <1>1, <1>2 DEF StrictIsStricter
<1>10. QED
  BY <1>4, <1>5, <1>6, <1>7, <1>8, <1>9 DEF IInv

LEMMA StutterKeeps ==
  ASSUME IInv, UNCHANGED vars
  PROVE  IInv'
<1>1. \A j, x, s : Fails(j, x, s)' <=> Fails(j, x, s)
  BY DEF vars, Fails, ReadingFails, FileFails, RecoveryReadingFails, RecoveryFails, RuleFails
<1>2. \A j : Reached(j)' <=> Reached(j)
  BY DEF vars, Reached
<1>3. Typed' /\ RunnersOfFiles' /\ FailuresAreKept' /\ StrictKnowsNothing'
  BY <1>1 DEF vars, IInv, Typed, RunnersOfFiles, FailuresAreKept, StrictKnowsNothing
<1>4. SeenIsKnown' /\ BaselineIsJudged' /\ ZeroIsClean' /\ StrictIsStricter'
  BY <1>2 DEF vars, IInv, SeenIsKnown, BaselineIsJudged, ZeroIsClean, StrictIsStricter
<1>5. QED
  BY <1>3, <1>4 DEF IInv

LEMMA NextInv == IInv /\ [Next]_vars => IInv'
<1> SUFFICES ASSUME IInv, [Next]_vars
             PROVE  IInv'
  OBVIOUS
<1>1. CASE JudgeNext
  BY <1>1, RunOneKeeps, RecoverKeeps, ParseFileKeeps, ParseRecoveryKeeps, CheckRoutesKeeps,
     CheckRuleKeeps DEF JudgeNext
<1>2. CASE JudgeBaseline
  BY <1>2, JudgeBaselineKeeps
<1>3. CASE Conclude
  BY <1>3, ConcludeKeeps
<1>4. CASE UNCHANGED vars
  BY <1>4, StutterKeeps
<1>5. QED
  BY <1>1, <1>2, <1>3, <1>4 DEF Next

(* The inductive invariant holds.                                          *)
THEOREM SpecInv == Spec => []IInv
<1>1. QED
  BY InitInv, NextInv, PTL DEF Spec

-----------------------------------------------------------------------------
(* What fails a run by default fails it in strict mode.                    *)
THEOREM StrictFailsMore == Spec => []StrictIsStricter
<1>1. IInv => StrictIsStricter
  BY DEF IInv
<1>2. QED
  BY <1>1, SpecInv, PTL

(* With exit code 0 nothing was recovered from that the baseline says is   *)
(* not, and every entry of mrtparse's was seen to hold in this run.        *)
THEOREM BaselinesStayTrue == Spec => []BaselinesDoNotRot
<1>1. ASSUME IInv PROVE BaselinesDoNotRot
  <2>1. SUFFICES ASSUME NEW s \in BOOLEAN, exit[s] = 0
                 PROVE  /\ \A j \in Judged("recovery") :
                             Reached(j) => j.of \notin baseline.stops \cup baseline.crashes
                        /\ runner = "mrtparse" =>
                             baseline.stops \subseteq
                               {j.of : j \in {x \in Judged("recovery") : ~ Reached(x)}}
    BY DEF BaselinesDoNotRot, Passed
  <2>2. todo = << >> /\ failed[s] = {}
    BY <1>1, <2>1 DEF IInv, ZeroIsClean
  <2>3. \A j \in DOMAIN outcomes : ~ Fails(j, outcomes[j], s)
    BY <1>1, <2>2 DEF IInv, FailuresAreKept
  <2>4. ASSUME NEW j \in Judged("recovery"), Reached(j)
        PROVE  j.of \notin baseline.stops \cup baseline.crashes
    <3>1. j \in DOMAIN outcomes /\ j.mode = "recovery"
      BY DEF Judged
    <3>2. CASE runner = "mrtparse"
      <4>1. ~ RecoveryReadingFails(j.of, outcomes[j], s) /\ Recovered(outcomes[j])
        BY <2>3, <2>4, <3>1, <3>2 DEF Fails, Reached
      <4>2. baseline.crashes = {}
        BY <1>1, <3>2 DEF IInv, RunnersOfFiles
      <4>3. QED
        BY <4>1, <4>2 DEF RecoveryReadingFails
    <3>3. CASE runner # "mrtparse"
      <4>1. ~ RecoveryFails(j.of, outcomes[j], s) /\ outcomes[j] = "told"
        BY <2>3, <2>4, <3>1, <3>3 DEF Fails, Reached
      <4>2. QED
        BY <4>1 DEF RecoveryFails
    <3>4. QED
      BY <3>2, <3>3
  <2>5. ASSUME runner = "mrtparse", NEW k \in baseline.stops
        PROVE  \E j \in Judged("recovery") : ~ Reached(j) /\ j.of = k
    <3> DEFINE j == Job("recovery", k)
    <3>1. j.mode = "recovery" /\ j.of = k
      BY DEF Job
    <3>2. Stale \in DOMAIN outcomes
      BY <1>1, <2>2, <2>5 DEF IInv, BaselineIsJudged
    <3>3. k \in seenKnown[s]
      BY <1>1, <2>2, <2>5, <3>2 DEF IInv, BaselineIsJudged
    <3>4. j \in DOMAIN outcomes /\ ~ Reached(j)
      BY <1>1, <2>2, <2>5, <3>3 DEF IInv, SeenIsKnown
    <3>5. QED
      BY <3>1, <3>4 DEF Judged
  <2>6. QED
    BY <2>4, <2>5
<1>2. QED
  BY <1>1, SpecInv, PTL

(* What exit code 0 is worth, by default and in strict mode.               *)
THEOREM ZeroIsWorthIt == Spec => []PassesAreEarned
<1>1. ASSUME IInv PROVE PassesAreEarned
  <2>1. ASSUME NEW s \in BOOLEAN, exit[s] = 0, NEW j \in DOMAIN outcomes
        PROVE  ~ Fails(j, outcomes[j], s)
    BY <1>1, <2>1 DEF IInv, ZeroIsClean, FailuresAreKept
  <2>2. ASSUME NEW s \in BOOLEAN, exit[s] = 0, NEW j \in Judged("valid")
        PROVE  Reached(j)
    <3>1. j \in DOMAIN outcomes /\ j.mode = "valid" /\ ~ Fails(j, outcomes[j], s)
      BY <2>1, <2>2 DEF Judged
    <3>2. QED
      BY <3>1 DEF Fails, ReadingFails, FileFails, Reached, Recovered
  <2>3. ASSUME NEW s \in BOOLEAN, exit[s] = 0, NEW j \in Judged("recovery")
        PROVE  Reached(j) \/ (~ s /\ Excused(j))
    <3>1. j \in DOMAIN outcomes /\ j.mode = "recovery" /\ ~ Fails(j, outcomes[j], s)
      BY <2>1, <2>3 DEF Judged
    <3>2. CASE runner = "mrtparse"
      BY <3>1, <3>2 DEF Fails, RecoveryReadingFails, Reached, Excused
    <3>3. CASE runner # "mrtparse"
      BY <3>1, <3>3 DEF Fails, RecoveryFails, Reached, Excused
    <3>4. QED
      BY <3>2, <3>3
  <2>4. ASSUME NEW s \in BOOLEAN, exit[s] = 0, NEW j \in Judged("routes")
        PROVE  outcomes[j] # "other"
    <3>1. j \in DOMAIN outcomes /\ j.mode = "routes" /\ ~ Fails(j, outcomes[j], s)
      BY <2>1, <2>4 DEF Judged
    <3>2. QED
      BY <3>1 DEF Fails
  <2>5. ASSUME NEW s \in BOOLEAN, exit[s] = 0, NEW j \in Judged("rule")
        PROVE  /\ j.of.intact /\ outcomes[j] \notin {"timeout", "crash"}
               /\ j.of.class = "supported" => outcomes[j] = "same"
    <3>1. j \in DOMAIN outcomes /\ j.mode = "rule" /\ ~ Fails(j, outcomes[j], s)
      BY <2>1, <2>5 DEF Judged
    <3>2. ~ RuleFails(j.of, outcomes[j], s)
      BY <3>1 DEF Fails
    <3>3. QED
      BY <3>2 DEF RuleFails
  <2>6. ASSUME NEW s \in BOOLEAN, exit[s] = 0, runner \in {"bgpdump", "bgpkit-parser"},
               NEW j \in Judged("full") \cup Judged("fatal")
        PROVE  /\ outcomes[j] \notin {"timeout", "crash"}
               /\ s /\ j.mode = "full" => outcomes[j] # "error"
    <3>1. j \in DOMAIN outcomes /\ j.mode \in {"full", "fatal"} /\ ~ Fails(j, outcomes[j], s)
      BY <2>1, <2>6 DEF Judged
    <3>2. ~ FileFails(j, outcomes[j], s)
      BY <2>6, <3>1 DEF Fails
    <3>3. QED
      BY <3>1, <3>2 DEF FileFails
  <2>7. ASSUME exit[TRUE] = 0, NEW j \in Judged("fatal")
        PROVE  ~ Reached(j)
    <3>1. j \in DOMAIN outcomes /\ j.mode = "fatal" /\ ~ Fails(j, outcomes[j], TRUE)
      BY <2>1, <2>7 DEF Judged
    <3>2. QED
      BY <3>1 DEF Fails, ReadingFails, FileFails, Reached, Recovered
  <2>8. ASSUME exit[TRUE] = 0, runner \in {"bgpdump", "bgpkit-parser"}, NEW j \in Judged("full")
        PROVE  outcomes[j] # "error"
    <3>1. j \in Judged("full") \cup Judged("fatal") /\ j.mode = "full"
      BY <2>8 DEF Judged
    <3>2. QED
      BY <2>6, <2>8, <3>1
  <2>9. QED
    BY <2>2, <2>3, <2>4, <2>5, <2>6, <2>7, <2>8 DEF PassesAreEarned, Passed
<1>2. QED
  BY <1>1, SpecInv, PTL
=============================================================================
