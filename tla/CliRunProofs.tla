---------------------------- MODULE CliRunProofs ----------------------------
(***************************************************************************)
(* For every set of command lines, every layout of their files and any     *)
(* number of runs: what is published stays, a manifest is never ahead of   *)
(* its file, a run without a corpus writes nothing, and the files of the   *)
(* fatal directory are the main file but for the tail.                     *)
(***************************************************************************)
EXTENDS CliRun, Integers, SequenceTheorems, TLAPS

(***************************************************************************)
(* The inductive invariant.  Its subject is the script of the last run:    *)
(* how much of it is behind, and what the disk owes to it.                 *)
(***************************************************************************)

Endings == {"running", "success", "failure", "killed"}

Entries == [line : CommandLines, end : Endings]

Steps == UNION {Range(Main(c)) : c \in CommandLines}

Cur == log[Len(log)].line

(* The last run got past its arguments.                                    *)
Launched == log # << >> /\ Cur.parses # "help" /\ ~ Refused(Cur)

Plan == Main(Cur)

Passed == Len(Plan) - Len(todo)

IsWrite(i, p) == Plan[i].do = "write" /\ Plan[i].path = p

Typed ==
  /\ status \in {"idle"} \cup Endings
  /\ opened \in BOOLEAN
  /\ todo \in Seq(Steps)
  /\ log \in Seq(Entries) /\ Len(log) <= MaxRuns
  /\ disk \in [Files -> Contents]
  /\ writer \in [Files -> 0 .. Len(log)]

(* Only the last run can be running, and only if it was launched.          *)
Ended ==
  /\ \A r \in 1 .. Len(log) : log[r].end = "running" => status = "running" /\ r = Len(log)
  /\ status = "running" => Launched /\ log[Len(log)].end = "running"

(* What is left to do is the rest of the script.                           *)
OnScript ==
  /\ ~ Launched => todo = << >>
  /\ Launched =>
       /\ Len(todo) <= Len(Plan)
       /\ \A i \in 1 .. Len(todo) : todo[i] = Plan[Passed + i]

(* A file that has been emptied is the next to be filled.                  *)
HandIn ==
  opened =>
    /\ Launched /\ todo # << >>
    /\ todo[1].do = "write"
    /\ writer[todo[1].path] = Len(log)
    /\ disk[todo[1].path] = Holds(todo[1], FALSE)

(* Behind the last run are whole files only, where no path comes twice.    *)
DoneSoFar ==
  Launched /\ Separate(Cur) =>
    \A i \in 1 .. Passed : Plan[i].do = "write" =>
      /\ writer[Plan[i].path] = Len(log)
      /\ disk[Plan[i].path] = Holds(Plan[i], TRUE)

(* The last run opened no path that its script has not come to.            *)
OnlyOpened ==
  \A p \in Files : log # << >> /\ writer[p] = Len(log) =>
    /\ Launched
    /\ \E i \in 1 .. Len(Plan) :
         /\ IsWrite(i, p)
         /\ i <= Passed \/ (opened /\ i = Passed + 1)

(* Past its first step a run has a corpus.                                 *)
Buildable ==
  Launched /\ Passed >= 1 => Corpus(Cur, Cur.fatal) \notin Unbuildable

(* What a path holds is what the run that opened it last had for it.       *)
Authored ==
  \A p \in Files : \A r \in 1 .. Len(log) : writer[p] = r =>
    \E job \in WritesOf(log[r].line) :
      job.path = p /\ \E w \in BOOLEAN : disk[p] = Holds(job, w)

IInv ==
  /\ Typed
  /\ Ended
  /\ OnScript
  /\ HandIn
  /\ DoneSoFar
  /\ OnlyOpened
  /\ Buildable
  /\ Authored
  /\ PublishedUntilRewritten
  /\ FileBeforeManifest
  /\ NoCorpusNoFile

-----------------------------------------------------------------------------
(* The scripts.                                                            *)

IsSeq(s) == s \in Seq(Range(s))

IsCat(u, s, t) == u = s \o t

Joined(u, s, t) ==
  /\ IsSeq(u)
  /\ Len(u) = Len(s) + Len(t)
  /\ \A i \in 1 .. Len(s) : u[i] = s[i]
  /\ \A i \in 1 .. Len(t) : u[Len(s) + i] = t[i]

LEMMA ConcatAt ==
  ASSUME NEW s, NEW t, NEW u, IsSeq(s), IsSeq(t), IsCat(u, s, t)
  PROVE  Joined(u, s, t)
<1> DEFINE T == Range(s) \cup Range(t)
<1>1. s \in Seq(T) /\ t \in Seq(T)
  <2>1. Range(s) \subseteq T /\ Range(t) \subseteq T
    OBVIOUS
  <2> HIDE DEF T
  <2>2. QED
    BY <2>1, SeqMonotonic DEF IsSeq
<1> HIDE DEF T
<1>2. Len(s) \in Nat /\ Len(t) \in Nat
  BY <1>1
<1>3. /\ u \in Seq(T)
      /\ Len(u) = Len(s) + Len(t)
      /\ \A i \in 1 .. Len(s) + Len(t) : u[i] = IF i <= Len(s) THEN s[i] ELSE t[i - Len(s)]
  BY <1>1, ConcatProperties DEF IsCat
<1>4. \A i \in 1 .. Len(t) : Len(s) + i \in 1 .. Len(s) + Len(t) /\ ~ (Len(s) + i <= Len(s)) /\ (Len(s) + i) - Len(s) = i
  BY <1>2
<1>5. IsSeq(u)
  <2>1. DOMAIN u = 1 .. Len(u) /\ Len(u) \in Nat /\ u \in [1 .. Len(u) -> T]
    BY <1>3, LenProperties
  <2>2. u \in [1 .. Len(u) -> Range(u)]
    BY <2>1 DEF Range
  <2>3. QED
    BY <2>1, <2>2, SeqDef DEF IsSeq
<1>6. QED
  BY <1>2, <1>3, <1>4, <1>5 DEF Joined

(* Three sequences one after the other.                                    *)
LEMMA FlattenThree ==
  ASSUME NEW a, NEW b, NEW c, NEW ab, IsCat(ab, a, b), NEW abc, IsCat(abc, ab, c)
  PROVE  FlattenSeq(<<a, b, c>>) = abc
<1> DEFINE seqs == <<a, b, c>>
           Eq(f) == f = [i \in 1 .. Len(seqs) |-> IF i = 1 THEN seqs[i] ELSE f[i - 1] \o seqs[i]]
           g == [i \in 1 .. 3 |-> IF i = 1 THEN a ELSE IF i = 2 THEN ab ELSE abc]
<1>0. ab = a \o b /\ abc = ab \o c
  BY DEF IsCat
<1>1. Len(seqs) = 3 /\ seqs[1] = a /\ seqs[2] = b /\ seqs[3] = c
  OBVIOUS
<1>2. FlattenSeq(seqs) = (CHOOSE f : Eq(f))[3]
  BY <1>1 DEF FlattenSeq
<1> HIDE DEF seqs
<1>3. Eq(g)
  <2>1. \A i \in 1 .. 3 : g[i] = IF i = 1 THEN seqs[i] ELSE g[i - 1] \o seqs[i]
    <3>1. g[1] = a /\ g[2] = ab /\ g[3] = abc
      OBVIOUS
    <3> HIDE DEF g
    <3>2. ASSUME NEW i \in 1 .. 3
          PROVE  g[i] = IF i = 1 THEN seqs[i] ELSE g[i - 1] \o seqs[i]
      <4>1. CASE i = 1
        BY <1>1, <3>1, <4>1
      <4>2. CASE i = 2
        <5>1. i - 1 = 1 /\ i # 1
          BY <4>2
        <5>2. QED
          BY <1>0, <1>1, <3>1, <4>2, <5>1
      <4>3. CASE i = 3
        <5>1. i - 1 = 2 /\ i # 1
          BY <4>3
        <5>2. QED
          BY <1>0, <1>1, <3>1, <4>3, <5>1
      <4>4. QED
        BY <4>1, <4>2, <4>3
    <3>3. QED
      BY <3>2
  <2>2. g = [i \in 1 .. 3 |-> g[i]]
    OBVIOUS
  <2> HIDE DEF g
  <2>3. QED
    BY <1>1, <2>1, <2>2
<1>4. ASSUME NEW f, Eq(f) PROVE f[3] = abc
  <2>1. \A i \in 1 .. 3 : f[i] = IF i = 1 THEN seqs[i] ELSE f[i - 1] \o seqs[i]
    <3>1. f = [i \in 1 .. 3 |-> IF i = 1 THEN seqs[i] ELSE f[i - 1] \o seqs[i]]
      BY <1>1, <1>4
    <3> HIDE DEF Eq
    <3>2. QED
      BY <3>1
  <2>2. f[1] = a
    BY <1>1, <2>1
  <2>3. f[2] = ab
    <3>1. f[2] = f[2 - 1] \o seqs[2]
      BY <2>1, 2 \in 1 .. 3, 2 # 1, Zenon
    <3>2. 2 - 1 = 1
      OBVIOUS
    <3>3. QED
      BY <1>0, <1>1, <2>2, <3>1, <3>2
  <2>4. f[3] = f[3 - 1] \o seqs[3]
    BY <2>1, 3 \in 1 .. 3, 3 # 1, Zenon
  <2>5. 3 - 1 = 2
    OBVIOUS
  <2>6. QED
    BY <1>0, <1>1, <2>3, <2>4, <2>5
<1> HIDE DEF Eq, g
<1>5. Eq(CHOOSE f : Eq(f))
  BY <1>3
<1>6. QED
  BY <1>2, <1>4, <1>5 DEF seqs

LEMMA PairSteps ==
  ASSUME NEW corpus, NEW mrt, NEW manifest
  PROVE  /\ IsSeq(WriteCorpus(corpus, mrt, manifest))
         /\ Len(WriteCorpus(corpus, mrt, manifest)) = 3
         /\ WriteCorpus(corpus, mrt, manifest)[1] = [do |-> "generate", of |-> corpus]
         /\ WriteCorpus(corpus, mrt, manifest)[2] = Write(mrt, "mrt", corpus)
         /\ WriteCorpus(corpus, mrt, manifest)[3] = Write(manifest, "manifest", corpus)
<1> DEFINE x == [do |-> "generate", of |-> corpus]
           y == Write(mrt, "mrt", corpus)
           z == Write(manifest, "manifest", corpus)
           s == <<x, y, z>>
<1>1. WriteCorpus(corpus, mrt, manifest) = s
  BY DEF WriteCorpus
<1> HIDE DEF x, y, z
<1>2. Len(s) = 3 /\ s[1] = x /\ s[2] = y /\ s[3] = z /\ DOMAIN s = 1 .. 3
  OBVIOUS
<1>3. s \in Seq(Range(s))
  <2> HIDE DEF s
  <2>1. x \in Range(s) /\ y \in Range(s) /\ z \in Range(s)
    BY <1>2 DEF Range
  <2>2. QED
    BY <2>1 DEF s
<1>4. QED
  BY <1>1, <1>2, <1>3 DEF x, y, z, IsSeq

LEMMA OneStep ==
  ASSUME NEW x
  PROVE  IsSeq(<<x>>) /\ Len(<<x>>) = 1 /\ <<x>>[1] = x
<1>1. x \in Range(<<x>>)
  BY DEF Range
<1>2. QED
  BY <1>1 DEF IsSeq

(* What the steps of a script are, by their place in it: the three of the  *)
(* main pair, and after the mkdir three for each fatal kind.               *)
LEMMA ShortScript ==
  ASSUME NEW c, c.fatalDir = NoFile
  PROVE  /\ IsSeq(Main(c))
         /\ Len(Main(c)) = 3
         /\ Main(c)[1] = [do |-> "generate", of |-> Corpus(c, c.fatal)]
         /\ Main(c)[2] = Write(c.out, "mrt", Corpus(c, c.fatal))
         /\ Main(c)[3] = Write(ManifestPath(c), "manifest", Corpus(c, c.fatal))
<1> DEFINE first == WriteCorpus(Corpus(c, c.fatal), c.out, ManifestPath(c))
<1>1. Main(c) = first \o << >>
  BY DEF Main, FatalCases
<1>2. /\ IsSeq(first) /\ Len(first) = 3
      /\ first[1] = [do |-> "generate", of |-> Corpus(c, c.fatal)]
      /\ first[2] = Write(c.out, "mrt", Corpus(c, c.fatal))
      /\ first[3] = Write(ManifestPath(c), "manifest", Corpus(c, c.fatal))
  BY PairSteps
<1> HIDE DEF first
<1>3. first \o << >> = first
  BY <1>2, ConcatEmptySeq DEF IsSeq
<1>4. QED
  BY <1>1, <1>2, <1>3

LEMMA LongScript ==
  ASSUME NEW c, c.fatalDir # NoFile
  PROVE  /\ IsSeq(Main(c))
         /\ Len(Main(c)) = 13
         /\ Main(c)[1] = [do |-> "generate", of |-> Corpus(c, c.fatal)]
         /\ Main(c)[2] = Write(c.out, "mrt", Corpus(c, c.fatal))
         /\ Main(c)[3] = Write(ManifestPath(c), "manifest", Corpus(c, c.fatal))
         /\ Main(c)[4] = [do |-> "mkdir", path |-> c.fatalDir]
         /\ \A n \in 1 .. 3 :
              LET k == FatalKinds[n]
              IN /\ Main(c)[3 * n + 2] = [do |-> "generate", of |-> Corpus(c, k)]
                 /\ Main(c)[3 * n + 3] = Write(FatalMrt[c.fatalDir][k], "mrt", Corpus(c, k))
                 /\ Main(c)[3 * n + 4]
                      = Write(FatalManifest[c.fatalDir][k], "manifest", Corpus(c, k))
<1> DEFINE first == WriteCorpus(Corpus(c, c.fatal), c.out, ManifestPath(c))
           pair(k) == WriteCorpus(Corpus(c, k), FatalMrt[c.fatalDir][k], FatalManifest[c.fatalDir][k])
           p1 == pair(FatalKinds[1])
           p2 == pair(FatalKinds[2])
           p3 == pair(FatalKinds[3])
           mkdir == [do |-> "mkdir", path |-> c.fatalDir]
<1>1. /\ IsSeq(first) /\ Len(first) = 3
      /\ first[1] = [do |-> "generate", of |-> Corpus(c, c.fatal)]
      /\ first[2] = Write(c.out, "mrt", Corpus(c, c.fatal))
      /\ first[3] = Write(ManifestPath(c), "manifest", Corpus(c, c.fatal))
  BY PairSteps
<1> DEFINE Is(p, k) ==
             /\ IsSeq(p) /\ Len(p) = 3
             /\ p[1] = [do |-> "generate", of |-> Corpus(c, k)]
             /\ p[2] = Write(FatalMrt[c.fatalDir][k], "mrt", Corpus(c, k))
             /\ p[3] = Write(FatalManifest[c.fatalDir][k], "manifest", Corpus(c, k))
<1>2. Is(p1, FatalKinds[1])
  BY PairSteps
<1>3. Is(p2, FatalKinds[2])
  BY PairSteps
<1>4. Is(p3, FatalKinds[3])
  BY PairSteps
<1>5. Main(c) = first \o (<<mkdir>> \o ((p1 \o p2) \o p3))
  <2> DEFINE pairs == [i \in DOMAIN FatalKinds |-> pair(FatalKinds[i])]
  <2>1. pairs = <<p1, p2, p3>>
    <3> HIDE DEF pair
    <3>1. QED
      BY DEF FatalKinds
  <2>2. FatalCases(c) = <<mkdir>> \o FlattenSeq(pairs)
    BY DEF FatalCases
  <2>3. Main(c) = first \o FatalCases(c)
    BY DEF Main
  <2> HIDE DEF pairs, p1, p2, p3, mkdir, first, pair
  <2>4. FlattenSeq(pairs) = (p1 \o p2) \o p3
    <3> DEFINE x == p1 \o p2
               y == x \o p3
    <3>1. IsCat(x, p1, p2) /\ IsCat(y, x, p3)
      BY DEF IsCat
    <3> HIDE DEF x, y
    <3>2. FlattenSeq(<<p1, p2, p3>>) = y
      BY <3>1, FlattenThree
    <3>3. FlattenSeq(pairs) = y
      BY <2>1, <3>2, Zenon
    <3>4. QED
      BY <3>3 DEF x, y
  <2>5. QED
    BY <2>2, <2>3, <2>4, Zenon
<1>6. IsSeq(<<mkdir>>) /\ Len(<<mkdir>>) = 1 /\ <<mkdir>>[1] = mkdir
  BY OneStep
<1> HIDE DEF first, p1, p2, p3, mkdir, pair
<1>7. /\ IsSeq(p1) /\ Len(p1) = 3 /\ IsSeq(p2) /\ Len(p2) = 3
      /\ IsSeq(p3) /\ Len(p3) = 3
  BY <1>2, <1>3, <1>4
<1> DEFINE q == p1 \o p2
           r == q \o p3
           s == <<mkdir>> \o r
           t == first \o s
<1>8. /\ IsSeq(q) /\ Len(q) = 6
      /\ \A i \in 1 .. 3 : q[i] = p1[i] /\ q[3 + i] = p2[i]
  <2>1. IsCat(q, p1, p2)
    BY DEF IsCat
  <2> HIDE DEF q
  <2>2. Joined(q, p1, p2)
    BY <1>7, <2>1, ConcatAt
  <2>3. QED
    BY <1>7, <2>2 DEF Joined
<1> HIDE DEF q
<1>9. /\ IsSeq(r) /\ Len(r) = 9
      /\ \A i \in 1 .. 6 : r[i] = q[i]
      /\ \A i \in 1 .. 3 : r[6 + i] = p3[i]
  <2>1. IsCat(r, q, p3)
    BY DEF IsCat
  <2> HIDE DEF r
  <2>2. Joined(r, q, p3)
    BY <1>7, <1>8, <2>1, ConcatAt
  <2>3. QED
    BY <1>7, <1>8, <2>2 DEF Joined
<1> HIDE DEF r
<1>10. /\ IsSeq(s) /\ Len(s) = 10
       /\ s[1] = mkdir
       /\ \A i \in 1 .. 9 : s[1 + i] = r[i]
  <2>1. IsCat(s, <<mkdir>>, r)
    BY DEF IsCat
  <2> HIDE DEF s
  <2>2. Joined(s, <<mkdir>>, r)
    BY <1>6, <1>9, <2>1, ConcatAt
  <2>3. 1 \in 1 .. Len(<<mkdir>>)
    BY <1>6
  <2>4. s[1] = mkdir
    BY <1>6, <2>2, <2>3 DEF Joined
  <2>5. QED
    BY <1>6, <1>9, <2>2, <2>4 DEF Joined
<1> HIDE DEF s
<1>11. /\ IsSeq(t) /\ Len(t) = 13
       /\ \A i \in 1 .. 3 : t[i] = first[i]
       /\ \A i \in 1 .. 10 : t[3 + i] = s[i]
  <2>1. IsCat(t, first, s)
    BY DEF IsCat
  <2> HIDE DEF t
  <2>2. Joined(t, first, s)
    BY <1>1, <1>10, <2>1, ConcatAt
  <2>3. QED
    BY <1>1, <1>10, <2>2 DEF Joined
<1>12. Main(c) = t
  BY <1>5 DEF t, s, r, q
<1> HIDE DEF t
<1>13. t[1] = first[1] /\ t[2] = first[2] /\ t[3] = first[3] /\ t[4] = mkdir
  BY <1>10, <1>11
<1>14. \A i \in 1 .. 3 : t[4 + i] = p1[i] /\ t[7 + i] = p2[i] /\ t[10 + i] = p3[i]
  <2>1. \A i \in 1 .. 9 : t[4 + i] = r[i]
    <3>1. \A i \in 1 .. 9 : 1 + i \in 1 .. 10 /\ 3 + (1 + i) = 4 + i
      OBVIOUS
    <3>2. QED
      BY <3>1, <1>10, <1>11
  <2>2. \A i \in 1 .. 3 : /\ i \in 1 .. 9 /\ i \in 1 .. 6 /\ 3 + i \in 1 .. 9 /\ 3 + i \in 1 .. 6
                         /\ 6 + i \in 1 .. 9 /\ 4 + (3 + i) = 7 + i /\ 4 + (6 + i) = 10 + i
    OBVIOUS
  <2>3. QED
    BY <2>1, <2>2, <1>8, <1>9
<1>15. /\ t[5] = p1[1] /\ t[6] = p1[2] /\ t[7] = p1[3]
       /\ t[8] = p2[1] /\ t[9] = p2[2] /\ t[10] = p2[3]
       /\ t[11] = p3[1] /\ t[12] = p3[2] /\ t[13] = p3[3]
  BY <1>14
<1>17. ASSUME NEW n \in 1 .. 3
       PROVE  /\ t[3 * n + 2] = [do |-> "generate", of |-> Corpus(c, FatalKinds[n])]
              /\ t[3 * n + 3]
                   = Write(FatalMrt[c.fatalDir][FatalKinds[n]], "mrt", Corpus(c, FatalKinds[n]))
              /\ t[3 * n + 4]
                   = Write(FatalManifest[c.fatalDir][FatalKinds[n]], "manifest", Corpus(c, FatalKinds[n]))
  <2>1. CASE n = 1
    <3>1. 3 * n + 2 = 5 /\ 3 * n + 3 = 6 /\ 3 * n + 4 = 7
      BY <2>1
    <3>2. QED
      BY <2>1, <3>1, <1>2, <1>15
  <2>2. CASE n = 2
    <3>1. 3 * n + 2 = 8 /\ 3 * n + 3 = 9 /\ 3 * n + 4 = 10
      BY <2>2
    <3>2. QED
      BY <2>2, <3>1, <1>3, <1>15
  <2>3. CASE n = 3
    <3>1. 3 * n + 2 = 11 /\ 3 * n + 3 = 12 /\ 3 * n + 4 = 13
      BY <2>3
    <3>2. QED
      BY <2>3, <3>1, <1>4, <1>15
  <2>4. QED
    BY <2>1, <2>2, <2>3
<1>18. QED
  BY <1>1, <1>11, <1>12, <1>13, <1>17 DEF mkdir

(* What the invariants use of a script: it begins with the generation of   *)
(* the corpus of its command line, and writes files of the layout only,    *)
(* with corpora that differ from it in the tail at most.                   *)
LEMMA ScriptFacts ==
  ASSUME NEW c \in CommandLines
  PROVE  /\ IsSeq(Main(c))
         /\ Len(Main(c)) \in Nat
         /\ Len(Main(c)) >= 1
         /\ Main(c)[1].do = "generate"
         /\ Main(c)[1].of = Corpus(c, c.fatal)
         /\ \A i \in 1 .. Len(Main(c)) : Main(c)[i].do = "write" =>
              /\ Main(c)[i].path \in Files
              /\ \E tail : Main(c)[i].of = Corpus(c, tail)
<1> DEFINE s == Main(c)
           Good(x) == x.do = "write" => x.path \in Files /\ \E tail : x.of = Corpus(c, tail)
<1>1. ASSUME NEW p, NEW what, NEW tail
      PROVE  /\ Write(p, what, Corpus(c, tail)).path = p
             /\ Write(p, what, Corpus(c, tail)).of = Corpus(c, tail)
  BY DEF Write
<1>2. ASSUME NEW p \in Files, NEW what, NEW tail
      PROVE  Good(Write(p, what, Corpus(c, tail)))
  <2> DEFINE x == Write(p, what, Corpus(c, tail))
  <2>1. x.path = p /\ x.of = Corpus(c, tail)
    BY <1>1
  <2> HIDE DEF x
  <2>2. \E t : x.of = Corpus(c, t)
    BY <2>1
  <2>3. Good(x)
    BY <2>1, <2>2
  <2>4. QED
    BY <2>3 DEF x
<1>3. ASSUME NEW tail
      PROVE  LET g == [do |-> "generate", of |-> Corpus(c, tail)]
             IN g.do = "generate" /\ g.of = Corpus(c, tail) /\ Good(g)
  OBVIOUS
<1>4. c.out \in Files /\ ManifestPath(c) \in Files
  BY CommandAssumption DEF ManifestPath
<1>5. CASE c.fatalDir = NoFile
  <2>1. /\ IsSeq(s) /\ Len(s) = 3
        /\ s[1] = [do |-> "generate", of |-> Corpus(c, c.fatal)]
        /\ s[2] = Write(c.out, "mrt", Corpus(c, c.fatal))
        /\ s[3] = Write(ManifestPath(c), "manifest", Corpus(c, c.fatal))
    BY <1>5, ShortScript
  <2> HIDE DEF s, Good
  <2>2. Good(s[1]) /\ Good(s[2]) /\ Good(s[3])
    BY <1>2, <1>3, <1>4, <2>1
  <2>3. \A i \in 1 .. Len(s) : Good(s[i])
    BY <2>1, <2>2
  <2>4. s[1].do = "generate" /\ s[1].of = Corpus(c, c.fatal)
    BY <2>1
  <2>5. QED
    BY <2>1, <2>3, <2>4 DEF s, Good
<1>6. CASE c.fatalDir # NoFile
  <2>1. /\ IsSeq(s) /\ Len(s) = 13
        /\ s[1] = [do |-> "generate", of |-> Corpus(c, c.fatal)]
        /\ s[2] = Write(c.out, "mrt", Corpus(c, c.fatal))
        /\ s[3] = Write(ManifestPath(c), "manifest", Corpus(c, c.fatal))
        /\ s[4] = [do |-> "mkdir", path |-> c.fatalDir]
        /\ \A n \in 1 .. 3 :
             /\ s[3 * n + 2] = [do |-> "generate", of |-> Corpus(c, FatalKinds[n])]
             /\ s[3 * n + 3] = Write(FatalMrt[c.fatalDir][FatalKinds[n]], "mrt", Corpus(c, FatalKinds[n]))
             /\ s[3 * n + 4]
                  = Write(FatalManifest[c.fatalDir][FatalKinds[n]], "manifest", Corpus(c, FatalKinds[n]))
    BY <1>6, LongScript, Zenon
  <2>2. \A n \in 1 .. 3 : /\ FatalMrt[c.fatalDir][FatalKinds[n]] \in Files
                         /\ FatalManifest[c.fatalDir][FatalKinds[n]] \in Files
    <3>1. \A n \in 1 .. 3 : FatalKinds[n] \in Range(FatalKinds)
      BY DEF FatalKinds, Range
    <3>2. QED
      BY <1>6, <3>1, CommandAssumption
  <2> HIDE DEF s
  <2>3. Good(s[4])
    BY <2>1
  <2> HIDE DEF Good
  <2>4. Good(s[1]) /\ Good(s[2]) /\ Good(s[3])
    BY <1>2, <1>3, <1>4, <2>1
  <2>5. ASSUME NEW n \in 1 .. 3
        PROVE  Good(s[3 * n + 2]) /\ Good(s[3 * n + 3]) /\ Good(s[3 * n + 4])
    BY <1>2, <1>3, <2>1, <2>2
  <2>6. ASSUME NEW i \in 1 .. Len(s)
        PROVE  Good(s[i])
    <3>1. CASE i \in 1 .. 4
      BY <2>3, <2>4, <3>1
    <3>2. CASE i \in 5 .. 13
      <4>1. PICK n \in 1 .. 3 : i = 3 * n + 2 \/ i = 3 * n + 3 \/ i = 3 * n + 4
        <5>1. i \in 5 .. 7 \/ i \in 8 .. 10 \/ i \in 11 .. 13
          BY <3>2
        <5>2. QED
          BY <5>1
      <4>2. QED
        BY <4>1, <2>5
    <3>3. QED
      BY <2>1, <3>1, <3>2
  <2>7. s[1].do = "generate" /\ s[1].of = Corpus(c, c.fatal)
    BY <2>1
  <2>8. QED
    BY <2>1, <2>6, <2>7 DEF s, Good
<1>7. QED
  BY <1>5, <1>6

(* The two files of a pair are written one after the other.                *)
LEMMA PairFacts ==
  ASSUME NEW c \in CommandLines, NEW pair \in Pairs(c)
  PROVE  \E m \in 2 .. Len(Main(c)) :
           /\ Main(c)[m - 1].do = "write" /\ Main(c)[m - 1].path = pair[1]
           /\ Main(c)[m - 1].what = "mrt" /\ Main(c)[m - 1].of = Main(c)[m].of
           /\ Main(c)[m].do = "write" /\ Main(c)[m].path = pair[2]
<1> DEFINE s == Main(c)
           AreAt(m, p, q) ==
             /\ m \in 2 .. Len(s)
             /\ s[m - 1].do = "write" /\ s[m - 1].path = p
             /\ s[m - 1].what = "mrt" /\ s[m - 1].of = s[m].of
             /\ s[m].do = "write" /\ s[m].path = q
<1>1. ASSUME NEW m \in Nat, m \in 2 .. Len(s), NEW p, NEW q, NEW corpus,
             s[m - 1] = Write(p, "mrt", corpus), s[m] = Write(q, "manifest", corpus)
      PROVE  AreAt(m, p, q)
  BY <1>1 DEF Write
<1>2. AreAt(3, c.out, ManifestPath(c))
  <2>1. /\ Len(s) = 3 \/ Len(s) = 13
        /\ s[2] = Write(c.out, "mrt", Corpus(c, c.fatal))
        /\ s[3] = Write(ManifestPath(c), "manifest", Corpus(c, c.fatal))
    BY ShortScript, LongScript
  <2> HIDE DEF s, AreAt
  <2>2. 3 \in 2 .. Len(s) /\ 3 - 1 = 2
    BY <2>1
  <2>3. QED
    BY <1>1, <2>1, <2>2
<1>3. ASSUME c.fatalDir # NoFile, NEW n \in 1 .. 3
      PROVE  AreAt(3 * n + 4, FatalMrt[c.fatalDir][FatalKinds[n]],
                   FatalManifest[c.fatalDir][FatalKinds[n]])
  <2>1. /\ Len(s) = 13
        /\ s[3 * n + 3] = Write(FatalMrt[c.fatalDir][FatalKinds[n]], "mrt", Corpus(c, FatalKinds[n]))
        /\ s[3 * n + 4]
             = Write(FatalManifest[c.fatalDir][FatalKinds[n]], "manifest", Corpus(c, FatalKinds[n]))
    BY <1>3, LongScript, Zenon
  <2> HIDE DEF s, AreAt
  <2>2. 3 * n + 4 \in 2 .. Len(s) /\ (3 * n + 4) - 1 = 3 * n + 3
    BY <2>1
  <2>3. QED
    BY <1>1, <2>1, <2>2
<1>4. CASE pair = <<c.out, ManifestPath(c)>>
  <2>1. AreAt(3, pair[1], pair[2])
    <3> HIDE DEF AreAt
    <3>1. QED
      BY <1>2, <1>4
  <2>2. QED
    BY <2>1
<1>5. CASE pair # <<c.out, ManifestPath(c)>>
  <2>1. /\ c.fatalDir # NoFile
        /\ \E n \in 1 .. 3 :
             pair = <<FatalMrt[c.fatalDir][FatalKinds[n]], FatalManifest[c.fatalDir][FatalKinds[n]]>>
    <3>1. Range(FatalKinds) = {FatalKinds[n] : n \in 1 .. 3}
      BY DEF Range, FatalKinds
    <3>2. QED
      BY <1>5, <3>1 DEF Pairs
  <2>2. PICK n \in 1 .. 3 :
          pair = <<FatalMrt[c.fatalDir][FatalKinds[n]], FatalManifest[c.fatalDir][FatalKinds[n]]>>
    BY <2>1
  <2>3. AreAt(3 * n + 4, pair[1], pair[2])
    <3> HIDE DEF AreAt
    <3>1. QED
      BY <1>3, <2>1, <2>2
  <2>4. QED
    BY <2>3
<1>6. QED
  BY <1>4, <1>5

(* The file of a fatal kind is the corpus with that tail.                  *)
LEMMA FatalFacts ==
  ASSUME NEW c \in CommandLines, c.fatalDir # NoFile, NEW k \in Range(FatalKinds)
  PROVE  Write(FatalMrt[c.fatalDir][k], "mrt", Corpus(c, k)) \in WritesOf(c)
<1>1. PICK n \in 1 .. 3 : k = FatalKinds[n]
  BY DEF Range, FatalKinds
<1> DEFINE s == Main(c)
           job == Write(FatalMrt[c.fatalDir][k], "mrt", Corpus(c, k))
<1>2. IsSeq(s) /\ Len(s) = 13 /\ s[3 * n + 3] = job
  BY <1>1, LongScript
<1>3. job.do = "write"
  BY DEF Write
<1> HIDE DEF s, job
<1>4. job \in Range(s)
  <2>1. 3 * n + 3 \in 1 .. 13
    OBVIOUS
  <2>2. DOMAIN s = 1 .. 13
    BY <1>2 DEF IsSeq
  <2>3. QED
    BY <1>2, <2>1, <2>2 DEF Range
<1>5. QED
  BY <1>3, <1>4 DEF WritesOf, s, job

-----------------------------------------------------------------------------
(* The state.                                                              *)

(* The last run and its script.                                            *)
LEMMA CurFacts ==
  ASSUME Typed, Launched
  PROVE  /\ Len(log) \in Nat /\ Len(log) >= 1
         /\ Cur \in CommandLines
         /\ Len(Plan) \in Nat /\ Len(Plan) >= 1
         /\ Len(todo) \in Nat
<1>1. log \in Seq(Entries) /\ log # << >>
  BY DEF Typed, Launched
<1>2. Len(log) \in Nat /\ Len(log) >= 1
  BY <1>1
<1>3. log[Len(log)] \in Entries
  BY <1>1, <1>2
<1>4. Cur \in CommandLines
  BY <1>3 DEF Cur, Entries
<1>5. Len(todo) \in Nat
  BY DEF Typed
<1>6. QED
  BY <1>2, <1>4, <1>5, ScriptFacts DEF Plan

(* A running process that has something left to do is at the next place of *)
(* its script.                                                             *)
LEMMA AtNextStep ==
  ASSUME IInv, status = "running", todo # << >>
  PROVE  /\ Launched
         /\ Len(todo) >= 1
         /\ Passed \in Nat /\ Passed + 1 \in 1 .. Len(Plan)
         /\ Head(todo) = todo[1] /\ todo[1] = Plan[Passed + 1]
         /\ log[Len(log)].end = "running"
<1>1. Launched /\ log[Len(log)].end = "running"
  BY DEF IInv, Ended
<1>2. /\ Len(Plan) \in Nat /\ Len(todo) \in Nat
  BY <1>1, CurFacts DEF IInv
<1>3. todo \in Seq(Steps)
  BY DEF IInv, Typed
<1>4. Len(todo) >= 1 /\ Head(todo) = todo[1]
  BY <1>2, <1>3
<1>5. Len(todo) <= Len(Plan) /\ \A i \in 1 .. Len(todo) : todo[i] = Plan[Passed + i]
  BY <1>1 DEF IInv, OnScript
<1>6. QED
  BY <1>1, <1>2, <1>4, <1>5 DEF Passed

(* A place of a script whose paths are all different is found by its path. *)
LEMMA SeparatePlaces ==
  ASSUME NEW c, Separate(c), IsSeq(Main(c)),
         NEW i \in 1 .. Len(Main(c)), NEW j \in 1 .. Len(Main(c)),
         Main(c)[i].do = "write", Main(c)[j].do = "write", Main(c)[i].path = Main(c)[j].path
  PROVE  i = j
<1>1. DOMAIN Main(c) = 1 .. Len(Main(c))
  BY DEF IsSeq
<1>2. QED
  BY <1>1 DEF Separate, SeparateLines

-----------------------------------------------------------------------------
(* Initially nothing has been run.                                         *)
LEMMA InitInv == Init => IInv
<1> SUFFICES ASSUME Init
             PROVE  IInv
  OBVIOUS
<1>1. /\ status = "idle" /\ todo = << >> /\ opened = FALSE /\ log = << >>
      /\ disk = [p \in Files |-> Absent] /\ writer = [p \in Files |-> 0]
  BY DEF Init
<1>2. Len(log) = 0 /\ log \in Seq(Entries) /\ ~ Launched /\ DOMAIN log = {}
  BY <1>1 DEF Launched
<1>3. Typed
  <2>1. Absent \in Contents
    BY DEF Contents
  <2>2. disk \in [Files -> Contents]
    BY <1>1, <2>1
  <2>3. QED
    <3>1. todo \in Seq(Steps) /\ opened \in BOOLEAN /\ status \in {"idle"} \cup Endings
      BY <1>1, EmptySeq
    <3>2. Len(log) <= MaxRuns
      BY <1>2, MaxRunsAssumption
    <3>3. writer \in [Files -> 0 .. Len(log)]
      BY <1>1, <1>2
    <3>4. QED
      BY <1>2, <2>2, <3>1, <3>2, <3>3 DEF Typed
<1>4. Ended /\ OnScript /\ HandIn /\ DoneSoFar /\ OnlyOpened /\ Buildable /\ Authored
  <2>1. OnScript /\ HandIn /\ DoneSoFar /\ Buildable
    BY <1>1, <1>2 DEF OnScript, HandIn, DoneSoFar, Buildable
  <2>2. OnlyOpened /\ Authored
    BY <1>1, <1>2 DEF OnlyOpened, Authored
  <2>3. Ended
    BY <1>1, <1>2 DEF Ended
  <2>4. QED
    BY <2>1, <2>2, <2>3
<1>5. PublishedUntilRewritten /\ FileBeforeManifest /\ NoCorpusNoFile
  BY <1>2 DEF PublishedUntilRewritten, FileBeforeManifest, NoCorpusNoFile
<1>6. QED
  BY <1>3, <1>4, <1>5 DEF IInv

-----------------------------------------------------------------------------
(* The steps that only end a run.                                          *)
LEMMA EndsKeeps ==
  ASSUME IInv, status = "running", NEW how \in {"success", "failure", "killed"}, Ends(how),
         UNCHANGED disk, how = "success" => todo = << >>
  PROVE  IInv'
<1> DEFINE R == Len(log)
<1>1. /\ status' = how /\ log' = [log EXCEPT ![R].end = how]
      /\ UNCHANGED <<todo, opened, writer, disk>>
  BY DEF Ends
<1>2. Typed /\ Launched /\ log[R].end = "running" /\ log \in Seq(Entries)
  BY DEF IInv, Ended, Typed
<1>3. R \in Nat /\ R >= 1 /\ R \in 1 .. R /\ DOMAIN log = 1 .. R /\ log # << >>
  BY <1>2, CurFacts DEF Launched
<1>4. /\ Len(log') = R /\ log' \in Seq(Entries) /\ DOMAIN log' = 1 .. R /\ log' # << >>
      /\ \A r \in 1 .. R : /\ log'[r].line = log[r].line
                          /\ log'[r].end = IF r = R THEN how ELSE log[r].end
  <2> DEFINE e == [log[R] EXCEPT !.end = how]
  <2>1. log[R] \in Entries
    BY <1>2, <1>3
  <2>2. e \in Entries /\ e.line = log[R].line /\ e.end = how
    BY <2>1 DEF Entries, Endings
  <2>3. log' = [log EXCEPT ![R] = e]
    BY <1>1
  <2> HIDE DEF e
  <2>4. /\ log' \in Seq(Entries) /\ Len(log') = R
        /\ \A r \in 1 .. R : log'[r] = IF r = R THEN e ELSE log[r]
    BY <1>2, <1>3, <2>2, <2>3, ExceptSeq
  <2>5. DOMAIN log' = 1 .. R
    BY <2>4, LenProperties
  <2>6. log' # << >>
    <3>1. R # 0
      BY <1>3
    <3>2. Len(log') = R
      BY <2>4
    <3>3. QED
      BY <3>1, <3>2
  <2>7. QED
    BY <2>2, <2>4, <2>5, <2>6
<1>5. Cur' = Cur /\ (Launched' <=> Launched) /\ Plan' = Plan /\ Passed' = Passed
  <2>1. Cur' = Cur
    BY <1>3, <1>4 DEF Cur
  <2>2. QED
    BY <1>1, <1>3, <1>4, <2>1 DEF Launched, Plan, Passed
<1>6. Typed'
  <2>1. status' \in {"idle"} \cup Endings
    BY <1>1 DEF Endings
  <2>2. QED
    BY <1>1, <1>2, <1>4, <2>1 DEF Typed
<1>7. Ended'
  BY <1>1, <1>3, <1>4 DEF IInv, Ended
<1>8. OnScript' /\ HandIn' /\ DoneSoFar' /\ Buildable'
  BY <1>1, <1>4, <1>5 DEF IInv, OnScript, HandIn, DoneSoFar, Buildable
<1>9. OnlyOpened'
  BY <1>1, <1>3, <1>4, <1>5 DEF IInv, OnlyOpened, IsWrite
<1>10. Authored'
  BY <1>1, <1>3, <1>4 DEF IInv, Authored
<1>11. PublishedUntilRewritten'
  <2> SUFFICES ASSUME NEW r \in 1 .. R, log'[r].end = "success", log'[r].line.parses = "args",
                      Separate(log'[r].line), NEW job \in WritesOf(log'[r].line)
               PROVE  writer'[job.path] >= r /\ (writer'[job.path] = r => disk'[job.path] = Holds(job, TRUE))
    BY <1>4 DEF PublishedUntilRewritten, Wrote
  <2>1. /\ log[r].line.parses = "args" /\ Separate(log[r].line) /\ job \in WritesOf(log[r].line)
        /\ writer' = writer /\ disk' = disk /\ log'[r].end = "success"
    BY <1>1, <1>4
  <2>2. CASE r # R
    BY <1>3, <1>4, <2>1, <2>2 DEF IInv, PublishedUntilRewritten, Wrote
  <2>3. CASE r = R
    <3>1. todo = << >> /\ Len(todo) = 0
      BY <1>4, <2>1, <2>3
    <3>2. Passed = Len(Plan) /\ Len(Plan) \in Nat
      BY <1>2, <3>1, CurFacts DEF Passed
    <3>3. job \in WritesOf(Cur) /\ Separate(Cur)
      BY <2>1, <2>3 DEF Cur
    <3>4. PICK i \in 1 .. Len(Plan) : job = Plan[i] /\ Plan[i].do = "write"
      <4>1. DOMAIN Plan = 1 .. Len(Plan)
        BY <1>2, CurFacts, ScriptFacts DEF Plan, IsSeq
      <4>2. QED
        BY <3>3, <4>1 DEF WritesOf, Range, Plan
    <3>5. writer[job.path] = R /\ disk[job.path] = Holds(job, TRUE)
      BY <1>2, <3>2, <3>3, <3>4 DEF IInv, DoneSoFar
    <3>6. QED
      BY <1>1, <1>3, <2>3, <3>5
  <2>4. QED
    BY <2>2, <2>3
<1>12. FileBeforeManifest'
  <2> SUFFICES ASSUME NEW r \in 1 .. R, Separate(log'[r].line), NEW pair \in Pairs(log'[r].line),
                      writer'[pair[2]] = r
               PROVE  /\ writer'[pair[1]] >= r
                      /\ writer'[pair[1]] = r =>
                           disk'[pair[1]] = [what |-> "mrt", of |-> disk'[pair[2]].of, whole |-> TRUE]
    BY <1>4 DEF FileBeforeManifest
  <2>1. Separate(log[r].line) /\ pair \in Pairs(log[r].line) /\ writer' = writer /\ disk' = disk
    BY <1>1, <1>4
  <2>2. QED
    BY <1>3, <2>1 DEF IInv, FileBeforeManifest
<1>13. NoCorpusNoFile'
  BY <1>1, <1>3, <1>4 DEF IInv, NoCorpusNoFile
<1>14. QED
  BY <1>6, <1>7, <1>8, <1>9, <1>10, <1>11, <1>12, <1>13 DEF IInv

-----------------------------------------------------------------------------
(* A new process.                                                          *)
LEMMA InvokeKeeps ==
  ASSUME IInv, NEW c \in CommandLines, Invoke(c)
  PROVE  IInv'
<1> DEFINE R == Len(log)
           fails == c.parses = "help" \/ Refused(c)
<1>1. PICK e \in Entries :
        /\ log' = Append(log, e) /\ e.line = c /\ status' = e.end
        /\ e.end = "running" <=> ~ fails
        /\ e.end = "success" => c.parses = "help"
        /\ todo' = IF fails THEN << >> ELSE Main(c)
  <2>1. CASE fails
    <3> DEFINE how == IF c.parses = "help" THEN "success" ELSE "failure"
               e == [line |-> c, end |-> how]
    <3>1. log' = Append(log, e) /\ status' = how /\ todo' = << >>
      BY <2>1 DEF Invoke
    <3>2. e \in Entries /\ e.line = c /\ e.end = how
      BY DEF Entries, Endings
    <3>3. how # "running" /\ (how = "success" => c.parses = "help")
      OBVIOUS
    <3> HIDE DEF e, how
    <3>4. QED
      BY <2>1, <3>1, <3>2, <3>3
  <2>2. CASE ~ fails
    <3> DEFINE e == [line |-> c, end |-> "running"]
    <3>1. log' = Append(log, e) /\ status' = "running" /\ todo' = Main(c)
      BY <2>2 DEF Invoke
    <3>2. e \in Entries /\ e.line = c /\ e.end = "running"
      BY DEF Entries, Endings
    <3> HIDE DEF e
    <3>3. QED
      BY <2>2, <3>1, <3>2
  <2>3. QED
    BY <2>1, <2>2
<1>2. /\ status # "running" /\ R < MaxRuns /\ opened' = FALSE /\ disk' = disk /\ writer' = writer
  BY DEF Invoke
<1>3. /\ Typed /\ log \in Seq(Entries) /\ R \in Nat /\ DOMAIN log = 1 .. R
      /\ \A p \in Files : writer[p] \in 0 .. R
  BY DEF IInv, Typed
<1>4. /\ log' \in Seq(Entries) /\ Len(log') = R + 1 /\ DOMAIN log' = 1 .. R + 1
      /\ \A r \in 1 .. R : log'[r] = log[r]
      /\ log'[R + 1] = e
  BY <1>1, <1>3
<1>5. log' # << >>
  <2>1. R + 1 # 0
    BY <1>3
  <2>2. QED
    BY <1>4, <2>1
<1>6. Cur' = c /\ (Launched' <=> ~ fails) /\ Plan' = Main(c)
  <2>1. Cur' = c
    BY <1>1, <1>4 DEF Cur
  <2>2. QED
    BY <1>5, <2>1 DEF Launched, Plan
<1>7. IsSeq(Main(c)) /\ Len(Main(c)) \in Nat
  BY ScriptFacts
<1>8. Launched' => todo' = Main(c) /\ Passed' = 0
  <2>1. Launched' => todo' = Main(c)
    BY <1>1, <1>6
  <2>2. QED
    BY <1>6, <1>7, <2>1 DEF Passed
<1>9. \A p \in Files : writer'[p] \in 0 .. R /\ writer'[p] # R + 1
  BY <1>2, <1>3
<1>10. \A r \in 1 .. R + 1 : r \in 1 .. R \/ r = R + 1
  BY <1>3
<1>11. Typed'
  <2>1. todo' \in Seq(Steps)
    <3>1. Range(Main(c)) \subseteq Steps
      BY DEF Steps
    <3>2. Main(c) \in Seq(Steps)
      BY <1>7, <3>1, SeqMonotonic DEF IsSeq
    <3>3. QED
      BY <1>1, <3>2, EmptySeq
  <2>2. writer' \in [Files -> 0 .. Len(log')]
    <3>1. writer \in [Files -> 0 .. R] /\ 0 .. R \subseteq 0 .. R + 1
      BY <1>3 DEF Typed
    <3>2. QED
      BY <1>2, <1>4, <3>1
  <2>3. status' \in {"idle"} \cup Endings
    BY <1>1 DEF Entries
  <2>4. Len(log') <= MaxRuns
    BY <1>2, <1>3, <1>4, MaxRunsAssumption
  <2>5. disk' \in [Files -> Contents] /\ opened' \in BOOLEAN
    BY <1>2, <1>3 DEF Typed
  <2>6. QED
    BY <1>4, <2>1, <2>2, <2>3, <2>4, <2>5 DEF Typed
<1>12. Ended'
  <2>1. \A r \in 1 .. R : log'[r].end # "running"
    BY <1>2, <1>4 DEF IInv, Ended
  <2>2. \A r \in 1 .. R + 1 : log'[r].end = "running" => status' = "running" /\ r = R + 1
    BY <1>1, <1>4, <1>10, <2>1
  <2>3. status' = "running" => Launched' /\ log'[R + 1].end = "running"
    BY <1>1, <1>4, <1>6
  <2>4. QED
    BY <1>4, <2>2, <2>3 DEF Ended
<1>13. OnScript'
  <2>1. ~ Launched' => todo' = << >>
    BY <1>1, <1>6
  <2>2. ASSUME Launched'
        PROVE  /\ Len(todo') <= Len(Plan')
               /\ \A i \in 1 .. Len(todo') : todo'[i] = Plan'[Passed' + i]
    BY <1>6, <1>7, <1>8, <2>2
  <2>3. QED
    BY <2>1, <2>2 DEF OnScript
<1>14. HandIn'
  BY <1>2 DEF HandIn
<1>15. DoneSoFar' /\ Buildable'
  <2>1. Launched' => (1 .. Passed') = {} /\ ~ (Passed' >= 1)
    BY <1>8
  <2>2. DoneSoFar'
    BY <2>1 DEF DoneSoFar
  <2>3. Buildable'
    BY <2>1 DEF Buildable
  <2>4. QED
    BY <2>2, <2>3
<1>16. OnlyOpened'
  BY <1>4, <1>9 DEF OnlyOpened
<1>17. Authored'
  <2> SUFFICES ASSUME NEW p \in Files, NEW r \in 1 .. R + 1, writer'[p] = r
               PROVE  \E job \in WritesOf(log'[r].line) :
                        job.path = p /\ \E w \in BOOLEAN : disk'[p] = Holds(job, w)
    BY <1>4 DEF Authored
  <2>1. r \in 1 .. R /\ log'[r] = log[r] /\ writer[p] = r /\ disk' = disk
    BY <1>2, <1>4, <1>9, <1>10
  <2>2. QED
    BY <2>1 DEF IInv, Authored
<1>18. PublishedUntilRewritten'
  <2> SUFFICES ASSUME NEW r \in 1 .. R + 1, log'[r].end = "success", log'[r].line.parses = "args",
                      Separate(log'[r].line), NEW job \in WritesOf(log'[r].line)
               PROVE  writer'[job.path] >= r /\ (writer'[job.path] = r => disk'[job.path] = Holds(job, TRUE))
    BY <1>4 DEF PublishedUntilRewritten, Wrote
  <2>1. r \in 1 .. R /\ log'[r] = log[r]
    BY <1>1, <1>4, <1>10
  <2>2. QED
    BY <1>2, <1>3, <2>1 DEF IInv, PublishedUntilRewritten, Wrote
<1>19. FileBeforeManifest'
  <2> SUFFICES ASSUME NEW r \in 1 .. R + 1, Separate(log'[r].line), NEW pair \in Pairs(log'[r].line),
                      writer'[pair[2]] = r
               PROVE  /\ writer'[pair[1]] >= r
                      /\ writer'[pair[1]] = r =>
                           disk'[pair[1]] = [what |-> "mrt", of |-> disk'[pair[2]].of, whole |-> TRUE]
    BY <1>4 DEF FileBeforeManifest
  <2>1. pair[2] \in Files
    <3>1. log'[r].line \in CommandLines
      <4>1. log'[r] \in Entries
        BY <1>4, ElementOfSeq
      <4>2. QED
        BY <4>1 DEF Entries
    <3>2. PICK m \in 2 .. Len(Main(log'[r].line)) :
             Main(log'[r].line)[m].do = "write" /\ Main(log'[r].line)[m].path = pair[2]
      BY <3>1, PairFacts
    <3>3. m \in 1 .. Len(Main(log'[r].line))
      BY <3>1, ScriptFacts
    <3>4. QED
      BY <3>1, <3>2, <3>3, ScriptFacts
  <2>2. r \in 1 .. R /\ log'[r] = log[r]
    BY <1>4, <1>9, <1>10, <2>1
  <2>3. QED
    BY <1>2, <1>3, <2>2 DEF IInv, FileBeforeManifest
<1>20. NoCorpusNoFile'
  <2> SUFFICES ASSUME NEW r \in 1 .. R + 1, NEW p \in Files, writer'[p] = r,
                      Refused(log'[r].line) \/ Corpus(log'[r].line, log'[r].line.fatal) \in Unbuildable
               PROVE  FALSE
    BY <1>4 DEF NoCorpusNoFile
  <2>1. r \in 1 .. R /\ log'[r] = log[r] /\ writer[p] = r
    BY <1>2, <1>4, <1>9, <1>10
  <2>2. QED
    BY <1>3, <2>1 DEF IInv, NoCorpusNoFile
<1>21. QED
  BY <1>11, <1>12, <1>13, <1>14, <1>15, <1>16, <1>17, <1>18, <1>19, <1>20 DEF IInv

-----------------------------------------------------------------------------
(* The steps of a process.                                                 *)

LEMMA WriteFacts ==
  ASSUME NEW c \in CommandLines, NEW job \in WritesOf(c)
  PROVE  /\ \E i \in 1 .. Len(Main(c)) : job = Main(c)[i] /\ Main(c)[i].do = "write"
         /\ job.path \in Files
         /\ \E tail : job.of = Corpus(c, tail)
<1>1. DOMAIN Main(c) = 1 .. Len(Main(c))
  BY ScriptFacts DEF IsSeq
<1>2. PICK i \in 1 .. Len(Main(c)) : job = Main(c)[i] /\ Main(c)[i].do = "write"
  BY <1>1 DEF WritesOf, Range
<1>3. QED
  BY <1>2, ScriptFacts

LEMMA PairPaths ==
  ASSUME NEW c \in CommandLines, NEW pair \in Pairs(c)
  PROVE  pair[1] \in Files /\ pair[2] \in Files
<1> DEFINE s == Main(c)
<1>1. PICK m \in 2 .. Len(s) :
        /\ s[m - 1].do = "write" /\ s[m - 1].path = pair[1]
        /\ s[m].do = "write" /\ s[m].path = pair[2]
  BY PairFacts
<1>2. \A i \in 1 .. Len(s) : s[i].do = "write" => s[i].path \in Files
  BY ScriptFacts
<1>3. Len(s) \in Nat
  BY ScriptFacts
<1> HIDE DEF s
<1>4. m - 1 \in 1 .. Len(s) /\ m \in 1 .. Len(s)
  BY <1>3
<1>5. QED
  BY <1>1, <1>2, <1>4

(* The next step of the script becomes one that is behind.                 *)
LEMMA Advances ==
  ASSUME IInv, status = "running", todo # << >>, todo' = Tail(todo), UNCHANGED <<status, log>>,
         todo[1].do = "generate" => todo[1].of \notin Unbuildable
  PROVE  /\ Cur' = Cur /\ Plan' = Plan /\ Launched /\ Launched'
         /\ Passed \in Nat /\ Passed' = Passed + 1
         /\ todo' \in Seq(Steps)
         /\ OnScript' /\ Ended' /\ Buildable'
<1>1. /\ Launched /\ Len(todo) >= 1
      /\ Passed \in Nat /\ Passed + 1 \in 1 .. Len(Plan)
      /\ todo[1] = Plan[Passed + 1]
  BY AtNextStep
<1>2. /\ Len(Plan) \in Nat /\ Len(todo) \in Nat /\ todo \in Seq(Steps) /\ Cur \in CommandLines
  BY <1>1, CurFacts DEF IInv, Typed
<1>3. Cur' = Cur
  BY DEF Cur
<1>4. Plan' = Plan
  BY <1>3 DEF Plan
<1>5. Launched'
  BY <1>1, <1>3 DEF Launched
<1>6. /\ todo' \in Seq(Steps) /\ Len(todo') = Len(todo) - 1
      /\ \A i \in 1 .. Len(todo') : todo'[i] = todo[i + 1]
  BY <1>2, HeadTailProperties
<1>7. Passed' = Passed + 1
  BY <1>2, <1>4, <1>6 DEF Passed
<1>8. OnScript'
  <2>1. Len(todo) <= Len(Plan) /\ \A i \in 1 .. Len(todo) : todo[i] = Plan[Passed + i]
    BY <1>1 DEF IInv, OnScript
  <2>2. ASSUME NEW i \in 1 .. Len(todo')
        PROVE  todo'[i] = Plan'[Passed' + i]
    <3>1. i + 1 \in 1 .. Len(todo) /\ Passed + (i + 1) = Passed' + i
      BY <1>1, <1>2, <1>6, <1>7
    <3>2. todo[i + 1] = Plan[Passed + (i + 1)]
      BY <2>1, <3>1
    <3>3. QED
      BY <1>4, <1>6, <3>1, <3>2
  <2>3. Len(todo') <= Len(Plan')
    BY <1>2, <1>4, <1>6, <2>1
  <2>4. QED
    BY <1>5, <2>2, <2>3 DEF OnScript
<1>9. Ended'
  BY <1>5 DEF IInv, Ended
<1>10. Buildable'
  <2>1. CASE Passed >= 1
    BY <1>1, <1>3, <2>1 DEF IInv, Buildable
  <2>2. CASE Passed = 0
    <3>1. Passed + 1 = 1
      BY <2>2
    <3>2. todo[1] = Plan[1]
      BY <1>1, <3>1
    <3>3. Plan[1].do = "generate" /\ Plan[1].of = Corpus(Cur, Cur.fatal)
      BY <1>2, ScriptFacts DEF Plan
    <3>4. QED
      BY <1>3, <3>2, <3>3 DEF Buildable
  <2>3. QED
    BY <1>1, <2>1, <2>2
<1>11. QED
  BY <1>1, <1>3, <1>4, <1>5, <1>6, <1>7, <1>8, <1>9, <1>10

(* A step that touches no file.                                            *)
LEMMA QuietStepKeeps ==
  ASSUME IInv, status = "running", todo # << >>, todo' = Tail(todo),
         UNCHANGED <<status, opened, disk, log, writer>>,
         todo[1].do # "write",
         todo[1].do = "generate" => todo[1].of \notin Unbuildable
  PROVE  IInv'
<1>1. /\ Cur' = Cur /\ Plan' = Plan /\ Launched /\ Launched'
      /\ Passed \in Nat /\ Passed' = Passed + 1
      /\ todo' \in Seq(Steps)
      /\ OnScript' /\ Ended' /\ Buildable'
  BY Advances
<1>2. todo[1] = Plan[Passed + 1] /\ ~ opened
  <2>1. ~ opened
    BY DEF IInv, HandIn
  <2>2. QED
    BY <2>1, AtNextStep
<1>3. Typed'
  BY <1>1 DEF IInv, Typed
<1>4. HandIn'
  BY <1>2 DEF HandIn
<1>5. DoneSoFar'
  <2> SUFFICES ASSUME Separate(Cur), NEW i \in 1 .. Passed + 1, Plan[i].do = "write"
               PROVE  writer[Plan[i].path] = Len(log) /\ disk[Plan[i].path] = Holds(Plan[i], TRUE)
    BY <1>1 DEF DoneSoFar
  <2>1. i \in 1 .. Passed
    <3>1. i # Passed + 1
      BY <1>2
    <3>2. QED
      BY <1>1, <3>1
  <2>2. QED
    BY <1>1, <2>1 DEF IInv, DoneSoFar
<1>6. OnlyOpened'
  <2> SUFFICES ASSUME NEW p \in Files, writer[p] = Len(log)
               PROVE  \E i \in 1 .. Len(Plan) :
                        IsWrite(i, p) /\ (i <= Passed + 1 \/ (opened /\ i = Passed + 1 + 1))
    BY <1>1 DEF OnlyOpened, IsWrite
  <2>1. log # << >>
    BY <1>1 DEF Launched
  <2>2. PICK i \in 1 .. Len(Plan) : IsWrite(i, p) /\ i <= Passed
    BY <1>2, <2>1 DEF IInv, OnlyOpened
  <2>3. i <= Passed + 1
    BY <1>1, <2>2
  <2>4. QED
    BY <2>2, <2>3
<1>7. Authored'
  BY DEF IInv, Authored
<1>8. PublishedUntilRewritten' /\ FileBeforeManifest' /\ NoCorpusNoFile'
  <2>1. PublishedUntilRewritten'
    BY DEF IInv, PublishedUntilRewritten, Wrote
  <2>2. FileBeforeManifest'
    BY DEF IInv, FileBeforeManifest
  <2>3. NoCorpusNoFile'
    BY DEF IInv, NoCorpusNoFile
  <2>4. QED
    BY <2>1, <2>2, <2>3
<1>9. QED
  BY <1>1, <1>3, <1>4, <1>5, <1>6, <1>7, <1>8 DEF IInv

(* What a process that is about to write knows.                            *)
LEMMA AtWrite ==
  ASSUME IInv, Running("write")
  PROVE  /\ Launched /\ Cur \in CommandLines /\ log[Len(log)].end = "running"
         /\ Len(log) \in Nat /\ Len(log) >= 1
         /\ Head(todo) = todo[1] /\ todo[1] = Plan[Passed + 1] /\ todo[1].do = "write"
         /\ Len(Plan) \in Nat /\ Passed \in Nat /\ Passed >= 1 /\ Passed + 1 \in 1 .. Len(Plan)
         /\ todo[1].path \in Files
         /\ todo[1] \in WritesOf(Cur)
         /\ \A w \in BOOLEAN : Holds(todo[1], w) \in Contents
         /\ \A p \in Files : writer[p] \in 0 .. Len(log)
<1>1. status = "running" /\ todo # << >> /\ Head(todo).do = "write"
  BY DEF Running
<1>2. /\ Launched /\ log[Len(log)].end = "running"
      /\ Passed \in Nat /\ Passed + 1 \in 1 .. Len(Plan)
      /\ Head(todo) = todo[1] /\ todo[1] = Plan[Passed + 1]
  BY <1>1, AtNextStep
<1>3. Cur \in CommandLines /\ Len(log) \in Nat /\ Len(log) >= 1 /\ Len(Plan) \in Nat
  BY <1>2, CurFacts DEF IInv
<1>4. /\ todo[1].path \in Files /\ IsSeq(Plan) /\ Plan[1].do = "generate"
  BY <1>1, <1>2, <1>3, ScriptFacts DEF Plan
<1>5. Passed >= 1
  <2>1. Passed # 0
    BY <1>1, <1>2, <1>4
  <2>2. QED
    BY <1>2, <2>1
<1>6. todo[1] \in Range(Main(Cur))
  <2>1. DOMAIN Plan = 1 .. Len(Plan)
    BY <1>4 DEF IsSeq
  <2>2. todo[1] \in Range(Plan)
    BY <1>2, <2>1 DEF Range
  <2>3. QED
    BY <2>2 DEF Plan
<1>7. \A w \in BOOLEAN : Holds(todo[1], w) \in Contents
  <2> DEFINE jobs == {j \in UNION {Range(Main(c)) : c \in CommandLines} : j.do = "write"}
  <2>1. todo[1] \in jobs
    BY <1>1, <1>2, <1>3, <1>6
  <2> HIDE DEF jobs
  <2>2. Contents = {Absent} \cup UNION {{Holds(job, w) : w \in BOOLEAN} : job \in jobs}
    BY DEF Contents, jobs
  <2>3. QED
    BY <2>1, <2>2
<1>8. \A p \in Files : writer[p] \in 0 .. Len(log)
  BY DEF IInv, Typed
<1>9. QED
  BY <1>1, <1>2, <1>3, <1>4, <1>5, <1>6, <1>7, <1>8 DEF WritesOf

(* The file is emptied.                                                    *)
LEMMA OpenKeeps ==
  ASSUME IInv, Open
  PROVE  IInv'
<1> DEFINE R == Len(log)
           j == Passed + 1
           at == todo[1].path
<1>1. /\ Launched /\ Cur \in CommandLines /\ log[R].end = "running"
      /\ R \in Nat /\ R >= 1
      /\ Head(todo) = todo[1] /\ todo[1] = Plan[j] /\ todo[1].do = "write"
      /\ Len(Plan) \in Nat /\ Passed \in Nat /\ Passed >= 1 /\ j \in 1 .. Len(Plan)
      /\ at \in Files
      /\ todo[1] \in WritesOf(Cur)
      /\ \A w \in BOOLEAN : Holds(todo[1], w) \in Contents
      /\ \A p \in Files : writer[p] \in 0 .. R
  BY AtWrite DEF Open
<1>2. /\ ~ opened /\ opened' = TRUE
      /\ disk' = [disk EXCEPT ![at] = Holds(todo[1], FALSE)]
      /\ writer' = [writer EXCEPT ![at] = R]
      /\ UNCHANGED <<status, todo, log>>
      /\ todo # << >>
  BY <1>1 DEF Open, Running
<1>3. disk \in [Files -> Contents] /\ writer \in [Files -> 0 .. R] /\ log # << >>
  BY <1>1 DEF IInv, Typed, Launched
<1>4. /\ disk'[at] = Holds(todo[1], FALSE) /\ writer'[at] = R
      /\ \A p \in Files : p # at => disk'[p] = disk[p] /\ writer'[p] = writer[p]
  BY <1>1, <1>2, <1>3
<1>5. Cur' = Cur /\ Plan' = Plan /\ Passed' = Passed /\ Launched'
  <2>1. Cur' = Cur
    BY <1>2 DEF Cur
  <2>2. QED
    BY <1>1, <1>2, <2>1 DEF Plan, Passed, Launched
<1>6. Separate(Cur) => \A i \in 1 .. Len(Plan) : Plan[i].do = "write" /\ Plan[i].path = at => i = j
  BY <1>1, ScriptFacts, SeparatePlaces DEF Plan
<1>7. Typed'
  <2>1. disk' \in [Files -> Contents]
    BY <1>1, <1>2, <1>3
  <2>2. R \in 0 .. R
    BY <1>1
  <2>3. writer' \in [Files -> 0 .. R]
    BY <1>1, <1>2, <1>3, <2>2
  <2>4. QED
    BY <1>2, <2>1, <2>3 DEF IInv, Typed
<1>8. Ended' /\ OnScript' /\ Buildable'
  <2>1. Ended'
    BY <1>1, <1>2, <1>5 DEF IInv, Ended
  <2>2. OnScript'
    BY <1>1, <1>2, <1>5 DEF IInv, OnScript
  <2>3. Buildable'
    BY <1>1, <1>5 DEF IInv, Buildable
  <2>4. QED
    BY <2>1, <2>2, <2>3
<1>9. HandIn'
  BY <1>1, <1>2, <1>4, <1>5 DEF HandIn
<1>10. DoneSoFar'
  <2> SUFFICES ASSUME Separate(Cur), NEW i \in 1 .. Passed, Plan[i].do = "write"
               PROVE  writer'[Plan[i].path] = R /\ disk'[Plan[i].path] = Holds(Plan[i], TRUE)
    BY <1>2, <1>5 DEF DoneSoFar
  <2>1. i \in 1 .. Len(Plan) /\ i # j
    BY <1>1
  <2>2. Plan[i].path \in Files /\ Plan[i].path # at
    BY <1>1, <1>6, <2>1, ScriptFacts DEF Plan
  <2>3. writer[Plan[i].path] = R /\ disk[Plan[i].path] = Holds(Plan[i], TRUE)
    BY <1>1 DEF IInv, DoneSoFar
  <2>4. QED
    BY <1>4, <2>2, <2>3
<1>11. OnlyOpened'
  <2> SUFFICES ASSUME NEW p \in Files, writer'[p] = R
               PROVE  \E i \in 1 .. Len(Plan) : IsWrite(i, p) /\ (i <= Passed \/ i = Passed + 1)
    BY <1>2, <1>5 DEF OnlyOpened, IsWrite
  <2>1. CASE p = at
    <3>1. IsWrite(j, p)
      BY <1>1, <2>1 DEF IsWrite
    <3>2. QED
      BY <1>1, <3>1
  <2>2. CASE p # at
    <3>1. writer[p] = R
      BY <1>4, <2>2
    <3>2. PICK i \in 1 .. Len(Plan) : IsWrite(i, p) /\ i <= Passed
      BY <1>2, <1>3, <3>1 DEF IInv, OnlyOpened
    <3>3. QED
      BY <3>2
  <2>3. QED
    BY <2>1, <2>2
<1>12. Authored'
  <2> SUFFICES ASSUME NEW p \in Files, NEW r \in 1 .. R, writer'[p] = r
               PROVE  \E job \in WritesOf(log[r].line) :
                        job.path = p /\ \E w \in BOOLEAN : disk'[p] = Holds(job, w)
    BY <1>2 DEF Authored
  <2>1. CASE p = at
    <3>1. todo[1] \in WritesOf(log[r].line)
      BY <1>1, <1>4, <2>1 DEF Cur
    <3>2. \E w \in BOOLEAN : disk'[p] = Holds(todo[1], w)
      BY <1>4, <2>1
    <3>3. QED
      BY <2>1, <3>1, <3>2
  <2>2. CASE p # at
    BY <1>4, <2>2 DEF IInv, Authored
  <2>3. QED
    BY <2>1, <2>2
<1>13. \A r \in 1 .. R : log[r].line \in CommandLines
  <2>1. \A r \in 1 .. R : log[r] \in Entries
    BY ElementOfSeq DEF IInv, Typed
  <2>2. QED
    BY <2>1 DEF Entries
<1>14. DOMAIN log = 1 .. R /\ DOMAIN log' = 1 .. R
  BY <1>2 DEF IInv, Typed
<1>15. PublishedUntilRewritten'
  <2> SUFFICES ASSUME NEW r \in 1 .. R, log[r].end = "success", log[r].line.parses = "args",
                      Separate(log[r].line), NEW job \in WritesOf(log[r].line)
               PROVE  writer'[job.path] >= r /\ (writer'[job.path] = r => disk'[job.path] = Holds(job, TRUE))
    BY <1>2, <1>14 DEF PublishedUntilRewritten, Wrote
  <2>1. r # R /\ job.path \in Files
    BY <1>1, <1>13, WriteFacts
  <2>2. writer[job.path] >= r /\ (writer[job.path] = r => disk[job.path] = Holds(job, TRUE))
    BY <1>14 DEF IInv, PublishedUntilRewritten, Wrote
  <2>3. CASE job.path = at
    <3>1. R >= r /\ R # r
      BY <1>1, <2>1
    <3>2. writer'[job.path] = R
      BY <1>4, <2>3
    <3>3. QED
      BY <3>1, <3>2
  <2>4. CASE job.path # at
    BY <1>4, <2>1, <2>2, <2>4
  <2>5. QED
    BY <2>3, <2>4
<1>16. FileBeforeManifest'
  <2> SUFFICES ASSUME NEW r \in 1 .. R, Separate(log[r].line), NEW pair \in Pairs(log[r].line),
                      writer'[pair[2]] = r
               PROVE  /\ writer'[pair[1]] >= r
                      /\ writer'[pair[1]] = r =>
                           disk'[pair[1]] = [what |-> "mrt", of |-> disk'[pair[2]].of, whole |-> TRUE]
    BY <1>2, <1>14 DEF FileBeforeManifest
  <2>1. pair[1] \in Files /\ pair[2] \in Files
    BY <1>13, PairPaths
  <2>2. writer[pair[2]] = r =>
          /\ writer[pair[1]] >= r
          /\ writer[pair[1]] = r =>
               disk[pair[1]] = [what |-> "mrt", of |-> disk[pair[2]].of, whole |-> TRUE]
    BY <1>14 DEF IInv, FileBeforeManifest
  <2>3. CASE r = R
    <3>1. Separate(Cur) /\ pair \in Pairs(Cur)
      BY <2>3 DEF Cur
    <3>2. PICK m \in 2 .. Len(Plan) :
            /\ Plan[m - 1].do = "write" /\ Plan[m - 1].path = pair[1]
            /\ Plan[m - 1].what = "mrt" /\ Plan[m - 1].of = Plan[m].of
            /\ Plan[m].do = "write" /\ Plan[m].path = pair[2]
      BY <1>1, <3>1, PairFacts DEF Plan
    <3>3. m - 1 \in 1 .. Len(Plan) /\ m \in 1 .. Len(Plan) /\ m - 1 # m
      BY <1>1
    <3>4. IsSeq(Main(Cur))
      BY <1>1, ScriptFacts
    <3>5. pair[1] # pair[2]
      BY <3>1, <3>2, <3>3, <3>4, SeparatePlaces DEF Plan
    <3>6. CASE pair[2] = at
      <4>1. m = j
        BY <1>6, <3>1, <3>2, <3>3, <3>6
      <4>2. m - 1 \in 1 .. Passed
        BY <1>1, <3>3, <4>1
      <4>3. writer[pair[1]] = R /\ disk[pair[1]] = Holds(Plan[m - 1], TRUE)
        BY <1>1, <3>1, <3>2, <4>2 DEF IInv, DoneSoFar
      <4>4. disk'[pair[2]].of = Plan[m].of
        BY <1>1, <1>4, <3>6, <4>1 DEF Holds
      <4>5. Holds(Plan[m - 1], TRUE) = [what |-> "mrt", of |-> Plan[m].of, whole |-> TRUE]
        BY <3>2 DEF Holds
      <4>6. writer'[pair[1]] = R /\ disk'[pair[1]] = disk[pair[1]]
        BY <1>4, <2>1, <3>5, <3>6, <4>3
      <4>7. writer'[pair[1]] >= r
        BY <1>1, <2>3, <4>6
      <4>8. disk'[pair[1]] = [what |-> "mrt", of |-> disk'[pair[2]].of, whole |-> TRUE]
        BY <4>3, <4>4, <4>5, <4>6
      <4>9. QED
        BY <4>7, <4>8
    <3>7. CASE pair[2] # at
      <4>1. writer[pair[2]] = R
        BY <1>4, <2>1, <2>3, <3>7
      <4>2. PICK i \in 1 .. Len(Plan) : IsWrite(i, pair[2]) /\ i <= Passed
        BY <1>2, <1>3, <2>1, <4>1 DEF IInv, OnlyOpened
      <4>3. i = m
        BY <3>1, <3>2, <3>3, <3>4, <4>2, SeparatePlaces DEF Plan, IsWrite
      <4>4. m - 1 # j
        BY <1>1, <4>2, <4>3
      <4>5. pair[1] # at
        BY <1>6, <3>1, <3>2, <3>3, <4>4
      <4>6. QED
        BY <1>4, <2>1, <2>2, <2>3, <3>7, <4>1, <4>5
    <3>8. QED
      BY <3>6, <3>7
  <2>4. CASE r # R
    <3>1. pair[2] # at /\ writer[pair[2]] = r
      BY <1>4, <2>1, <2>4
    <3>2. CASE pair[1] = at
      BY <1>1, <1>4, <2>4, <3>2
    <3>3. CASE pair[1] # at
      BY <1>4, <2>1, <2>2, <3>1, <3>3
    <3>4. QED
      BY <3>2, <3>3
  <2>5. QED
    BY <2>3, <2>4
<1>17. NoCorpusNoFile'
  <2> SUFFICES ASSUME NEW r \in 1 .. R, NEW p \in Files, writer'[p] = r,
                      Refused(log[r].line) \/ Corpus(log[r].line, log[r].line.fatal) \in Unbuildable
               PROVE  FALSE
    BY <1>2, <1>14 DEF NoCorpusNoFile
  <2>1. CASE p = at
    <3>1. log[r].line = Cur
      BY <1>4, <2>1 DEF Cur
    <3>2. ~ Refused(Cur) /\ Corpus(Cur, Cur.fatal) \notin Unbuildable
      BY <1>1 DEF IInv, Launched, Buildable
    <3>3. QED
      BY <3>1, <3>2
  <2>2. CASE p # at
    BY <1>4, <1>14, <2>2 DEF IInv, NoCorpusNoFile
  <2>3. QED
    BY <2>1, <2>2
<1>18. QED
  BY <1>7, <1>8, <1>9, <1>10, <1>11, <1>12, <1>15, <1>16, <1>17 DEF IInv

(* The file is filled.                                                     *)
LEMMA FillKeeps ==
  ASSUME IInv, Fill
  PROVE  IInv'
<1> DEFINE R == Len(log)
           j == Passed + 1
           at == todo[1].path
<1>1. /\ Launched /\ Cur \in CommandLines /\ log[R].end = "running"
      /\ R \in Nat /\ R >= 1
      /\ Head(todo) = todo[1] /\ todo[1] = Plan[j] /\ todo[1].do = "write"
      /\ Len(Plan) \in Nat /\ Passed \in Nat /\ Passed >= 1 /\ j \in 1 .. Len(Plan)
      /\ at \in Files
      /\ todo[1] \in WritesOf(Cur)
      /\ \A w \in BOOLEAN : Holds(todo[1], w) \in Contents
      /\ \A p \in Files : writer[p] \in 0 .. R
  BY AtWrite DEF Fill
<1>2. /\ status = "running" /\ todo # << >> /\ opened /\ opened' = FALSE
      /\ todo' = Tail(todo)
      /\ disk' = [disk EXCEPT ![at] = Holds(todo[1], TRUE)]
      /\ UNCHANGED <<status, log, writer>>
  BY <1>1 DEF Fill, Running
<1>3. disk \in [Files -> Contents] /\ log # << >> /\ DOMAIN log = 1 .. R
  BY <1>1 DEF IInv, Typed, Launched
<1>4. /\ disk'[at] = Holds(todo[1], TRUE)
      /\ \A p \in Files : p # at => disk'[p] = disk[p]
  BY <1>1, <1>2, <1>3
<1>5. writer[at] = R /\ disk[at] = Holds(todo[1], FALSE)
  BY <1>2 DEF IInv, HandIn
<1>6. /\ Cur' = Cur /\ Plan' = Plan /\ Launched' /\ Passed' = Passed + 1
      /\ todo' \in Seq(Steps) /\ OnScript' /\ Ended' /\ Buildable'
  BY <1>1, <1>2, Advances
<1>7. Separate(Cur) => \A i \in 1 .. Len(Plan) : Plan[i].do = "write" /\ Plan[i].path = at => i = j
  BY <1>1, ScriptFacts, SeparatePlaces DEF Plan
<1>8. Typed'
  <2>1. disk' \in [Files -> Contents]
    BY <1>1, <1>2, <1>3
  <2>2. QED
    BY <1>2, <1>6, <2>1 DEF IInv, Typed
<1>9. HandIn'
  BY <1>2 DEF HandIn
<1>10. DoneSoFar'
  <2> SUFFICES ASSUME Separate(Cur), NEW i \in 1 .. j, Plan[i].do = "write"
               PROVE  writer[Plan[i].path] = R /\ disk'[Plan[i].path] = Holds(Plan[i], TRUE)
    BY <1>2, <1>6 DEF DoneSoFar
  <2>1. CASE i = j
    BY <1>1, <1>4, <1>5, <2>1
  <2>2. CASE i # j
    <3>1. i \in 1 .. Passed /\ i \in 1 .. Len(Plan)
      BY <1>1, <2>2
    <3>2. Plan[i].path \in Files /\ Plan[i].path # at
      BY <1>1, <1>7, <2>2, <3>1, ScriptFacts DEF Plan
    <3>3. writer[Plan[i].path] = R /\ disk[Plan[i].path] = Holds(Plan[i], TRUE)
      BY <1>1, <3>1 DEF IInv, DoneSoFar
    <3>4. QED
      BY <1>4, <3>2, <3>3
  <2>3. QED
    BY <2>1, <2>2
<1>11. OnlyOpened'
  <2> SUFFICES ASSUME NEW p \in Files, writer[p] = R
               PROVE  \E i \in 1 .. Len(Plan) : IsWrite(i, p) /\ i <= Passed + 1
    BY <1>2, <1>6 DEF OnlyOpened, IsWrite
  <2>1. PICK i \in 1 .. Len(Plan) : IsWrite(i, p) /\ (i <= Passed \/ i = Passed + 1)
    BY <1>3 DEF IInv, OnlyOpened
  <2>2. i <= Passed + 1
    BY <1>1, <2>1
  <2>3. QED
    BY <2>1, <2>2
<1>12. Authored'
  <2> SUFFICES ASSUME NEW p \in Files, NEW r \in 1 .. R, writer[p] = r
               PROVE  \E job \in WritesOf(log[r].line) :
                        job.path = p /\ \E w \in BOOLEAN : disk'[p] = Holds(job, w)
    BY <1>2 DEF Authored
  <2>1. CASE p = at
    <3>1. todo[1] \in WritesOf(log[r].line)
      BY <1>1, <1>5, <2>1 DEF Cur
    <3>2. \E w \in BOOLEAN : disk'[p] = Holds(todo[1], w)
      BY <1>4, <2>1
    <3>3. QED
      BY <2>1, <3>1, <3>2
  <2>2. CASE p # at
    BY <1>4, <2>2 DEF IInv, Authored
  <2>3. QED
    BY <2>1, <2>2
<1>13. \A r \in 1 .. R : log[r].line \in CommandLines
  <2>1. \A r \in 1 .. R : log[r] \in Entries
    BY ElementOfSeq DEF IInv, Typed
  <2>2. QED
    BY <2>1 DEF Entries
<1>14. DOMAIN log' = 1 .. R
  BY <1>2, <1>3
<1>15. PublishedUntilRewritten'
  <2> SUFFICES ASSUME NEW r \in 1 .. R, log[r].end = "success", log[r].line.parses = "args",
                      Separate(log[r].line), NEW job \in WritesOf(log[r].line)
               PROVE  writer[job.path] >= r /\ (writer[job.path] = r => disk'[job.path] = Holds(job, TRUE))
    BY <1>2, <1>14 DEF PublishedUntilRewritten, Wrote
  <2>1. r # R /\ job.path \in Files
    BY <1>1, <1>13, WriteFacts
  <2>2. writer[job.path] >= r /\ (writer[job.path] = r => disk[job.path] = Holds(job, TRUE))
    BY <1>3 DEF IInv, PublishedUntilRewritten, Wrote
  <2>3. CASE job.path = at
    BY <1>5, <2>1, <2>2, <2>3
  <2>4. CASE job.path # at
    BY <1>4, <2>1, <2>2, <2>4
  <2>5. QED
    BY <2>3, <2>4
<1>16. FileBeforeManifest'
  <2> SUFFICES ASSUME NEW r \in 1 .. R, Separate(log[r].line), NEW pair \in Pairs(log[r].line),
                      writer[pair[2]] = r
               PROVE  /\ writer[pair[1]] >= r
                      /\ writer[pair[1]] = r =>
                           disk'[pair[1]] = [what |-> "mrt", of |-> disk'[pair[2]].of, whole |-> TRUE]
    BY <1>2, <1>14 DEF FileBeforeManifest
  <2>1. pair[1] \in Files /\ pair[2] \in Files
    BY <1>13, PairPaths
  <2>2. /\ writer[pair[1]] >= r
        /\ writer[pair[1]] = r =>
             disk[pair[1]] = [what |-> "mrt", of |-> disk[pair[2]].of, whole |-> TRUE]
    BY <1>3 DEF IInv, FileBeforeManifest
  <2>3. CASE r = R
    <3>1. Separate(Cur) /\ pair \in Pairs(Cur)
      BY <2>3 DEF Cur
    <3>2. PICK m \in 2 .. Len(Plan) :
            /\ Plan[m - 1].do = "write" /\ Plan[m - 1].path = pair[1]
            /\ Plan[m].do = "write" /\ Plan[m].path = pair[2]
      BY <1>1, <3>1, PairFacts DEF Plan
    <3>3. m - 1 \in 1 .. Len(Plan) /\ m \in 1 .. Len(Plan) /\ m - 1 # m
      BY <1>1
    <3>4. PICK i \in 1 .. Len(Plan) : IsWrite(i, pair[2]) /\ (i <= Passed \/ i = Passed + 1)
      BY <1>3, <2>1, <2>3 DEF IInv, OnlyOpened
    <3>5. i = m
      BY <1>1, <3>1, <3>2, <3>3, <3>4, ScriptFacts, SeparatePlaces DEF Plan, IsWrite
    <3>6. m - 1 # j
      BY <1>1, <3>4, <3>5
    <3>7. pair[1] # at
      BY <1>7, <3>1, <3>2, <3>3, <3>6
    <3>8. disk'[pair[2]].of = disk[pair[2]].of
      <4>1. CASE pair[2] = at
        BY <1>4, <1>5, <4>1 DEF Holds
      <4>2. CASE pair[2] # at
        BY <1>4, <2>1, <4>2
      <4>3. QED
        BY <4>1, <4>2
    <3>9. disk'[pair[1]] = disk[pair[1]]
      BY <1>4, <2>1, <3>7
    <3>10. QED
      BY <2>2, <3>8, <3>9
  <2>4. CASE r # R
    <3>1. pair[2] # at
      BY <1>5, <2>4
    <3>2. CASE pair[1] = at
      BY <1>5, <2>2, <2>4, <3>2
    <3>3. CASE pair[1] # at
      BY <1>4, <2>1, <2>2, <3>1, <3>3
    <3>4. QED
      BY <3>2, <3>3
  <2>5. QED
    BY <2>3, <2>4
<1>17. NoCorpusNoFile'
  BY <1>2 DEF IInv, NoCorpusNoFile
<1>18. QED
  BY <1>6, <1>8, <1>9, <1>10, <1>11, <1>12, <1>15, <1>16, <1>17 DEF IInv

LEMMA NextInv == IInv /\ [Next]_vars => IInv'
<1> SUFFICES ASSUME IInv, [Next]_vars
             PROVE  IInv'
  OBVIOUS
<1>1. CASE UNCHANGED vars
  <2>1. UNCHANGED <<status, todo, opened, disk, log, writer>>
    BY <1>1 DEF vars
  <2>2. Cur' = Cur
    BY <2>1 DEF Cur
  <2>3. Plan' = Plan /\ Passed' = Passed /\ (Launched' <=> Launched)
    BY <2>1, <2>2 DEF Plan, Passed, Launched
  <2>4. Typed' /\ Ended' /\ OnScript'
    BY <2>1, <2>3 DEF IInv, Typed, Ended, OnScript
  <2>5. HandIn' /\ DoneSoFar' /\ Buildable'
    BY <2>1, <2>2, <2>3 DEF IInv, HandIn, DoneSoFar, Buildable
  <2>6. OnlyOpened' /\ Authored'
    BY <2>1, <2>3 DEF IInv, OnlyOpened, Authored, IsWrite
  <2>7. PublishedUntilRewritten' /\ FileBeforeManifest' /\ NoCorpusNoFile'
    <3>1. PublishedUntilRewritten'
      BY <2>1 DEF IInv, PublishedUntilRewritten, Wrote
    <3>2. FileBeforeManifest'
      BY <2>1 DEF IInv, FileBeforeManifest
    <3>3. NoCorpusNoFile'
      BY <2>1 DEF IInv, NoCorpusNoFile
    <3>4. QED
      BY <3>1, <3>2, <3>3
  <2>8. QED
    BY <2>4, <2>5, <2>6, <2>7 DEF IInv
<1>2. CASE \E c \in CommandLines : Invoke(c)
  BY <1>2, InvokeKeeps
<1>3. ASSUME status = "running", todo # << >>
      PROVE  Head(todo) = todo[1]
  BY <1>3, AtNextStep
<1>4. CASE Generate
  <2>1. status = "running" /\ todo # << >> /\ Head(todo).do = "generate"
    BY <1>4 DEF Generate, Running
  <2>2. QED
    BY <1>3, <1>4, <2>1, QuietStepKeeps DEF Generate
<1>5. CASE MakeDir
  <2>1. status = "running" /\ todo # << >> /\ Head(todo).do = "mkdir"
    BY <1>5 DEF MakeDir, Running
  <2>2. QED
    BY <1>3, <1>5, <2>1, QuietStepKeeps DEF MakeDir
<1>6. CASE GenerateFails
  BY <1>6, EndsKeeps DEF GenerateFails, Running
<1>7. CASE IoError
  BY <1>7, EndsKeeps DEF IoError, Running
<1>8. CASE Exit
  BY <1>8, EndsKeeps DEF Exit
<1>9. CASE Kill
  BY <1>9, EndsKeeps DEF Kill
<1>10. CASE Open
  BY <1>10, OpenKeeps
<1>11. CASE Fill
  BY <1>11, FillKeeps
<1>12. QED
  BY <1>1, <1>2, <1>4, <1>5, <1>6, <1>7, <1>8, <1>9, <1>10, <1>11 DEF Next, Process

-----------------------------------------------------------------------------
(* The inductive invariant holds.                                          *)
THEOREM SpecInv == Spec => []IInv
<1>1. QED
  BY InitInv, NextInv, PTL DEF Spec

(* The process, its script and the disk stay inside their types.           *)
THEOREM TypeCorrect == Spec => []TypeOK
<1>1. IInv => TypeOK
  <2> SUFFICES ASSUME IInv
               PROVE  TypeOK
    OBVIOUS
  <2>1. log \in Seq(Entries) /\ DOMAIN log = 1 .. Len(log) /\ Len(log) \in Nat
    BY DEF IInv, Typed
  <2>2. writer \in [Files -> 0 .. MaxRuns]
    <3>1. 0 .. Len(log) \subseteq 0 .. MaxRuns
      BY <2>1, MaxRunsAssumption DEF IInv, Typed
    <3>2. QED
      BY <3>1 DEF IInv, Typed
  <2>3. \A r \in DOMAIN log : log[r].end = "running" => status = "running" /\ r = Len(log)
    BY <2>1 DEF IInv, Ended
  <2>4. QED
    BY <2>2, <2>3 DEF IInv, Typed, TypeOK, Endings
<1>2. QED
  BY <1>1, SpecInv, PTL

(* What a successful run wrote stays on the disk, whole, until a later run *)
(* opens the path: for any number of runs, and whatever failed or was      *)
(* killed in between.                                                      *)
THEOREM PublishedStays == Spec => []PublishedUntilRewritten
<1>1. IInv => PublishedUntilRewritten
  BY DEF IInv
<1>2. QED
  BY <1>1, SpecInv, PTL

(* A manifest that has been opened has its file finished before it.        *)
THEOREM ManifestComesLast == Spec => []FileBeforeManifest
<1>1. IInv => FileBeforeManifest
  BY DEF IInv
<1>2. QED
  BY <1>1, SpecInv, PTL

(* A command line that is refused, or whose corpus cannot be generated,    *)
(* leaves every file alone.                                                *)
THEOREM FailsBeforeWriting == Spec => []NoCorpusNoFile
<1>1. IInv => NoCorpusNoFile
  BY DEF IInv
<1>2. QED
  BY <1>1, SpecInv, PTL

(* What a run left in its fatal directory is what it left in its main file *)
(* but for the tail, even when it was killed half way through a file.      *)
THEOREM FatalDirectoryExtendsMain == Spec => []FatalFilesExtendMain
<1>1. IInv => FatalFilesExtendMain
  <2> SUFFICES ASSUME IInv, NEW r \in DOMAIN log,
                      log[r].line.fatalDir # NoFile, writer[log[r].line.out] = r,
                      NEW k \in Range(FatalKinds),
                      writer[FatalMrt[log[r].line.fatalDir][k]] = r,
                      Alone(log[r].line, FatalMrt[log[r].line.fatalDir][k])
               PROVE  disk[FatalMrt[log[r].line.fatalDir][k]].of
                        = [disk[log[r].line.out].of EXCEPT !.tail = k]
    BY DEF FatalFilesExtendMain
  <2> DEFINE c == log[r].line
             f == FatalMrt[c.fatalDir][k]
  <2>1. r \in 1 .. Len(log) /\ c \in CommandLines
    <3>1. r \in 1 .. Len(log) /\ log[r] \in Entries
      BY ElementOfSeq DEF IInv, Typed
    <3>2. QED
      BY <3>1 DEF Entries
  <2>2. c.out \in Files /\ f \in Files
    BY <2>1, CommandAssumption
  <2>3. PICK main \in WritesOf(c) : \E w \in BOOLEAN : disk[c.out] = Holds(main, w)
    BY <2>1, <2>2 DEF IInv, Authored
  <2>4. PICK tail : main.of = Corpus(c, tail)
    BY <2>1, <2>3, WriteFacts
  <2>5. disk[c.out].of = Corpus(c, tail)
    BY <2>3, <2>4 DEF Holds
  <2>6. PICK job \in WritesOf(c) : job.path = f /\ \E w \in BOOLEAN : disk[f] = Holds(job, w)
    BY <2>1, <2>2 DEF IInv, Authored
  <2>7. Write(f, "mrt", Corpus(c, k)) \in WritesOf(c)
    BY <2>1, FatalFacts
  <2> HIDE DEF c, f
  <2>8. Write(f, "mrt", Corpus(c, k)).path = f /\ Write(f, "mrt", Corpus(c, k)).of = Corpus(c, k)
    BY DEF Write
  <2>9. job = Write(f, "mrt", Corpus(c, k))
    BY <2>6, <2>7, <2>8 DEF Alone, c, f
  <2>10. disk[f].of = Corpus(c, k)
    BY <2>6, <2>8, <2>9 DEF Holds
  <2>11. Corpus(c, k) = [Corpus(c, tail) EXCEPT !.tail = k]
    BY DEF Corpus
  <2>12. QED
    BY <2>5, <2>10, <2>11 DEF c, f
<1>2. QED
  BY <1>1, SpecInv, PTL
=============================================================================
