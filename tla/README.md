# Verification of mrtgen

mrtgen generates MRT files (RFC 6396, RFC 8050) with a JSON manifest that says
of every record where it is and what a parser must do with it: load it
(`valid`), skip it (`skip`) or stop at it (`abort`). Parser test suites trust
the manifest, so what matters is that file and manifest are two views of the
same thing, that the class of a record is true of its octets, and that both
survive every configuration, failure and repeated run. Sources are named by
their path in the repository (`generator.rs` is `src/src/generator.rs` of
`PROJECT.json`, and so on).

## The system

| component | state | operations | talks to |
|---|---|---|---|
| MRT framing, `writer.rs` | one `MrtRecord` | `wire_length`, `encoded_len`, `encode_into` | every builder |
| record builders, `records.rs`, `bgp.rs`, `invalid.rs` | none | one function per record or message form | framing |
| corpus builder, `generator.rs` | `bytes`, `entries`, `counts`, `base_timestamp` | `next_timestamp`, `push`, `push_raw`, closing of the manifest | framing, sections |
| generator sections, `generator.rs` `emit_*` | none, but their order decides which peer table is in force | eight sections, switched by `GeneratorConfig` and the profile | corpus builder |
| route compiler, `routes.rs` | as the builder, in a closure of its own | `parse_route`, `generate_from_routes` in two formats | `bgp.rs`, `records.rs`, FlowSpec encoder |
| FlowSpec encoder, `flowspec.rs` | none | `validate_domains`, `encode_nlri` | route compiler |
| manifest, `manifest.rs` | `RecordEntry`, `Counts` | JSON in and out | everything behind the file |
| command line, `main.rs` | the files on disk | argument checks, `write_corpus` for the main pair, then for each fatal kind | generator, route compiler |
| reference reader, `tests/corpus.rs` `walk` | position, record count | one hop per record | the file alone |
| slicer and recovery maker, `tests/parsers/*.py` | the octets and entries kept so far | cut file and manifest to a subcorpus, one record at a time | file pairs |
| Docker harness, `run-docker.sh` | an output directory that persists between runs | generate, slice, build and run four parsers, collect failures | everything |
| parser runners, `runners/*.py`, `*.sh` | the failures so far, the baseline | judge how a parser ended on each file, in two modes | the harness, by their exit code |

There are no threads and no messages. What is hard here is sequence and
correspondence: octets, offsets, sizes, counts and timestamps that are computed
by separate expressions; Length fields that lie on purpose at the end of a file
and must not lie anywhere else; a peer table whose meaning reaches over all
records behind it while sections are switched on and off; casts to `u8`, `u16`
and `u32` whose checks are elsewhere; files that are emptied and filled with no
rename, by processes that can fail or be killed between any two calls, over
what an earlier run left; records that are to be broken in one place and sound
in every other, and details that are written beside the calls they describe. `PROJECT.json` lists these hazards at their lines.

What makes each component correct:

* framing: the Length field and the recorded size are those of the octets;
* builder: the manifest describes the file, the counts describe the manifest,
  record N is stamped `base_timestamp + N`;
* sections: a `valid` RIB entry resolves in the peer table in force, a bad peer
  index does not;
* reader with builder: every record is found, a tail stops the reader and
  nothing else does;
* route compiler: no cast loses anything, nothing panics but a timestamp, one
  record per route, the error reported does not depend on sizes before it;
* command line: a manifest is never ahead of its file, a failed generation
  costs nobody a file, the fatal files are the main file and a tail;
* record builders: a valid record has no defect that a conforming parser could
  find, a damaged one has the defect it is named for and no other, the numbers
  of the details are those on the wire;
* FlowSpec encoder: typed fields cannot express a violation, the operator lists
  on the wire match what the items of the rule match;
* slicer: a slice of a corpus is a corpus;
* harness: what the parsers are given was made in this run, and the exit code
  says what happened;
* runners: strict mode is stricter, a baseline does not outlive what it excuses.

## The modules

| module | models | state and actions |
|---|---|---|
| `MrtFraming` | `writer.rs`, `tail_truncated_header` | none; operators for sizes and Length fields |
| `CorpusBuilder` | `Builder` | `bytes`, `end`, `entries`, `counts` as in the struct; `Push`, `PushRaw`, `Panic` (an overflow check), `CloseManifest` |
| `CorpusWalk` | `walk` over the file of `CorpusBuilder` | `off`, `n`, `verdict`; one action per branch of the loop |
| `RecordStream` | what the two promise a reader (abstract) | a sequence of classes, written, closed, delivered |
| `GeneratorSections` | the `emit_*` functions and `generate_profile` | none; for each configuration the records pushed |
| `GeneratedCorpus` | `CorpusWalk` with the program of `GeneratorSections` | that of `CorpusWalk`; peer tables in force |
| `RouteCompiler` | `parse_route`, `generate_from_routes`, the encoders they call | `phase`, `at`, `blame` and the output; one action per step and per refusal |
| `CliRun` | `main.rs` | `todo` of the process, the `disk`, a log of runs; one action per call that can fail |
| `BgpOctets`, `RecordBuilders` | `bgp.rs`, `types.rs`; `records.rs`, `invalid.rs` | none; messages, attributes and records as sequences of octets |
| `ManifestCases`, `CorpusCases` | the pushes of the `emit_*` functions with reason and details | none; 164 cases, each a record and what its entry says |
| `CaseReader` | a conforming parser, as the comments of `invalid.rs` and the details describe it | `todo` (windows of octets left to read), `seen`, `defects`, `facts`; one action per layout |
| `RouteFields`, `RouteOctets` | the string parsers of `routes.rs` from numbers on; `common_attrs`, the two formats, `route_details` | none; the record and the entry of a route |
| `RouteSizes`, `RouteReader` | | `CaseReader` over the records of a route list, held against `RouteCompiler`'s sizes |
| `FlowSpecNlri` | `flowspec.rs`; `split_nlri` and `first_violation` of `fastnetmon_flowspec_check.py` | `phase`, the components so far, the reader's position; one action per component and per refusal, one per type, prefix and operator read |
| `CorpusSlicer` | `slice-corpus.py`, `make-recovery-corpora.py` | the loop over the records; `Keep`, `Drop`, `MakeRecovery`, `PassOver` |
| `ParserHarness` | `run-docker.sh` | `todo` of the script, the `disk`, `failures`; one action per step, `StepFails` (`set -e`), `Kill`, `Start` of a next run, perhaps of another version |
| `ParserVerdicts` | the four runners | what is left to judge, outcomes, failures in both modes side by side |
| `DataFacts` | | lemmas about sums cut to a width, induction, running sums and flattened lists |
| `CorpusWalkProofs`, `RouteCompilerProofs`, `CliRunProofs`, `CorpusSlicerProofs`, `ParserVerdictsProofs`, `ParserHarnessProofs`, `FlowSpecNlriProofs` | | theorems about the module of that name, `CorpusWalkProofs` also about `GeneratedCorpus` |
| `MC*` | | instances for TLC |

`CorpusWalk` extends `CorpusBuilder` and instantiates `RecordStream`;
`GeneratedCorpus` composes `CorpusWalk` and `GeneratorSections`;
`RouteCompiler` uses `MrtFraming` and states the builder's correspondence about
its own closure through an instance of `CorpusBuilder`. `CliRun` takes a corpus
as a value that its configuration determines, which is what the generator
promises (`generation_is_deterministic` of the test suite).

`CaseReader` is the common end of the two octet models. It reads the records of
`CorpusCases`, which `BgpOctets` and `RecordBuilders` encode, and those of
`RouteOctets`; `RouteReader` also holds each of the latter against the size that
`RouteCompiler` computes for the shape of its route, so the two models of
`routes.rs` cannot drift apart. `CaseReader` is not code of the repository: it is
what the manifest's reasons say of a parser (RFC 6396, 8050, 4271, 4760, 4364,
6793, 7606 and 8955), and its definitions are mapped to the builders and comments
that define the layouts and the defects. `ParserHarness` takes the slicer at what
`CorpusSlicer` shows it does with pairs that do not match, and the exit code of
a runner as free; `ParserVerdicts` has what that exit code means.

How the data is abstracted:

* a body is its size and, in TABLE_DUMP_V2, the number of peers it declares or
  the highest peer index it refers to; a header field keeps its value. In the
  route compiler sizes are exact, octet for octet, from the encoders.
* `U32` is 2^32 in the code and a constant here, at least large enough to hold
  the lengths a run uses. Sums are cut to `U32` where the code casts or wraps,
  and panic where a build with overflow checks does (`checks`).
* a file is the sequence of its pieces; the reader may only look at the piece
  whose header begins at its position. If it were ever out of step it would
  read any Length at all, so nothing depends on luck.
* in `RouteCompiler` the string parsers of `routes.rs` are one verdict,
  `parses`, host bits and FlowSpec value domains are `canonical`; `RouteFields`
  has what is behind them, from the numbers of a string on. Which of several
  errors of one route is reported is left out, which route is not.
* an octet is a number 0..255, a `u32` a pair of `u16`, a `u64` of FlowSpec the
  sequence of its octets. The details of an entry are facts: a name and the
  numbers that go with it.
* a file of the slicer is a sequence of octets known by corpus, record and
  place; one of the harness is whole, partial or absent, and remembers what it
  was made from and in which run. A write that fails leaves any of the
  three, a removal of a directory any part of its files.
* a parser of the runners may end in any way its runner can tell apart.
* tags, descriptions, JSON and wording are left out.
* a section is its records in order. Body sizes there are one per MRT type,
  which the properties of the sections do not read; the properties that do
  depend on sizes are checked and proved for arbitrary ones.

Definitions whose comment says "slip" are faulty variants of the definition
that follows them: each property is checked to fail when one takes its place.

## The runs

| run | instance | shows |
|---|---|---|
| `generated_corpus` | the generator in all 128 switch combinations, standard and stress, 4 tails, with 3 keepalives for the 100000; and every program of up to 2 records out of 12 shapes, with each of the 3 tails or none, bases with room and one that overflows on the third record, both builds | types; manifest and file agree; counts; timestamps; the reader is never out of step and finds every record; refinement of `RecordStream`; the reader ends; the peer indices of all sections but the boundary one mean what their class says |
| `peer_table` | the 128 combinations | **fails**: boundary records name peers of a table with none |
| `section_flags` | the 128 combinations | **fails**: `--no-valid` and `--no-skip` do not decide the classes |
| `route_compiler` | every list of up to 2 of 37 routes, both formats, both builds, first and last base | sizes fit their fields; no unwrap panics; blame; one record per route; manifest and timestamps |
| `route_kinds` | the same | **fails**: kinds repeat within a manifest |
| `case_reader` | the 164 cases of the corpora and 118 records of a list of routes, each read to its end | valid records are sound; damaged ones are damaged as named; details are on the wire; a route's record has the attributes and the size its route asks for |
| `flowspec_nlri` | 3,041 rules: combinations of components of both families, lists of up to 3 items of every operator and width, flags, raw octets of 15 kinds, sizes at every limit | the harness splits what the encoder framed; only raw octets violate; the components come back; lists mean their items |
| `corpus_slicer` | six corpora of up to four records, every option of both programs, matching and mismatched pairs | a slice is a corpus; what a mismatch looks like; recovery corpora |
| `parser_harness` | three runs of two versions that differ in a fatal kind and a skip case, a failure and a kill at every step, known and unknown parsers | main slices match; runners see this run; the exit code tells all; runs end |
| `parser_verdicts` | every runner, two kinds with any recovery corpora and baselines, optional files there or not, every way to end on every file | strict is stricter; baselines do not rot; what exit code 0 is worth, and what a baseline may excuse |
| `default_mode` | the same | **fails**: what fails a run by default are not just crashes and timeouts |
| `cli_run` | two runs out of fourteen command lines, over nine paths | published pairs stay; file before manifest; no file without a corpus; fatal files extend the main one; runs end |

Bounds. Two pushes and a tail in `generated_corpus` give every transition between
shapes (with and without microseconds, bodies of 0, 1 and 12 octets, so that a
body can be as long as a header) and the step from a record to a tail; the
proofs below remove the bound. The sections of the generator are complete;
only the number of keepalives, which carry no peer index, is reduced. In
`route_compiler` every guard and size limit is met from both sides (attribute
values 255/256, attributes 65535/65536, UPDATE 4096/4097, FlowSpec
239/240/4095/4096, AS count 255/256), and two routes are enough for the order
of refusals and for the position of the second record behind the peer table.
In `cli_run` two runs are enough for what one finds of another; three command
lines share every path. In `case_reader` the corpora are complete but for the
two tables of 65535 entries and the repeated KEEPALIVEs; each route differs
from a plain one in a field or two, and every number is on both sides of the
width that its place leaves for it (2^16, 2^32, AS count 255/256, prefix
lengths, marking 63/64, rates). Raw attributes in the list are new to the
record, repeat a field of the route or repeat each other; skip routes have host
bits that are written, host bits that are not, paths of 256 and 300 ASNs, raw
attributes, or nothing wrong with them. In `flowspec_nlri` operands are on both sides
of every width and of every domain, NLRIs on both sides of 240 and 4096, and
lists of three hold a range before, between and behind other items; the sample
values lie below, at and above each operand. In `corpus_slicer` a foreign
manifest is shorter, longer or shifted against the file. `parser_harness`
needs a third run: one version leaves a fatal file, a second takes it up, and
a third meets what a kill of either has left. In `parser_verdicts` files are
judged apart from each other, so one of each mode and two kinds, one baselined
and one not, meet every branch.

Deadlock is not checked: a corpus that is read, a list that is compiled and a
program that has ended have nothing left to do.

Fairness. `generated_corpus`: one thread runs the generator to its end and then the
reader, so a step that is enabled is taken (`WF` of the whole next-state
relation). `cli_run`: a process that was started is scheduled until it ends
(`WF` of the process's own steps), but nobody has to start one and nobody has to
kill one. `parser_harness`: the same for the script (`WF` of `Steps`): each of
its steps is a command that returns, the runners with a timeout of their own for
all parsers but mrtparse, whose reader is taken to return. No other run has a
liveness property.

## What does not hold

* The peer table. `generator.rs:167` calls `corpus_peers` the table "used by
  every TABLE_DUMP_V2 RIB record". `emit_edge_cases` pushes a valid
  PEER_INDEX_TABLE with no peers, and behind it valid RIB records with entries
  of peers 0 and 2. A parser that resolves indices against the last table must
  refuse records the manifest calls valid. What does hold is
  `PeerIndicesMeanTheirClass`: all other sections resolve, whatever is switched.
* The class switches. `--no-valid` leaves the valid records of `emit_combo` and
  `emit_attr_errors`, `--no-skip` their skip-class ones, against
  `main.rs:17-18` and `generator.rs:291-293`.
* Kinds as keys. The README asks users to key assertions on `kind`, which is
  unique in generated corpora but not in those of a route list.
* The default mode. `README.md:426-427` and `run-docker.sh:28-29` say that what
  a parser does with malformed records fails no run by default unless it times
  out or crashes, and `bgpdump_check.sh:9-12` that, but for a known assertion,
  crashes do fail. The loops over the recovery corpora go by the baseline. By
  default a run also fails when a parser stops at the damaged record of a kind
  that the baseline does not list, or gets past one that it lists
  (`bgpdump_check.sh:110-118`, `bgpkit_parser_check.sh:80`,
  `mrtparse_check.py:105`), and any crash on a listed kind passes, whatever its
  message (`bgpdump_check.sh:113`). `OnlyCrashesFailByDefault` fails for each of
  these; the trace shows the first. `PassesAreEarned` says what does hold: by
  default damage is excused only by a baseline entry that names its kind and
  covers its outcome, in strict mode by none, and no baseline excuses a crash on
  a corpus or a tail.

Seen on the way. These follow from the models, or from reading the code for
them, and have no run of their own:

* `generator.rs:1307-1308` says of the attribute errors "a single path attribute
  breaks a per-attribute rule". The UPDATEs of `bgp4mp_zero_len_attr`
  (`invalid.rs:255`) and `bgp4mp_wrong_attr_size` also lack mandatory
  attributes, which `DamageIsAsNamed` has to allow (`Missing`).
* `manifest.rs:22` says of a `valid` record that it "is well-formed and must be
  fully parsed". The raw attributes of a route are appended unchecked
  (`routes.rs:626`), `README.md:141` allows them to duplicate a code, and the
  class stays `valid` unless the route says otherwise: a raw second ORIGIN makes
  a record that RFC 7606 calls malformed. The routes of `case_reader` include
  such ones. `ValidIsSound` is restricted to routes whose raw attributes are
  optional, of a code that is not assigned and the only ones of their code
  (`OnlyForeignRaw`), and `AttributesAreTheRoutes` says that a reader meets a
  duplicate exactly when a raw attribute repeats a code.
* `README.md:217-220` has skip routes "intentionally emit" the encodings that are
  refused in valid routes, host bits among them, and `README.md:270` calls skip
  records "intentionally broken". 192.0.2.1/24 marked skip is written as the
  sound 192.0.2.0/24, because octets behind the prefix are not written
  (`PrefixOctets`). So `DamageIsAsNamed` says of a skip route that it is broken
  if it has host bits in the last octet that is written, a path of 256 ASNs or a
  repeated attribute (`MustBeBroken`), and by nothing but such bits, a path that
  is too long or a raw attribute (`MayBeBroken`). Routes on either side are in
  the list.
* `generator.rs:1313` and the reason `as_path_segment_underrun` claim a case that
  RFC 7606 defines by a single octet left behind the last segment
  (`docs/rfc7606.txt:611`). The case leaves two, which a parser must read as the
  header of another segment, of the unknown type 0, and `DamageIsAsNamed` has it
  so (`Symptoms`).
* `DetailsAreOnTheWire` leaves out routes with a raw MP_REACH_NLRI or
  MP_UNREACH_NLRI, whose own octets a reader would follow.
* A rate of -0.0 is accepted as not negative, and written with its sign bit.
* `README.md:434` says of the harness that it "runs every selected parser even
  if one fails". An unknown parser name ends it with exit code 2 in the middle of
  the list, and the failures so far are not printed (`UnknownParser`).
* A file of another version in `fatal/` without a manifest that can be read
  stops every later run of the harness before its parsers (`Readable`).
* A panic of bgpkit-parser is exit code 101, which its runner takes for an error
  and not for a crash.
* `--fatal` together with `--fatal-dir` writes a main file with a tail, and
  fatal files that do not have that tail, against the usage text's "the same
  records as the main file plus the fatal tail" (`FatalFilesExtendMain` is
  stated for a main file without one).

## What is proved

`CorpusWalkProofs` proves, for every set of configurations, every program that
satisfies `ProgramAssumption`, every base timestamp and every `U32` above 4096:

* `TypeCorrect`, `ManifestDescribesFile`, `CountsAreRight`,
  `TimestampsAreRight`, `ReaderInStep`, `ReaderFindsEveryRecord`: the six
  invariants of `generated_corpus` that hold of every program;
* `ImplementsRecordStream`: `Spec => StreamPromise`, every step of builder and
  reader is a step of `RecordStream` or leaves it as it is.

The assumptions: a raw push is the last of a program, is abort-class, and its
octets cannot be read past (`Unreadable`); every other record has no Length
override and is not abort-class, and its size fits a `u32` (`Honest`). The
generator's program satisfies them: TLC evaluates `ProgramAssumption` on it in
`generated_corpus`.

The argument. None of the invariants is inductive alone: that the reader finds
every record rests on its standing on a boundary, which rests on the manifest's
offsets being the positions of the pieces, which rests on the end of the file.
`IInv` is the conjunction of `BuilderInv` (types; the manifest matches the file;
piece i was made from record i of the program and, unless it is a tail, its
Length spans it exactly; a file that has been closed has all of the program) and
`WalkInv` (the reader stands on the boundary its count says, and what each
verdict means), with the counts and the timestamps. Each theorem is then `Init`,
one step per action, and the conclusion. Timestamps need the fact that a sum cut
to `U32` twice is the sum cut once, which `DataFacts` derives from
`x = k * U32 + r`; the position arguments need only that the pieces lie end to
end (their ends increase). The refinement uses the same invariant: a reader that
meets a piece of a header, or a Length past the end, is at the last record and
that record is abort-class.

`PeerIndicesAreRight` (`PeerIndicesMeanTheirClass`, the invariant of
`generated_corpus` about the generator's own program) holds for every set of
configurations that it is run with. `GeneratedAssumption` says that their
programs are those of `generate_profile`; TLC evaluates it in `generated_corpus`,
whose other configurations are the short programs. The program is not
computed. What is proved of each section is what a parser that keeps the last
peer table can tell: whether it brings a table, and whether its records resolve
against a table of the size of `corpus_peers` (`Resolving`), or only the bad
index does not (`NotAstray`). The historic sections begin with the table of
`emit_valid` and have no other, so everything behind it in them resolves
(`HistoricMeans`); the boundary cases leave a table without peers, but have no
bad index of their own (`BoundaryMeans`); `emit_stress` brings a table before it
refers to one (`StressMeans`); the combinations and the tails do not refer to
peers. A record of a finished file belongs to a section by its position, so the
table in force there is that of the section (`LastTableInForce`) or there is
none (`NoTableInForce`). The invariant above gives the rest: record i of the file
was made from record i of the program, with its contents and its class.

`RouteCompilerProofs` proves, for every set of lists of routes, both
formats, both builds and every base timestamp, `U32` being any number above 4096:

* `TypeCorrect`, `ManifestDescribesFile`, `OnlyTheTimestampPanics`
  (`NoUnwrapPanic`), `CastsLoseNothing` (`NoLossyCast`), `ErrorNamesTheFirst`
  (`BlameIsDetermined`) and `FileFollowsList` (`OneRecordPerRoute`): the six
  invariants of `route_compiler`;
* `WritesARecordStream`: the compiler implements the writing half of
  `RecordStream`, the abstract specification of the other corpora. A step writes
  one record, closes the stream or leaves it as it is; no record is damaged, and
  none comes after the end. Nobody has read anything yet, so its reader is the
  constant one.

The inductive invariant adds to them what the loop has already established. While
parsing, the routes before `at` are accepted and nothing is written (`Screened`);
while encoding, all routes are accepted, none before `at` has been refused for
its size (`Cleared`), and `at`, the entries and the peer table in front of them
are in step, each entry being that of its route (`InStep`). The
order of the refusals is what makes `BlameIsDetermined` true: a later route may
be refused only when no earlier one could be. `NoLossyCast` needs that the size
checked, a sum over a route's attributes, is at least each of its summands. That
is induction over data. It is stated about sets: a set of naturals that has 0 and
each successor is `Nat` (`SetInduction` of `DataFacts`, from the least
element of its complement), and a running sum is a function with a recurrence
(`IsSumOf`), of which `SumBounds` is proved.

`CliRunProofs` proves, for every set of command lines, every corpus and fatal
file they stand for, every set of paths and any bound on the number of runs, with
steps failing and processes being killed anywhere:

* `TypeCorrect`, `PublishedStays` (`PublishedUntilRewritten`),
  `ManifestComesLast` (`FileBeforeManifest`), `FailsBeforeWriting`
  (`NoCorpusNoFile`) and `FatalDirectoryExtendsMain` (`FatalFilesExtendMain`):
  the invariants of `cli_run`.

What one finds on the disk says nothing of how it came about, so the invariant
keeps the history: the work left is the end of the script of the last run's
command (`OnScript`), the steps before it are in the record of the run
(`DoneSoFar`), the file at hand is open and was opened by this run (`HandIn`,
`OnlyOpened`), and every file has the content that the script of its author
gives to that path (`Authored`). The rest is about scripts: a manifest's steps
stand behind those of its file, and different places of a script write different
paths (`SeparatePlaces`, from `SeparateLines`).

The only assumption is that paths are paths. Two of the properties are about
command lines that do not write over themselves, and the attempts to prove them
showed what that has to mean. `Separate` asks that different writes of a command
line have different paths, and not only writes of different content:
`-o d/huge_length.mrt --fatal huge_length --fatal-dir d` writes one path twice,
and a run that fails in the second write leaves the manifest beside an emptied file. And
`FatalFilesExtendMain` is about fatal files that nothing else of the command line
is named like (`Alone`): with `-m` naming one of them a killed run can leave the
main manifest there. `main.rs` checks neither.

`CorpusSlicerProofs` proves, for every set of corpora and every selection:

* `SlicesAreCorpora` (`SliceIsACorpus`), `SizesShowMismatches`
  (`MismatchShowsInSizes`) and `RecoveriesAreCorpora`
  (`RecoveryIsDamagedThenSentinel`): the invariants of `corpus_slicer`;
* `SlicesAreInputs`: a slice is again what `CorporaAssumption` asks of an input.

The assumption is what the other modules show of the generator: a manifest
describes its file, no record is without octets, and an abort-class record is
the last. Nothing is assumed of file and manifest together when they do not
belong to each other. The invariant says of each record that was picked which
entry of the slice it became, namely the `Place` that counts the picked records
up to it (`InOrder`), and that the entry has the octets that were really there
(`Copied`), which with a foreign manifest are fewer than its size says. The end
of an entry is therefore where the next one begins or the file ends (`KeptEnd`),
not what its size adds up to; that the two are the same is the theorem. That
every entry of a corpus ends inside its file, which the properties need of the
matching pairs, follows from the last one by induction downwards
(`SetInduction`).

`ParserVerdictsProofs` proves, for any finite sets of kinds, tails, cut tails
and rules, any recovery corpora and baselines, and parsers that end in any way:

* `StrictFailsMore` (`StrictIsStricter`), `BaselinesStayTrue`
  (`BaselinesDoNotRot`) and `ZeroIsWorthIt` (`PassesAreEarned`): the invariants
  of `parser_verdicts`.

The only assumption is that directories are finite. Which of the files that the
runners look for are there is left open: mrtparse does without `routes-td2.mrt`,
bgpdump without `bgpdump-corpus.mrt`, and without a first manifest fastnetmon has
no rule to judge, which fails its run. In the invariant a failure
stays a failure even if the same job were judged again (`FailuresAreKept`), so
nothing rests on the jobs being different; the entries seen to hold are entries
of the baseline whose corpus was not recovered from (`SeenIsKnown`), in strict
mode none (`StrictKnowsNothing`); and the baseline itself is either still to be
judged or was covered by them (`BaselineIsJudged`).

`ParserHarnessProofs` proves, for any versions of the generator, route lists
and selections of parsers, any number of runs, and failures and kills anywhere:

* `SlicesAreOfThisRun` (`MainSlicesMatch`), `ParsersSeeThisRun`
  (`RunnersSeeThisRun`) and `ExitCodesAreTrue` (`ExitCodeTellsAll`): the
  invariants of `parser_harness`.

The assumptions: the directories are finite, the route lists are not named like
a slice, a directory or the corpus, and the parsers asked for are a list that is
not empty. The disk at the start of a run is whatever its predecessors have left,
so nothing can be said of a path until this run has written it. The invariant
therefore says of each thing to do that its step is still among the steps left
or that it has been done: `ProducedOnce` for what the generator writes, `CutOnce`
for the slices of the main pair, `EmptiedOnce` for the recovery corpora,
`FatalsOnce` for the fatal slices, `ParsersOnce` for the parsers. With that the
order of the script counts (`Ordered`): the generator comes before what is cut,
the recovery directory is emptied before it is filled, the parsers come last, and
the build of a parser is followed by its run (`Paired`). A glob is a step that
becomes steps, so the order must hold of whatever the directory has made of it.
What flattening a set of lists contains is again induction over data, by
`SetInduction`.

`FlowSpecNlriProofs` proves, for every set of rules that satisfies
`RulesAssumption`, with operator lists of any length and raw octets of any kind:

* `SplittingUndoesFraming` (`SplitUndoesFraming`), `OnlyRawIsAtFault`
  (`OnlyRawViolates`), `RuleIsRecovered` (`ComponentsAreRecovered`) and
  `ListsAreRead` (`ListsMeanTheirItems`): the four invariants of
  `flowspec_nlri`.

The assumption is the shape of what the TOML reader hands over: a prefix as
`parse_prefix` returns it, lists that are not empty, values that are a `u64`
without leading zeros. Which operators an item has, whether the flags are known,
whether the family fits and whether the values are in range is left to the
rules, and refused by the encoder or not.

The argument. What makes octets well-formed cannot be said of an octet by
itself: whether 129 is a type, a length or an operator depends on all octets
before it. So the invariant is about a `Plan` of the octets, a function that
says of every place what a reader expects there ("type", "prefix", "operators",
or "inside" where it never stops), such that what it says of one place leads
to the next (`Planned`) and the types on the way ascend (`Ascending`).
`OperationShape` is the one place where numbers count: the operator octet of an
operation says how long the operation is, and has its end bit exactly if it is
the last. From it a list has a plan (`ListLaidOut`, by induction over its
operations), a component has one, and a plan can be continued by a component of
a higher type (`PlanGrows`). The encoder goes through the types in order, so
in every state the components have a plan, with the types of the rule passed so
far (`Laid`); raw octets come behind it and have none (`PlanStays`). A reader
that has not passed the place where they begin stands where the plan says
(`Follows`), has no objection there (`IntactInFront`), and gets to that place
exactly. `SplitIsInverse` is arithmetic, for the lengths below and above 240.

`ListsAreRead` says what a reader makes of a list: a number (or the bits of a
packet) satisfies the operators on the wire exactly if it satisfies one of the
items of the rule. The values tried are any set of field values
(`SamplesAssumption`). Three facts carry it. Every type passed without refusal
is encodable and its component stands somewhere in the plan (`Keeps`, `Located`).
The reader that starts behind its type finds exactly the operators written
(`FoundIsWritten`), although it only knows where an operation ends from its
length bits and where the list ends from the end bit. And the operators
mean the items: in a numeric list a range is one run of two operators bound by
the and bit and any other item a run of one, so the runs are the items
(`NumericListMeans`); in a bitmask list every operator is a run
(`BitmaskListMeans`), and the octet a set of flag names stands for has exactly
their bits.

The proof showed that the model had to say more of a rule: it had left open what
the parts of a rule are, so that a bitmask item could have had a value of no
octets.

Only model-checked:

* liveness (`WalkEnds`, both `RunsEnd`), which the prover does not reach;
* `CaseReader` and `RouteReader`: they run over a fixed set of records, so the
  runs are complete for the corpora and a theorem would add nothing but a second
  computation of it.

## Not modelled, and the plan

Not modelled: the two stress tables of 65535 entries and the 99,999 other
KEEPALIVEs, octet by octet (`GeneratorSections` has them as records); an
interface index other than 1; `attr_aggregator_2b` and
`bgp_update_declared_attr_len`, which no corpus uses; how `routes.rs` splits its
strings (`RouteFields` begins at the numbers); the argument parsing of
`run-docker.sh` but for the unknown parser; the comparison of fields in
`routes_mrtparse_check.py`, one outcome in `ParserVerdicts`; the FastNetMon
shim, one call into a third-party decoder whose possible answers are the
outcomes of a rule in `ParserVerdicts`.

Left out for good: JSON, the wording of messages, the Docker images and the
third-party parsers.
