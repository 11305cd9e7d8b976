# KAVACH in TLA+

A verification project for KAVACH, the closed-loop vulnerability defence system
of this repository. It holds TLA+ modules translated from the Python source,
TLC configurations that check them on small instances, and theorems checked by
TLAPS. Paths below are relative to the repository root.

## 1. The system

KAVACH finds weaknesses in source code, synthesizes small patches, stops the
sensitive ones for a human, verifies a patch by building and running a harness
of the target, rolls back what fails, and records every decision in a
hash-chained ledger.

| component | state it keeps | operations | interacts with |
|---|---|---|---|
| Audit ledger (`kavach/ledger/audit_ledger.py`) | the SQLite table `audit_log`; one connection per instance | `record` (a SELECT, then an INSERT with its commit), `verify_chain`, `all_records` | called by the orchestrator and by `/api/analyze`; read by `/api/ledger` and `kavach ledger` |
| Triple-Lock verifier (`kavach/sandbox/verifier.py`, `tests/test_regression_*.py`) | none of its own; the binary at `BIN_PATH`, one file per target | `verify`: exploit replay (ASan build and run), regression suite (plain build and run), third build | reads the source the orchestrator has patched; called once per attempt |
| Orchestrator (`kavach/agents/orchestrator.py`) | the locals of `run()`: attempt, patch, backups, state | `run`: synthesize, gate, apply, patch the header, verify, certify or roll back, record, retry | patch agent, review gate, patcher, verifier, ledger |
| Patcher (`kavach/sandbox/patcher.py`) | the source and header on disk, the backups | `apply`, `apply_raw`, `rollback`, `sha256_of` | called by the orchestrator |
| Review gate (`kavach/agents/review_gate.py`) | none | `evaluate`: four criteria | orchestrator, `/api/analyze` |
| Patch agent (`kavach/agents/patch_agent.py`) | none | `synthesize`, `apply_all`, `companion_header_patch` | orchestrator, `/api/analyze`, LLM client |
| Operator API and dashboard (`backend/app/main.py`, `frontend/app.js`) | in the page: selected files, approved keys, the last answer | `run`, `fuzz`, `analyze`, `ledger` | a thread of its own for each `run`, `fuzz` or `ledger` request |
| Fuzzer (`kavach/fuzzing/fuzzer.py`, with `_ensure_fuzz_binary` of `cli.py`) | the crash directory, the cached ASan binary, the crashes of a session | `run`, `fuzz_and_triage` | crash analyzer; `kavach fuzz` and `/api/fuzz` hand its crashes to the orchestrator |
| Crash analyzer (`kavach/analyzers/crash_analyzer.py`) | none | `parse`, `to_finding` | fuzzer |
| Triage agent | none | `correlate` | called by nothing |
| Static analyzer, languages, config, models, LLM client | none | pure functions and records, an HTTP client | everything |
| C benchmarks (`src/*.c`, `fuzz/harness/`) | none | what is patched and fuzzed | verifier, fuzzer |

What is hard here:

- *Interleaving.* FastAPI runs `/api/run`, `/api/fuzz` and `/api/ledger` on
  threads, and nothing takes a lock: the source, its header, `BIN_PATH` and the
  last row of the ledger are shared by all runs of one target.
- *Two steps that should be one.* `record` reads the last hash and inserts in
  two transactions; `apply` copies, then writes; the patch is in place before
  the record that justifies it.
- *Partial failure.* Nothing in `run()` catches an exception. The verifier
  catches those of its first two locks and not of the third.
- *Retries.* A rejected attempt must restore the source and the header, leave
  its record and count.
- *Judging the right thing.* A verdict is about a binary; the promise is about
  the source on disk.
- *Stale approvals.* The page sends approvals as names of findings, with nothing
  of the text they were given for, and the operator may change the text, the
  files and the approvals between two requests and during one.
- *Fixes that meet.* `apply_all` folds fixes into one file by line numbers taken
  before the first of them; a heuristic edits places of its own choice.
- *A cache that is never refreshed.* The fuzz binary is built if there is no file
  of its name, from whatever the source is then; a session fuzzes that file
  however the source has changed since, also while another session links it.
- *Sessions that meet.* Two fuzzing sessions share the binary, the crash
  directory (files named by iteration) and everything their runs share.
- *Lines.* A diff travels as one text and is split into lines again; difflib, the
  joined text and `readlines()` do not agree on where a line ends.
- *Widths.* A declared length of 16 bits, a buffer of 256 bytes in a structure of
  264, products of two ints that wrap.

`PROJECT.json` lists the hazards at their lines, with the properties that cover
each, and those that no property covers yet.

### What makes each part correct

- Ledger: a negative verdict has a cause and a positive one means what readers
  take it to mean; with one writer it is a tamper-evident log.
- Verifier: CERTIFIED only if a source on disk meanwhile is clean, no refusal
  while every source there is sound; unless another overlaps it, it judges
  binaries of sources it found there.
- Analysis page: a gated fix is in the corrected file only if it was approved,
  and approved only after it was shown; the corrected file is the text with the
  included fixes and nothing else; a diff shown is the change it stands for.
- Fuzzing: a session deals with every crash it found, in order and once; it
  changes the source only if it was approved; it loses an input, a binary or a
  report only for a stated reason; it ends.
- Benchmarks: what the locks certify is right for every input and not for the one
  they replay.
- Closed loop: the source in effect changes only to a proven one, each decision
  is logged once and in order, a gated finding is never applied unforced, every
  run ends.

## 2. Modules

| module | models | state | actions |
|---|---|---|---|
| `AuditLedger` | `audit_ledger.py` | `rows` (the table), `call` (the `record()` each connection is in) | `Call`, `Select` (line 55), `Insert` (58-78), `Raise`, `Return`; `VerifyChain` and `AllRecords` as operators |
| `TamperEvidentLog` | the promise of the module docstring | `log`, `stored`, `verdict` | `Record`, `Edit` |
| `LedgerView` | the ledger with its writers, readers and retroactive edits | adds `written` (history) and `view` | `Request`, `SelectLast`, `InsertRow`, `Leave`, `EditPayload`, `EditColumns`, `List`, `Answer`, `Refresh` |
| `TripleLock` | `verifier.py` with a regression module | `bin` (`BIN_PATH`), `lock` (each verifier's place and result) | `Load`, `LoadFails`, `Compile`, `Link`, `Run`, `RunBusy`, `Fault`, `Take` |
| `Verification` | the verifier on a source that others rewrite at any time | adds `tree`, and `alone` and `disk` (history) | `Rewrite`, `Verify` |
| `Orchestrator` | `Orchestrator.run`, composing `TripleLock` and `AuditLedger` by INSTANCE, with the patcher's file operations | `tree`, `run`, and the variables of both | `Start`, `Synthesize`, `Backup`, `Write`, `PatchHeader`, `Verify`, `VerifyFails`, `Verdict`, `Certify`, `RollBack`, `RollBackHeader`, `Record`, `Recorded`; `Die`, `ApplyRaises`, `ThirdLockRaises`, `RecordRaises` |
| `CertifiedSource` | the promise of the closed loop | `released`, `log` | `Release`, `Refuse` |
| `ClosedLoop` | how runs are scheduled, and the properties | | `Next` (the backend: runs overlap), `CrashNext` (one run at a time, as on the command line, with kills and exceptions) |
| `PacketParser` | `packet_parser.c` and `Fuzzer._mutate` | none | operators: `Copied`, `Reported`; `Mutations`, the union of one set for each mutation |
| `CrashAnalysis` | `crash_analyzer.py` | none | operators: `Parse`, `ToFinding` |
| `Fuzzing` | `kavach fuzz` and `POST /api/fuzz`: `Fuzzer.run`, `_ensure_fuzz_binary`, and each crash handed to a run; EXTENDS `Orchestrator` | `session` (place and locals of each), `exe` (`packet_parser_asan`), `crashDir`, `seeds` | `Open`, `CheckExe`, `CompileExe`, `LinkStarts`, `LinkEnds`, `LinkCut`, `Survives`, `Crashes`, `ExecRaises`, `Ends`, `HandOver`, `Outcome`, `RunStep`, `RunFails` |
| `FrameAlloc` | `frame_alloc.c`, its heuristic's patch and the generic template for CWE-190 | none | operators: `Unguarded`, `Guarded`, `Generic` |
| `CertifiedFrames` | `frame_alloc.c` before the verifier: what the harness replays and what is certified; EXTENDS `Verification` and `FrameAlloc` | that of `Verification` | operators: `Allocated`, `Whole`, `Replay` |
| `PatchAgent` | `analyze_source`, `evaluate` and the templates of `patch_agent.py` on texts | none | operators: `Findings`, `RequiresReview`, `Templates` (`Heuristic` before `Generic`), `ApplyAll`; `Merged` and `Body` are references |
| `UnifiedDiff` | `difflib.unified_diff` (external) and `Patcher._apply_unified_diff` | none | operators: `Script`, `Unified` (a script's hunks), `Diff`; `Resplit` (joined and split again), `Ends` (of `readlines()`), `ApplyDiff`; `Unmistakable` is a reference |
| `Approval` | `app.js` lines 202-379 with `POST /api/analyze` | `files`, `box`, `locked`, `keys`, `shown` (the page), `flight` (the request), `log` and `steady` (history) | `Type`, `Choose`, `Click`, `Tick`, `Serve`, `Fail` |
| `LedgerViewProofs`, `VerificationProofs`, `OrchestratorProofs`, `ClosedLoopProofs`, `FuzzingProofs`, `UnifiedDiffProofs`, `ApprovalProofs`, `CertifiedFramesProofs` | theorems about the module of that name; `ClosedLoopProofs` and `FuzzingProofs` rest on the lemmas of `OrchestratorProofs`, `FuzzingProofs` on those of `ClosedLoopProofs` too, `ApprovalProofs` on those of `UnifiedDiffProofs` | | |
| `MC*` | the small instances | | |

`Fuzzing` is the widest composition: a session's `HandOver` begins a run of
`Orchestrator`, whose verifier and ledger calls are those of `TripleLock` and
`AuditLedger`, and `Outcome` takes up what it returned.

Every variable is an attribute, a file, a table or the locals of a call;
`written`, `alone`, `disk`, `steady` and the field `ran` are history that no guard
reads. One action stands for the code between two accesses to something shared.
Operators whose comment says "mutant" or "mutated form" are not part of any specification: each is a
plausible bug of the definition that follows it, and shows that a property
would notice.

### Correspondences worth knowing

- *Hashes.* `Hash(prev, payload)` is `prev` with `payload` appended: equal
  exactly when everything hashed into it is, that is, SHA-256 without
  collisions. Two records may carry the same text in the model, although the
  random ids of `AuditRecord` make real ones differ: the model has more
  behaviours.
- *Columns.* `shown` stands for the columns `record_id` to `recorded_at`, which
  repeat the payload for readers and are not hashed.
- *gcc and the harness* are constants: which trees build with and without ASan,
  which run clean, and whether the plain harness can exit 0 (undefined
  behaviour: either). `MCVerification` has one tree for each way a source can
  be treated. A failed ASan build is `(False, stderr)`, which `verify()` reads
  as "did not crash": `Rejected` opens lock 1.
- *The linker* replaces `BIN_PATH` after the compiler has read the source:
  `Compile` and `Link` are two actions. While one verifier links, another's
  `exec` may fail (`RunBusy`), which the verifier catches.
- *Rewrites under a verifier.* `apply` and `rollback` take no lock, so `Rewrite`
  of `Verification` is enabled whatever the verifiers are at: one verification may
  build three different sources. `disk` holds those that were there since a
  verifier last started alone, which is as much as a verdict can be about, and
  the properties speak of them. What becomes of the row is the closed loop's
  (`loop_certified`); on the command line nobody else writes, and `loop_crash`
  shows each certified row to name a proven source.
- *The patch agent* is the constant `Suggest`: the heuristic of a benchmark
  offers one patch and none on a source that has it; a language model offers
  anything, or nothing. `NoPatch` stands for an empty diff and one over the
  budget alike: `run()` abandons both.
- *A diff on another source.* `_apply_unified_diff` does not compare context
  lines. On a source other than its own the model lets it yield any of
  `Misapplied`, or raise `IndexError`.
- *Cut short.* A write truncates and then fills; `Die` during one may leave
  `Torn` in the file.
- *The gate* reads a finding's four criteria; in `Orchestrator` a finding
  carries their outcomes, in `PatchAgent` its rule does for CWE, severity,
  description and language, and function and file name are looked up.
- *Texts* are sequences of opaque lines. `Rules`, `Opens`, `Fixes` and
  `Heuristics` say which lines a regular expression matches and what a template
  puts in their place. `MCApproval` has the shapes of the real ones: a fix that
  makes one line two or three or keeps their number, one that is not made twice,
  a heuristic that shortens the function it knows and its call, one that
  lengthens the file above a finding.
- *The language model* may offer a patch for any of the findings that have no
  template (`Modelled`); `apply_all` does not ask it, so such a finding is
  recorded as included and its patch is in no corrected file.
- *Keys* are joined with commas and split there: what is sent of a key is what
  follows the last comma of its file name (`AfterCommas`; the parts before it
  match no finding), so that the box of such a file is shown cleared although
  its key is held. Two files of one name share their keys and the later one's
  result replaces the earlier one's (`ByName`).
- *A request* is served in one step: `analyze_upload` awaits only the reading of
  its uploads, and what the operator does meanwhile touches the page alone.
  `Fail` is every other end: lost, refused, answered too late, or stopped by an
  exception of `ledger.record()` after any number of records.
- *Diffs* hold their lines with the first character apart, and a hunk holds the
  number of its first old line. difflib's own choice among shortest edit scripts
  is one of several; TLC checks `DiffsApply` for the one computed here, and
  `ReplayGivesNew` proves it of any script that turns the old text into the new,
  difflib's own included.
- *Line endings.* A line is what `splitlines()` makes, with its ending. The last
  line of a text may have none (`Unended`), and the page sends every pasted text
  trimmed (`app.js:246`), so that it has none; files keep what they have.
  `synthesize` joins the diff to one text and the patcher splits that again:
  a diff line without ending becomes one with the line after it (`Resplit`), so
  that the line meant to replace it is lost. The patcher takes the original
  with `readlines()`, for which a line that ends in a form feed or U+2028 goes on
  (`Paged`, `Ends`): the numbers of the diff are then too high, lines are
  copied twice or an `IndexError` is raised. `Unmistakable` excludes these
  and lines that read as headers. All endings but these are the same one:
  carriage returns are not told apart.

- *A frame* is its size and its first two bytes, the declared length. A mutation
  of a byte behind them is `Unchanged`. The seeds of the repository hold one byte
  each (`fuzz/seeds`), from which no single mutation reaches the overflow: a
  report needs a seed of 251 bytes or more (`LongEnough`). `MCFuzzing` therefore
  has a second seed directory with such a frame. A declared length of 257 to 264
  overwrites `payload_len` inside the structure and is not reported.
- *The fuzz binary* (`exe`) is `whole` or not, built `of` a tree `by` a session;
  the linker creates the file and fills it later, so `os.path.exists` may be true
  of a file nobody can execute.
- *A crash* is reported by ASan or is a signal without a report (`Kinds`). The
  model lets a signal happen at any input, as the code looks only at the return
  code; a report needs a seed from which the binary's source can be driven to it
  (`Reporting`).
- *Crash files* are named by iteration; `crashDir` says whose input each holds.
- *Integers of `frame_alloc.c`* wrap at `IntRange` and `SizeRange`, which the
  proofs leave open. The harness allocates one frame, `Samples` times
  `SampleSize` (65536 and 65537 in the code); ASan reports a tree exactly if the
  bytes written to that frame leave the buffer (`HarnessAssumption`).

## 3. Runs

| run | specification and bounds | shows |
|---|---|---|
| `ledger_concurrent` | `Spec` of `LedgerView`; 2 writers, 1 reader, 2 payloads, no call starts at 3 rows | `VerdictExplained`: a negative verdict means an edited payload or two records chained to one row, and nothing else; `GreenListIsOneChain`: a listing shown as intact is one chain of what was recorded although it and its verdict are two SELECTs; `TamperEvident`: up to the first fork the ledger implements `TamperEvidentLog` |
| `ledger_race` | the same, at 2 rows | finding: overlapping writers fork the chain, and `verify_chain()` calls an untouched table tampered |
| `verification` | 2 verifiers, 7 trees, any stale binary at first, sources rewritten at any time, up to `MaxOnDisk` = 3 of them until the verifiers are idle again; ints of 8 bits, sizes of 9 | though verifiers overlap each other and the patches: certified only if a source there meanwhile builds plainly and one is clean if it builds with ASan (`CertifiedIsClean`); not refused while all are sound (`SoundSourceIsNotShut`). A verification no other overlapped judges binaries of sources it found there, and certifies only if the plain harness of one can pass (`JudgedItsOwnBinary`, `CertifiedIsProven`). While only `frame_alloc()` is patched, a certified one was on disk in a form that gives every caller the bytes asked for, or nothing (`CertifiedFramesAreWhole`) |
| `verification_asanless` | the same | finding: certified without a replay when the ASan build fails |
| `loop_crash` | `CrashSpec`; 2 runs of 2 attempts, patches of a language model, auth_session's header, kills and exceptions anywhere | certified rows name proven sources, the chain holds, only a run that dies leaves a source that no row accounts for, and until one dies the loop implements `CertifiedSource` (`SourceStaysProven`) |
| `loop_overlap` | `Spec`; 2 overlapping runs of the benchmark's heuristic | each decision logged once and in order, no gated finding applied unforced, and every run ends |
| `loop_race` | the same | finding: two overlapping runs, both rejected, leave a patched source on disk |
| `loop_certified` | the same | finding: another run writes the source between a run's last lock and its record, whose certified row then names a source no lock has seen |
| `analysis` | `Spec` of `Approval`; 4 pasted texts, 2 selections of 2 or 3 files with a shared name and a comma, a language model | a gated fix is included only after it was shown pending for this text (`GatedWasPending`), with no key held for a file with a comma in its name the page shows just the approvals it holds (`PageShowsKeysHeld`), fixes land on their own lines (`BottomUpMerges`), diffs of the page of which no line is mistaken replay to what they stand for (`DiffsApply`) |
| `analysis_unended` | the same | finding: a pasted text, trimmed, with a fix on its last line: its diff does not replay to the fixed text |
| `analysis_unapproved` | the same with C texts and no model | finding: the corrected file carries a fix that was gated and not approved |
| `fuzzing` | `FuzzingSpec`; 2 sessions of 2 iterations, one of which may approve, 1 attempt, 3 seed directories | every crash has its outcome, in order (`EveryCrashHasItsOutcome`), and the ledger has a session's decisions in that order (`CrashesAreLoggedInOrder`); only an approved session changes the source (`OnlyApprovedSessionsPatch`); a reported crash is abandoned only where its binary is stale (`ReportsAreDroppedOnlyIfStale`); an input is lost only to another session (`InputsLostOnlyToOthers`), a binary unusable only while or because its link was cut (`UnusableExeIsExplained`), a report needs a long seed (`ReportsNeedLongSeeds`); every session ends (`SessionsEnd`) |

*Bounds.* Two writers, verifiers or runs are the smallest number that can
interfere, and interference here is pairwise: a shared row, file or binary. The
ledger needs two rows for a fork and a third to see what follows an edit. Two
attempts show a retry after a rollback and the end of the retries; the default
is three. `MaxRows`, `MaxRetries`, `Iterations` and `MaxOnDisk` (three sources: the
first, a patch, and its rollback or another's patch; also one for each lock) are the
only bounds: runs and sessions are finite in number and each is called once. Two
iterations give a session a crash after a crash, so that the second is handed to a run after the
first has changed the source. In `fuzzing` only one session may approve: what
two overlapping runs that apply do to each other is `loop_overlap` and
`loop_race`. The buffers of `packet_parser.c` have their real sizes.
`frame_alloc.c` has ints of 8 bits and sizes of 9, at which all its inputs can
be enumerated; `GuardedIsWhole` is proved for every width. `Approval`
needs no bound: its texts, files and keys are finite. One hunk of context is one line (`Context = 1`, where difflib
has three), so that a text of ten lines has a diff of two hunks.

*Deadlock.* Ledger, closed loop and fuzzing may stop, when the table is full or
every run or session has ended, and their configurations say so. The verifier
and the analysis page may not, and are checked for deadlock.

*Fairness.* `Spec` of `ClosedLoop` has weak fairness of `Step(r)` for each run:
a thread that has begun `run()` goes on. The code blocks on nothing but
subprocesses, which it runs without a timeout; that gcc and the harness answer
is the assumption. Starting a run is not fair: nobody has to ask for one.
`FuzzingSpec` has weak fairness of `SessionStep(s)` and `RunStep(r)`: the same,
with a target that ends because the fuzzer stops it after `timeout_per_run`.
Neither a link that is cut (`LinkCut`) nor a failing verification (`RunFails`)
is fair.

## 4. Findings

Six disagreements of code and documentation, each with the counterexample of a
run: `record()` is not atomic (`ledger_race`); a failed ASan build passes the replay lock
(`verification_asanless`); two runs undo each other's rollback (`loop_race`); a
certified row hashes the source as it is after the verification and not as it
was verified (`loop_certified`); the diff of a text without a final newline loses
the line that replaces the last (`analysis_unended`); a
heuristic tried for one finding makes the fix of another, gated and unapproved
(`analysis_unapproved`). More were met on the way and have no run, being plain
from a line or two: the columns that readers are shown are not hashed
(`audit_ledger.py:97`, against lines 5-6: "any retroactive edit to an earlier row
breaks every subsequent hash"); a crash whose finding has no patch is abandoned
before the review gate is asked, and leaves no record (`orchestrator.py:93`, against
`README.md:18`: "unconditionally, regardless of whether a suggested fix exists");
`approve` looks for no pending review (`cli.py:169`, against
line 7); an approval given for one text includes the fix of another at the same
file name, CWE and line (`main.py:252`), which is why `GatedWasPending` is about
the time until something else is pasted or chosen (`steady`) and about files
that no key mistakes for each other (`Unambiguous`); the third lock builds and does not
run (`verifier.py:80`, against lines 10-11); a run that dies between
`apply` and its verdict leaves an unproven source (`orchestrator.py:138`; what
does hold then is `OnlyDeathUnsettles`); a `record()` that raises leaves a
certified patch without its row (`orchestrator.py:144`); a language model's
patch is recorded `suggested_included` and is in no corrected file
(`main.py:275`).

## 5. Proofs

Each theorem holds for every value of the constants that meets the named
assumptions: `MaxRowsAssumption` (ledger), `InputAssumption` (analysis page: a
file is a name and lines of text, and a name has a part after its last comma,
without a comma; only the last line of a text may lack its ending),
`MaxOnDiskAssumption` (a positive number), `ContextAssumption` (hunks show at
least one line of context: the code leaves difflib's three), `TemplatesAssumption` and `FixesAssumption`
(what the templates and heuristics are, see below), `OrchestratorAssumption`
(initial, torn, suggested and misapplied files are among the files; retries are
a number), `WidthAssumption` (a `size_t` holds every non-negative int),
`PacketAssumption` (the buffer is within its structure), `FuzzingAssumption`
(each crash of a session has a run of its own), `CrashFindingsAssumption`
(what the crash analyzer answers is a finding), `HeuristicAssumption` (the
CWE-119 heuristic has a patch for every source that builds and lacks the check:
`packet_parser.c` and what patches and rollbacks make of it) and
`HarnessAssumption` (the harness overruns the buffer of an unpatched
`frame_alloc()`, as it was written to).

**Ledger** (`LedgerViewProofs`): `TypeCorrect`, `VerdictIsExplained`,
`GreenListsAreChains`, `LedgerKeepsPromise` (`Spec => TamperEvident`), for any
writers, readers, payloads and bound. `VerdictExplained` is not inductive:
from an arbitrary table an insert may chain anywhere. `ChainInv` adds what the
argument needs. Each row's hash was computed from the payload recorded
(`RowsRecorded`), so a row rehashes unless its payload was edited. A call
between its two statements holds the genesis hash or that of a row
(`PendingPrev`), so an insert into a linked table either chains to the last row
or to a row that has a successor: a fork. Forks stay, and a table without one is
linked (`LinkedUnlessForked`); in a linked table the hash chained to by row `i`
has length `i - 1`, so no two rows chain to the same. A listing stays a prefix
of the table (`ListedPrefix`), so a later verdict covers it. Where no table
forks, an insert chains to the last row, and each step is a step of
`TamperEvidentLog` or a stutter.

**Verifier** (`VerificationProofs`), for any number of verifiers and trees:
`TypeCorrect`, `NoneCertifiesTheExploitable` (`CertifiedIsClean`),
`AloneCertifiesTheProven` (`CertifiedIsProven`), `SoundSourcesPass`
(`SoundSourceIsNotShut`), `OwnBinaryIsJudged` (`JudgedItsOwnBinary`). The source
may be rewritten at any step, so all five speak of the sources on disk since the
first of the verifiers now overlapping began (`disk`), and the
invariant `Agrees` relates a verifier and the shared binary to these. A verifier
alone runs a binary that it built from one of them (`BuiltFrom`). An overlapped
one may run what another built, but from one of them too; and while none of those
has passed the replay (`SomeReplayed`) nobody has come as far as to build anything
but the ASan binary, which is why overlapping verifiers cannot certify when every
source there is exploitable, while they can when its regression suite fails. If
all are sound (`AllSound`), every binary that was built of them is, whoever runs it.

**Closed loop** (`ClosedLoopProofs`, on the lemmas of `OrchestratorProofs`), for
any number of runs, findings, sources, headers and retries:

- for overlapping runs, `TypeCorrect` and `GateHolds`
  (`Spec => OnlyReviewedIsApplied`). `RunsHold` says what a run holds at each
  place (no write without a patch, no rollback without a backup); `Reviewed`,
  that a run past the gate was forced or its finding needs no review;
- with kills and exceptions, `OnlyProvenIsCertified`, `ChainSurvivesCrashes`,
  `CrashTypeCorrect`, `ReturnsSettle` (`OnlyDeathUnsettles`) and
  `LoopKeepsPromise` (`CrashSpec => SourceStaysProven`). One run is in progress
  (`Solo`), and its call of `record()` holds the last hash (`CallsInStep`): that
  keeps the chain (`ChainInv`). `LoopInv` adds that the run's verifier stands on
  the tree on disk, each lock behind it passed by that tree (`Standing`), and
  that backup and pending record are those of the tree in effect (`InPlace`).
  `Released` chooses a run; with one in progress it is the function `InEffect`,
  by which each step is shown to be a `Release`, a `Refuse` or a stutter;
- under either specification, `DecisionsAreLogged` and
  `DecisionsAreLoggedInFaults` (`EveryDecisionIsLogged`). `LogInv` says of every
  run, at every place, which outcomes its rows tell (`Tells`): those of the
  attempts before this one while it works on one, that of this attempt too once
  `record()` has inserted it. A table tells outcomes if a function maps them, in
  order, onto the run's rows (`LoggedIn`). A row of another run leaves that
  function as it is (`OthersRow`) and a row of the run's own extends it by one
  (`OwnRow`), so that no induction over the table is needed.

**Fuzzing** (`FuzzingProofs`), for any sessions, iterations, seeds and sizes:
`FuzzingTypeCorrect`, `InputsAreKept`, `ExeIsExplained`, `ReportsAreEarned`,
`CrashesAreHandled`, `PatchesAreApproved`, `ReportsGetPatches`,
`SessionsLogDecisions` (`EveryDecisionIsLogged`), `CrashesLogInOrder`
(`CrashesAreLoggedInOrder`). `FuzzingInv` is `RunsHold` and
`Reviewed`, kept by the steps of runs; what a session has found fits its
iterations, each at a number of its own and earned by its seeds (`SessionsFit`);
the runs of a session are idle, returned or at work according to the crash it is
at (`CallsInOrder`); and the two properties about inputs and binary, inductive
with those. `MutationsAreFrames` bounds what one mutation does to a frame. A
changed file is that of a run past the gate; a crash is critical and needs a
review, so that run was forced, that is, its session approved.
`ReportsAreDroppedOnlyIfStale` needs to know where a crash comes from: `Traced`
says that what a session found was found in a source that builds, and that the
run at work for it holds the finding of that crash. A report of a checked source
cannot be (`CheckedIsQuiet`), so an abandoned one is of a source that the
heuristic has a patch for (`ReportIsPatchable`), unless the file has changed.
To the source, the verifier and the ledger the steps of sessions are runs that
overlap and verifications that fail (`FuzzingStepOf`), so `LogInv` of the closed
loop holds here too: a run with a row has begun (`LoggedHasBegun`), and a run that
adds one is at the session's present crash, which no run begun so far is beyond.

**Analysis page** (`ApprovalProofs`), for any rules, templates, texts, files and
answers of a language model: `ApprovalsShownAreHeld` (`PageShowsKeysHeld`) and
`IncludedWasPending` (`GatedWasPending`). The first is not inductive: a box of a
file with a comma in its name is ticked and shown cleared, since what is sent of
its key approves nothing. What each step keeps is that the page shows the keys
sent (`PageShowsKeysSent`), which are those held if no name has a comma.
`GatedWasPending` says what an answer holds and not why. `IInv` adds it: a request in flight carries the keys held,
and the inputs the page would send (`Asked`), so its answer is about both; an
answer's gated and unapproved fixes have their pending records
(`ShownIsReviewed`), so a key that is ticked is that of a recorded finding; and
so is each key held (`HeldWasPending`), for any finding it can be taken for,
since `Unambiguous` leaves one input for it. Each action then keeps these facts,
or empties what they are about: a click the keys, a tick or a failure the page,
pasting and choosing the steady time.

The other three say what texts become, for texts of any length:

- `ApprovalIsTyped` (`ApprovalTypeOK`). `TypeParts` says that what is shown is
  what a request makes of one of the files (`IsReview`), and an earlier answer
  stays so while the operator types; what is applied was included and has a fix
  because `apply_all()` lists a finding only when its template changed the text
  (`ApplyAllLists`).
- `DiffsShownApply` (`DiffsApply`), by `DiffReplays`: whatever two texts,
  `_apply_unified_diff()` undoes `difflib.unified_diff()`, joined to a text and
  split again, unless a line is mistaken on the way (`Unmistakable`): then the
  joined text has the lines of the diff (`ResplitKeeps`), and lines are counted
  as `readlines()` does (`UnpagedCopy`). Every template yields lines (`FixesMakeTexts`). `ReplayGivesNew`
  is the core. After `k` lines of a script the replay is `InStep`: with the lines
  it has yet to copy it has produced the new text's share of these `k` lines; and
  next to a change it is `CaughtUp`, with none to copy. A line kept and not shown
  keeps it in step, since the same line is in both texts (`SkippedStaysInStep`);
  a hunk brings it up (`HunkCatchesUp`), where the number of a hunk at the start
  of an empty text, 0 and not 1, must do no harm; a shown line leaves it there.
- `CalmTextsAreMerged` (`BottomUpMerges`). The merge of all fixes at once
  (`Merged`) is a row of lines for each line. `BottomUp` takes a smallest set of
  findings on which `apply_all()` and the merge would differ and the finding
  that was fixed last, the uppermost one. What stood below has become other rows,
  but the line itself is where it was, and the one below it forbids this fix only
  if it did before (`FitsAsBefore`); so either its row alone changes (`FixedLast`) or
  it has no template in the text and in the merge alike (`UnfixedLast`).

The last needs of the templates what `FixesAssumption` names, each conjunct read
off `patch_agent.py:257-510` and the rules of `static_analyzer.py`: the templates
tell apart the lines they fix by what they begin with (a `free(`, a declaration
with `malloc`, the secret or debug line of one language), so a line has one for
one CWE and one rule; the first line a template writes is fixed by no other and
forbids a fix above it only if the line it replaces did; and no template writes what
triggers a heuristic. TLC evaluates it on the instance. Without it the property
fails: a fix whose first line another fix waits for would make the outcome
depend on the order. (A C line that declares a variable of type `void` called
`session_logout` would break the last conjunct; it is not C.)

*Induction over data.* The library states induction with an operator as
parameter, which the provers cannot instantiate. `UnifiedDiffProofs` states what
the proofs need of it with sets and functions in its place: a set of numbers that
has 0 and with each number the next has all (`CountingUp`), a nonempty one has a
least (`LeastNumber`), and of some subsets of a finite set one has no other with an
element less (`LeastSubset`). From these
follow that a recursion by rank has a solution (`RecursionExists`), hence that
the edit script, and the folds `FoldLeft`, `FlattenSeq` and `MapThenFoldSet` are computed
one element after the other (`ReplayIsStepwise`, `FlattenIsStepwise`,
`ApplyAllInTurn`, `ReplacedIsText`).

**Benchmarks** (`CertifiedFramesProofs`), at any width: `GuardedIsWhole` (the
patched `frame_alloc` returns exactly `n * s` bytes or nothing), `GenericIsExact`
(the generic template refuses exactly the products that do not fit) and
`CertifiedAllocatesWhole` (`CertifiedFramesAreWhole`): however verifiers
overlap each other and the patches, a certificate needs a source on disk
meanwhile whose replay does not overrun its buffer; that one has the patch, and is
whole on every frame though one was replayed.

Model-checked only:

- liveness: `RunsEnd` and `SessionsEnd`, which need fairness and ENABLED.

Every invariant and every other property of a passing run is a theorem.

## 6. Not modelled

- A harness or compiler that hangs (see fairness), `importlib.reload` under two
  threads, backups that share a millisecond: listed as hazards.
  `redirect_stdout` under two threads mixes up the log text of verifications,
  and nothing else.
- The argv mode of the fuzzer, which no target is configured for, and
  `parse_file` of the crash analyzer, which nothing calls.
- The triage agent: a pure function that nothing calls.
- `auth_session.c` and the `main()` of each benchmark: what gcc and ASan make of
  a source is a constant.
- Regular expressions of the static analyzer, language detection, and what each
  template writes: which lines they match and yield is data, but for the check of
  CWE-190.
- The diff budget of `run()` and the rationales of patches; carriage returns.
- HTTP to language models: the nondeterminism of `Suggest` and `Modelled`.
- The buttons of the run and fuzz panels, downloads, markup, styles, containers;
  argument parsing and printing of the command line.

## 7. Plan

Done: ledger, verifier, closed loop, diffs, the patch agent's templates, the
analysis page, fuzzing with its crash analysis, the two benchmarks whose
arithmetic matters, and the proofs of section 5. Left, in this order:

1. `UnifiedDiff` composed into `Orchestrator` in place of `Misapplied`: a diff
   replayed on a source that changed meanwhile.
2. Backups named by one clock, so that two runs may share one; the half-loaded
   module of a second `importlib.reload`.
3. The budget of `synthesize` at its boundary.
4. Proofs: which source is on disk when overlapping runs have ended, beyond that
   it is one that some run wrote.
