------------------------------- MODULE Fuzzing -------------------------------
(***************************************************************************)
(* Fuzzing sessions: `kavach fuzz` and POST /api/fuzz.  A session has the  *)
(* ASan binary of packet_parser built if there is none, runs it on mutated *)
(* seeds (kavach/fuzzing/fuzzer.py), and hands every crash, in order, to   *)
(* Orchestrator.run().                                                     *)
(*                                                                         *)
(* Sessions overlap: they share the binary, the crash directory, and the   *)
(* files and the ledger of the Orchestrator.  The binary is a cache of the *)
(* source that is filled once and never refreshed.                         *)
(***************************************************************************)
EXTENDS Orchestrator, PacketParser, CrashAnalysis

CONSTANTS Sessions,
          Approving,  \* those that may approve: requests, not the command line
          SeedDirs,   \* what the seed directory may hold
          Checked,    \* the sources whose decode_packet() has the check
          Iterations  \* max_iterations

ASSUME FuzzingAssumption ==
    /\ Approving \subseteq Sessions
    /\ Iterations \in Nat
    /\ Runs = Sessions \X (1 .. Iterations)
    /\ SeedDirs \subseteq SUBSET Frames
    /\ Checked \subseteq Sources

\* synthesize() has a patch for CWE-119 in packet_parser: it replaces the
\* unchecked copy of decode_packet() as it stands in the repository.  A source
\* that builds is taken to have those lines or the check, as every source has
\* that patches and rollbacks of the target lead to.
ASSUME HeuristicAssumption ==
    /\ "CWE-119" \in Templated
    /\ \A t \in AsanBuilds : t.src \notin Checked => NoPatch \notin Suggest[t.src]

VARIABLES session,   \* each session's place and locals
          exe,       \* the file packet_parser_asan
          crashDir,  \* for each iteration, who wrote its crash file last
          seeds      \* the files of the seed directory

fuzzing == <<session, exe, crashDir, seeds>>

fuzzVars == <<vars, fuzzing>>

NoExe == [whole |-> FALSE]

Nobody == "nobody"

\* A binary under the name packet_parser_asan.  It is not whole from the
\* moment the linker creates the file until it has filled it.
Exes == {NoExe} \cup [whole : BOOLEAN, of : Trees, by : Sessions \cup {Nobody}]

\* How a run of the target can crash: reported by ASan, or killed by a signal
\* with nothing on stderr.
Kinds == {"report", "signal"}

NoTree == [src |-> NoPatch, hdr |-> NoPatch]

NoSession == [pc        |-> "idle",
              approve   |-> FALSE,
              obj       |-> NoTree,
              iteration |-> 0,
              found     |-> << >>,
              next      |-> 1]

Crash == [at : 1 .. Iterations, kind : Kinds, src : Sources]

SessionStates == [pc        : {"idle", "check", "compile", "link", "linking", "fuzz", "hand",
                               "running", "refused", "failed", "cut", "died", "done"},
                  approve   : BOOLEAN,
                  obj       : Trees \cup {NoTree},
                  iteration : 0 .. Iterations,
                  found     : UNION {[1 .. n -> Crash] : n \in 0 .. Iterations},
                  next      : 1 .. Iterations + 1]

\* Type invariant: Orchestrator's variables and those of the sessions.
FuzzingTypeOK ==
    /\ OrchestratorTypeOK
    /\ session \in [Sessions -> SessionStates]
    /\ exe \in Exes
    /\ crashDir \in [1 .. Iterations -> Sessions \cup {Nobody}]
    /\ seeds \in SeedDirs

\* The binary may be left from an earlier day.
FuzzingInit ==
    /\ Init
    /\ session = [s \in Sessions |-> NoSession]
    /\ exe \in {NoExe} \cup [whole : {TRUE}, of : Trees \cap AsanBuilds, by : {Nobody}]
    /\ crashDir = [i \in 1 .. Iterations |-> Nobody]
    /\ seeds \in SeedDirs

Goes(s, pc) == session' = [session EXCEPT ![s].pc = pc]

-----------------------------------------------------------------------------
(* cmd_fuzz() and fuzz_target_endpoint(), up to the binary.                *)

\* A request may say approve=true; the command line never does.  Without seeds
\* the session is refused.
Open(s) ==
    /\ session[s].pc = "idle"
    /\ \E approve \in IF s \in Approving THEN BOOLEAN ELSE {FALSE} :
          session' = [session EXCEPT ![s].pc      = IF seeds = {} THEN "refused" ELSE "check",
                                     ![s].approve = approve]
    /\ UNCHANGED <<vars, exe, crashDir, seeds>>

\* os.path.exists(binary): any file by that name will do.
CheckExe(s) ==
    /\ session[s].pc = "check"
    /\ Goes(s, IF exe = NoExe THEN "compile" ELSE "fuzz")
    /\ UNCHANGED <<vars, exe, crashDir, seeds>>

\* gcc compiles the source as it is now, which a run() in progress may have
\* patched and not yet verified; RuntimeError if it does not build.
CompileExe(s) ==
    /\ session[s].pc = "compile"
    /\ session' = [session EXCEPT ![s] = IF tree \in AsanBuilds
                                         THEN [@ EXCEPT !.pc = "link", !.obj = tree]
                                         ELSE [@ EXCEPT !.pc = "failed"]]
    /\ UNCHANGED <<vars, exe, crashDir, seeds>>

\* The mutated form of LinkStarts: the build is started, and not awaited.
LinkStartsUnawaited(s) ==
    /\ session[s].pc = "link"
    /\ exe' = [whole |-> FALSE, of |-> session[s].obj, by |-> s]
    /\ Goes(s, "fuzz")
    /\ UNCHANGED <<vars, crashDir, seeds>>

\* The linker unlinks what is there and creates the file anew ...
LinkStarts(s) ==
    /\ session[s].pc = "link"
    /\ exe' = [whole |-> FALSE, of |-> session[s].obj, by |-> s]
    /\ Goes(s, "linking")
    /\ UNCHANGED <<vars, crashDir, seeds>>

\* ... and fills it, whether or not it still has its name.
LinkEnds(s) ==
    /\ session[s].pc = "linking"
    /\ exe' = IF exe.by = s THEN [exe EXCEPT !.whole = TRUE] ELSE exe
    /\ Goes(s, "fuzz")
    /\ UNCHANGED <<vars, crashDir, seeds>>

\* The machine or the container stops the build: the file stays as it is.
LinkCut(s) ==
    /\ session[s].pc = "linking"
    /\ Goes(s, "cut")
    /\ UNCHANGED <<vars, exe, crashDir, seeds>>

-----------------------------------------------------------------------------
(* Fuzzer.run().                                                           *)

\* The mutated form of More: one iteration too many.
MoreOffByOne(s) == session[s].pc = "fuzz" /\ session[s].iteration <= Iterations

More(s) == session[s].pc = "fuzz" /\ session[s].iteration < Iterations

\* The inputs one mutation away from a seed.
Candidates == [dir \in SeedDirs |-> UNION {Mutations(f) : f \in dir}]

\* The sources whose binary some of them makes crash with a report.
Reporting == [dir \in SeedDirs |->
                {src \in Sources : \E f \in Candidates[dir] : Reported(src \in Checked, f)}]

\* The target exits without a crash, or its time is up.
Survives(s) ==
    /\ More(s)
    /\ exe.whole
    /\ session' = [session EXCEPT ![s].iteration = @ + 1]
    /\ UNCHANGED <<vars, exe, crashDir, seeds>>

\* The mutated form of Crashes: crash files are numbered by seed, not by
\* iteration.
CrashesUnnumbered(s) ==
    /\ More(s)
    /\ exe.whole
    /\ \E kind \in Kinds :
          /\ kind = "report" => exe.of.src \in Reporting[seeds]
          /\ session' = [session EXCEPT ![s].iteration = @ + 1,
                                        ![s].found = Append(@, [at   |-> 1,
                                                                kind |-> kind,
                                                                src  |-> exe.of.src])]
          /\ crashDir' = [crashDir EXCEPT ![1] = s]
    /\ UNCHANGED <<vars, exe, seeds>>

\* The target crashes: the input is saved under the number of the iteration,
\* which starts from 1 in each session.
Crashes(s) ==
    /\ More(s)
    /\ exe.whole
    /\ \E kind \in Kinds :
          LET at == session[s].iteration + 1
          IN  /\ kind = "report" => exe.of.src \in Reporting[seeds]
              /\ session' = [session EXCEPT ![s].iteration = at,
                                            ![s].found = Append(@, [at   |-> at,
                                                                    kind |-> kind,
                                                                    src  |-> exe.of.src])]
              /\ crashDir' = [crashDir EXCEPT ![at] = s]
    /\ UNCHANGED <<vars, exe, seeds>>

\* A file that is not whole cannot be executed: OSError, which nobody catches.
ExecRaises(s) ==
    /\ More(s)
    /\ ~exe.whole
    /\ Goes(s, "died")
    /\ UNCHANGED <<vars, exe, crashDir, seeds>>

\* max_iterations or max_seconds are used up.
Ends(s) ==
    /\ session[s].pc = "fuzz"
    /\ Goes(s, IF session[s].found = << >> THEN "done" ELSE "hand")
    /\ UNCHANGED <<vars, exe, crashDir, seeds>>

-----------------------------------------------------------------------------
(* The crashes found, each handed to run() once the one before has         *)
(* returned.                                                               *)

\* What ASan leaves on stderr.  decode_packet() overruns a local of main(),
\* inside memcpy().
Stderr(kind) ==
    IF kind = "report"
    THEN [error   |-> "stack-buffer-overflow",
          summary |-> "stack-buffer-overflow",
          frames  |-> <<[own |-> FALSE, sensitive |-> FALSE],
                        [own |-> TRUE, sensitive |-> FALSE]>>]
    ELSE [error |-> "", summary |-> "", frames |-> << >>]

ASSUME CrashFindingsAssumption ==
    \A kind \in Kinds : ToFinding(Parse(Stderr(kind))) \in Findings

Current(s) == <<s, session[s].next>>

HandOver(s) ==
    /\ session[s].pc = "hand"
    /\ Begin(Current(s), ToFinding(Parse(Stderr(session[s].found[session[s].next].kind))),
             session[s].approve)
    /\ Goes(s, "running")
    /\ UNCHANGED <<exe, crashDir, seeds>>

NextCrash(q) == [q EXCEPT !.pc = "hand", !.next = q.next + 1]

\* Mutated forms of Outcome: an abandoned run ends the session; it has the
\* same crash handed over again.
OutcomeStopping(s) ==
    /\ session[s].pc = "running"
    /\ run[Current(s)].pc \in {"returned", "died"}
    /\ session' = [session EXCEPT ![s] =
                     IF run[Current(s)].state = "abandoned" \/ @.next = Len(@.found)
                     THEN [@ EXCEPT !.pc = "done"]
                     ELSE NextCrash(@)]
    /\ UNCHANGED <<vars, exe, crashDir, seeds>>
OutcomeAgain(s) ==
    /\ session[s].pc = "running"
    /\ run[Current(s)].pc \in {"returned", "died"}
    /\ Goes(s, IF run[Current(s)].state = "abandoned" THEN "hand" ELSE "done")
    /\ UNCHANGED <<vars, exe, crashDir, seeds>>

\* The mutated form that does not wait for run().
OutcomeUnawaited(s) ==
    /\ session[s].pc = "running"
    /\ session' = [session EXCEPT ![s] =
                     IF @.next = Len(@.found) THEN [@ EXCEPT !.pc = "done"] ELSE NextCrash(@)]
    /\ UNCHANGED <<vars, exe, crashDir, seeds>>

\* run() returns its outcome, or its exception ends the session.
Outcome(s) ==
    /\ session[s].pc = "running"
    /\ run[Current(s)].pc \in {"returned", "died"}
    /\ session' = [session EXCEPT ![s] =
                     IF run[Current(s)].pc = "died"
                     THEN [@ EXCEPT !.pc = "died"]
                     ELSE IF @.next = Len(@.found)
                     THEN [@ EXCEPT !.pc = "done"]
                     ELSE NextCrash(@)]
    /\ UNCHANGED <<vars, exe, crashDir, seeds>>

RunStep(r) == Step(r) /\ UNCHANGED fuzzing

\* A verification that fails has the source rolled back, also when a session
\* has built its binary from the patched one meanwhile.
RunFails(r) == VerifyFails(r) /\ UNCHANGED fuzzing

SessionStep(s) ==
    \/ CheckExe(s) \/ CompileExe(s) \/ LinkStarts(s) \/ LinkEnds(s)
    \/ Survives(s) \/ Crashes(s) \/ ExecRaises(s) \/ Ends(s)
    \/ HandOver(s) \/ Outcome(s)

FuzzingNext ==
    \/ \E s \in Sessions : Open(s) \/ LinkCut(s) \/ SessionStep(s)
    \/ \E r \in Runs : RunStep(r) \/ RunFails(r)

\* gcc and each run of the target come to an end: the build without a bound of
\* the program's, the target within timeout_per_run.
FuzzingFairness ==
    /\ \A s \in Sessions : WF_fuzzVars(SessionStep(s))
    /\ \A r \in Runs : WF_fuzzVars(RunStep(r))

FuzzingSpec == FuzzingInit /\ [][FuzzingNext]_fuzzVars /\ FuzzingFairness

-----------------------------------------------------------------------------
(* Properties.                                                             *)

Found(s) == session[s].found

\* The header of the fuzzer promises to save every input that crashes the
\* target.  A session overwrites none of its own; it loses one only to another
\* session that found a crash in the iteration of the same number.
InputsLostOnlyToOthers ==
    \A s \in Sessions : \A i \in DOMAIN Found(s) :
        LET at == Found(s)[i].at
        IN  /\ \A j \in DOMAIN Found(s) \ {i} : Found(s)[j].at # at
            /\ \/ crashDir[at] = s
               \/ \E u \in Sessions \ {s} : \E j \in DOMAIN Found(u) : Found(u)[j].at = at

\* A crash is CRITICAL, so a session changes the source or its header only if
\* it was started with approve=true, whatever other sessions do meanwhile.
OnlyApprovedSessionsPatch ==
    [][tree' # tree =>
         \E s \in Sessions : session[s].approve /\ run'[Current(s)] # run[Current(s)]]_fuzzVars

\* A binary that cannot be executed is being linked, or its link was cut
\* short; only these two end a session before it has fuzzed.
UnusableExeIsExplained ==
    exe # NoExe /\ ~exe.whole => session[exe.by].pc \in {"linking", "cut"}

\* No crash that ASan reported ends without a patch and without review, unless
\* the source is no longer the one the binary was built from.
ReportsAreDroppedOnlyIfStale ==
    [][\A s \in Sessions : \A i \in DOMAIN Found(s) :
          run'[<<s, i>>].state = "abandoned" /\ run[<<s, i>>].pc = "synthesize" =>
              Found(s)[i].kind = "signal" \/ Found(s)[i].src # tree.src]_fuzzVars

\* A session that is done has an outcome for every crash, in order: each was
\* handed to a run() of its own, which returned before the next began.
EveryCrashHasItsOutcome ==
    \A s \in Sessions, i \in 1 .. Iterations :
        /\ session[s].pc = "done" =>
              (run[<<s, i>>].pc = "returned" <=> i \in DOMAIN Found(s))
        /\ run[<<s, i>>].pc # "idle" =>
              \A j \in 1 .. i - 1 : run[<<s, j>>].pc = "returned"

\* The ledger has what a session decided in the order of its crashes, whatever
\* records of other sessions stand between: run() returns, and record() with
\* it, before the next crash is handed over.
CrashesAreLoggedInOrder ==
    \A s \in Sessions : \A k, l \in {i \in DOMAIN rows : rows[i].payload.run[1] = s} :
        k < l => rows[k].payload.run[2] <= rows[l].payload.run[2]

\* ASan reports a crash only if some seed is long enough, for one mutation adds
\* sixteen bytes at most.
ReportsNeedLongSeeds ==
    \A s \in Sessions : \A i \in DOMAIN Found(s) :
        Found(s)[i].kind = "report" => \E f \in seeds : LongEnough(f)

\* Every session comes to an end, also when its runs overlap those of others:
\* sooner or later none is at work, and since none starts twice, for good.
SessionsEnd ==
    <>[](\A s \in Sessions :
            session[s].pc \in {"idle", "refused", "failed", "cut", "died", "done"})

=============================================================================
