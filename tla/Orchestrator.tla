---------------------------- MODULE Orchestrator ----------------------------
(***************************************************************************)
(* The closed loop of kavach/agents/orchestrator.py on one target: run()   *)
(* synthesizes a patch, stops for review or applies it, has it verified,   *)
(* and records the decision or rolls back and retries.  It composes the    *)
(* verifier (TripleLock) and the audit ledger (AuditLedger) over the files *)
(* that all runs share.                                                    *)
(*                                                                         *)
(* A run is a `kavach run`, `approve` or `fuzz` process, or a request to   *)
(* the backend, which runs on a thread of its own.  Nothing in run() or    *)
(* below it takes a lock.                                                  *)
(***************************************************************************)
EXTENDS Naturals, Sequences

CONSTANTS
    Runs,          \* calls of Orchestrator.run()
    Findings,      \* what they are called with
    Sources,       \* contents of the .c file
    Headers,       \* contents of its header
    InitTrees,     \* what is on disk at first
    Torn,          \* a file when a write to it was cut short
    Suggest,       \* for each source, the patched sources synthesize() may
                   \* answer with; NoPatch stands for an empty diff and for
                   \* one over the budget
    Misapplied,    \* what a diff can make of a source it was not made from
    Companion,     \* for each header, what companion_header_patch() answers
    MaxRetries,    \* config.orchestrator_max_retries
    AsanBuilds, PlainBuilds, AsanClean, PlainExits  \* see TripleLock

NoPatch == "none"

ASSUME OrchestratorAssumption ==
    /\ Torn \in Sources \cap Headers
    /\ InitTrees \subseteq [src : Sources, hdr : Headers]
    /\ Misapplied \subseteq Sources
    /\ NoPatch \notin Sources \cup Headers
    /\ Suggest \in [Sources -> (SUBSET (Sources \cup {NoPatch})) \ {{}}]
    /\ \A s \in Sources : s \notin Suggest[s]
    /\ Companion \in [Headers -> Headers \cup {NoPatch}]
    /\ MaxRetries \in Nat \ {0}
    /\ PlainExits \in [[src : Sources, hdr : Headers] -> (SUBSET BOOLEAN) \ {{}}]

VARIABLES tree,        \* the source and its header on disk
          run,         \* where each call of run() is, and its locals
          bin, lock,   \* the verifiers, see TripleLock
          rows, call   \* the ledger, see AuditLedger

verifying == <<bin, lock>>

ledger == <<rows, call>>

vars == <<tree, run, bin, lock, rows, call>>

Trees == [src : Sources, hdr : Headers]

Outcomes == {"certified", "rejected", "pending_review"}

\* An AuditRecord: finding_id stands for the run, patch_id for the patch.
Records == [run : Runs, patch : Sources, sha : Sources \cup {""}, outcome : Outcomes]

V == INSTANCE TripleLock WITH Verifiers <- Runs

L == INSTANCE AuditLedger WITH Writers <- Runs, Payloads <- Records

NoFinding == [pipeline         |-> "none",
              highRiskCWE      |-> FALSE,
              sensitiveKeyword |-> FALSE,
              severity         |-> "none",
              patchable        |-> FALSE]

Ready == [pc        |-> "idle",
          finding   |-> NoFinding,
          force     |-> FALSE,
          attempt   |-> 0,
          base      |-> NoPatch,
          patch     |-> NoPatch,
          backup    |-> NoPatch,
          hdrBackup |-> NoPatch,
          state     |-> "triaged"]

Contents == Sources \cup {NoPatch}

RunStates == [pc        : {"idle", "synthesize", "backup", "write", "header", "verify", "certify",
                           "rollback", "rollback_header", "recording", "returned", "died"},
              finding   : Findings \cup {NoFinding},
              force     : BOOLEAN,
              attempt   : 0 .. MaxRetries,
              base      : Contents,
              patch     : Contents,
              backup    : Contents,
              hdrBackup : Headers \cup {NoPatch},
              state     : {"triaged", "pending_review", "certified", "rejected", "abandoned"}]

\* Type invariant: the files, the runs, the verifiers and the ledger.
OrchestratorTypeOK ==
    /\ tree \in Trees
    /\ run \in [Runs -> RunStates]
    /\ V!LockTypeOK
    /\ L!TypeOK

Init ==
    /\ tree \in InitTrees
    /\ run = [r \in Runs |-> Ready]
    /\ bin = V!NoBinary
    /\ lock = [r \in Runs |-> V!Fresh]
    /\ L!Init

-----------------------------------------------------------------------------
(* run(), one action for each access to something the runs share.          *)

Active(r) == run[r].pc \notin {"idle", "returned", "died"}

\* run(f, ..., force_apply=force) is called.
Begin(r, f, force) ==
    /\ run[r].pc = "idle"
    /\ run' = [run EXCEPT ![r] = [@ EXCEPT !.pc      = "synthesize",
                                           !.finding = f,
                                           !.force   = force,
                                           !.attempt = 1]]
    /\ UNCHANGED <<tree, verifying, ledger>>

\* force is True for `approve`, and for approve=true in a request.
Start(r) == \E f \in Findings, force \in BOOLEAN : Begin(r, f, force)

\* review_gate.evaluate(): any of its four criteria.
RequiresReview(f) ==
    \/ f.pipeline = "hardware"
    \/ f.highRiskCWE
    \/ f.sensitiveKeyword
    \/ f.severity = "critical"

\* The mutated form of MustStop: a gated finding stops only if its patch is
\* not forced and another criterion than CRITICAL holds.
MustStopUnlessCritical(r) ==
    ~run[r].force /\ RequiresReview([run[r].finding EXCEPT !.severity = "high"])

MustStop(r) == ~run[r].force /\ RequiresReview(run[r].finding)

\* ledger.record() is entered.
Log(r, outcome, patch, sha) ==
    L!Call(r, [run |-> r, patch |-> patch, sha |-> sha, outcome |-> outcome])

\* What synthesize() may answer: a finding is patchable if its CWE has a
\* heuristic or a template, or a language model is configured.
Patches(f) == IF f.patchable THEN Suggest[tree.src] ELSE {NoPatch}

\* The source is read and a patch synthesized from it.  Without one the run
\* is abandoned; a gated one is recorded and left for a human.
Synthesize(r) ==
    /\ run[r].pc = "synthesize"
    /\ \E p \in Patches(run[r].finding) :
          LET read == [run[r] EXCEPT !.base = tree.src, !.patch = p]
          IN  \/ /\ p = NoPatch
                 /\ run' = [run EXCEPT ![r] = [read EXCEPT !.pc = "returned", !.state = "abandoned"]]
                 /\ UNCHANGED ledger
              \/ /\ p # NoPatch
                 /\ MustStop(r)
                 /\ run' = [run EXCEPT ![r] = [read EXCEPT !.pc    = "recording",
                                                           !.state = "pending_review"]]
                 /\ Log(r, "pending_review", p, "")
              \/ /\ p # NoPatch
                 /\ ~MustStop(r)
                 /\ run' = [run EXCEPT ![r] = [read EXCEPT !.pc = "backup"]]
                 /\ UNCHANGED ledger
    /\ UNCHANGED <<tree, verifying>>

\* Patcher.apply(): copy2() to a backup ...
Backup(r) ==
    /\ run[r].pc = "backup"
    /\ run' = [run EXCEPT ![r].pc = "write", ![r].backup = tree.src]
    /\ UNCHANGED <<tree, verifying, ledger>>

\* ... and the diff applied to what the file holds now.  Its context is not
\* checked: on another source than the one it was made from it yields
\* whatever its line numbers cut out.
Write(r) ==
    /\ run[r].pc = "write"
    /\ \E s \in IF tree.src = run[r].base THEN {run[r].patch} ELSE Misapplied :
          tree' = [tree EXCEPT !.src = s]
    /\ run' = [run EXCEPT ![r].pc = "header"]
    /\ UNCHANGED <<verifying, ledger>>

\* The companion patch of the header, with its own backup.
PatchHeader(r) ==
    /\ run[r].pc = "header"
    /\ IF Companion[tree.hdr] = NoPatch
       THEN /\ run' = [run EXCEPT ![r].pc = "verify"]
            /\ UNCHANGED tree
       ELSE /\ run' = [run EXCEPT ![r].pc = "verify", ![r].hdrBackup = tree.hdr]
            /\ tree' = [tree EXCEPT !.hdr = Companion[tree.hdr]]
    /\ UNCHANGED <<verifying, ledger>>

\* verify() at work.
Verify(r) ==
    /\ run[r].pc = "verify"
    /\ V!VerifyStep(r, tree)
    /\ UNCHANGED <<tree, run, ledger>>

\* A fault that verify() reports as FAILED.
VerifyFails(r) ==
    /\ run[r].pc = "verify"
    /\ lock[r].k < 3
    /\ V!VerifyFault(r)
    /\ UNCHANGED <<tree, run, ledger>>

\* The mutated form of Verdict: a patch that failed is verified again.
VerdictRetrying(r) ==
    /\ run[r].pc = "verify"
    /\ V!Take(r)
    /\ run' = [run EXCEPT ![r].pc = IF lock[r].status = "certified" THEN "certify" ELSE "verify"]
    /\ UNCHANGED <<tree, ledger>>

\* verify() has returned, or an exception of its third lock leaves run().
Verdict(r) ==
    /\ run[r].pc = "verify"
    /\ V!Take(r)
    /\ run' = [run EXCEPT ![r].pc = CASE lock[r].status = "certified" -> "certify"
                                      [] lock[r].status = "failed" -> "rollback"
                                      [] lock[r].status = "raised" -> "died"]
    /\ UNCHANGED <<tree, ledger>>

\* sha256_of() reads the file again, and the certified record is made.
Certify(r) ==
    /\ run[r].pc = "certify"
    /\ run' = [run EXCEPT ![r].pc = "recording", ![r].state = "certified"]
    /\ Log(r, "certified", run[r].patch, tree.src)
    /\ UNCHANGED <<tree, verifying>>

\* rollback() of the source ...
RollBack(r) ==
    /\ run[r].pc = "rollback"
    /\ tree' = [tree EXCEPT !.src = run[r].backup]
    /\ run' = [run EXCEPT ![r].pc = "rollback_header"]
    /\ UNCHANGED <<verifying, ledger>>

NextAttempt(q) == [q EXCEPT !.pc        = "synthesize",
                            !.attempt   = q.attempt + 1,
                            !.backup    = NoPatch,
                            !.hdrBackup = NoPatch]

Finished(q) == [q EXCEPT !.pc        = "returned",
                         !.state     = IF q.state = "rejected" THEN "abandoned" ELSE q.state,
                         !.backup    = NoPatch,
                         !.hdrBackup = NoPatch]

\* Mutated forms of RollBackHeader: the record is forgotten; the header is.
RollBackUnlogged(r) ==
    /\ run[r].pc = "rollback_header"
    /\ tree' = IF run[r].hdrBackup = NoPatch
               THEN tree
               ELSE [tree EXCEPT !.hdr = run[r].hdrBackup]
    /\ run' = [run EXCEPT ![r] = IF @.attempt < MaxRetries THEN NextAttempt(@)
                                 ELSE Finished([@ EXCEPT !.state = "rejected"])]
    /\ UNCHANGED <<verifying, ledger>>
RollBackSourceOnly(r) ==
    /\ run[r].pc = "rollback_header"
    /\ run' = [run EXCEPT ![r].pc = "recording", ![r].state = "rejected"]
    /\ Log(r, "rejected", run[r].patch, "")
    /\ UNCHANGED <<tree, verifying>>

\* ... and of the header if it was patched; then the rejected record is made.
RollBackHeader(r) ==
    /\ run[r].pc = "rollback_header"
    /\ tree' = IF run[r].hdrBackup = NoPatch
               THEN tree
               ELSE [tree EXCEPT !.hdr = run[r].hdrBackup]
    /\ run' = [run EXCEPT ![r].pc = "recording", ![r].state = "rejected"]
    /\ Log(r, "rejected", run[r].patch, "")
    /\ UNCHANGED verifying

\* The statements of record().
Record(r) ==
    /\ run[r].pc = "recording"
    /\ L!Select(r) \/ L!Insert(r)
    /\ UNCHANGED <<tree, run, verifying>>

\* The mutated form of Recorded: one attempt too many.
RecordedOffByOne(r) ==
    /\ run[r].pc = "recording"
    /\ call[r].pc = "returned"
    /\ L!Return(r)
    /\ run' = [run EXCEPT ![r] = IF @.state = "rejected" /\ @.attempt <= MaxRetries
                                 THEN NextAttempt(@)
                                 ELSE Finished(@)]
    /\ UNCHANGED <<tree, verifying>>

\* record() has returned: a rejected patch is retried while attempts last.
Recorded(r) ==
    /\ run[r].pc = "recording"
    /\ call[r].pc = "returned"
    /\ L!Return(r)
    /\ run' = [run EXCEPT ![r] = IF @.state = "rejected" /\ @.attempt < MaxRetries
                                 THEN NextAttempt(@)
                                 ELSE Finished(@)]
    /\ UNCHANGED <<tree, verifying>>

-----------------------------------------------------------------------------
(* What cuts a run short: nothing in run() catches an exception.           *)

Gone(r) ==
    /\ run' = [run EXCEPT ![r].pc = "died"]
    /\ lock' = [lock EXCEPT ![r] = V!Fresh]
    /\ call' = [call EXCEPT ![r] = L!Idle]
    /\ UNCHANGED <<bin, rows>>

\* Whether the next step of r writes the source, or the header.
WritesSource(r) == run[r].pc \in {"write", "rollback"}

WritesHeader(r) ==
    \/ run[r].pc = "header" /\ Companion[tree.hdr] # NoPatch
    \/ run[r].pc = "rollback_header" /\ run[r].hdrBackup # NoPatch

\* The process is killed, or a file operation raises: what it was writing may
\* have been cut short, for the file is opened, truncated and then filled.
Die(r) ==
    /\ Active(r)
    /\ Gone(r)
    /\ \/ UNCHANGED tree
       \/ WritesSource(r) /\ tree' = [tree EXCEPT !.src = Torn]
       \/ WritesHeader(r) /\ tree' = [tree EXCEPT !.hdr = Torn]

\* The diff asks for lines that a shorter source does not have: IndexError.
ApplyRaises(r) ==
    /\ run[r].pc = "write"
    /\ tree.src # run[r].base
    /\ Gone(r)
    /\ UNCHANGED tree

\* The third lock's build cannot be started.
ThirdLockRaises(r) ==
    /\ run[r].pc = "verify"
    /\ lock[r].k = 3
    /\ V!Fault(r)
    /\ UNCHANGED <<tree, run, ledger>>

\* The mutated form of RecordRaises: the exception is swallowed.
RecordRaisesUnseen(r) ==
    \/ /\ L!Raise(r)
       /\ UNCHANGED <<tree, run, verifying>>
    \/ /\ call[r].pc = "raised"
       /\ L!Return(r)
       /\ run' = [run EXCEPT ![r] = Finished(@)]
       /\ UNCHANGED <<tree, verifying>>

\* record() raises, and its exception leaves run().
RecordRaises(r) ==
    \/ /\ L!Raise(r)
       /\ UNCHANGED <<tree, run, verifying>>
    \/ /\ call[r].pc = "raised"
       /\ L!Return(r)
       /\ run' = [run EXCEPT ![r].pc = "died"]
       /\ UNCHANGED <<tree, verifying>>

Step(r) ==
    \/ Synthesize(r) \/ Backup(r) \/ Write(r) \/ ApplyRaises(r) \/ PatchHeader(r)
    \/ Verify(r) \/ Verdict(r)
    \/ Certify(r) \/ RollBack(r) \/ RollBackHeader(r)
    \/ Record(r) \/ Recorded(r)

Fault(r) == Die(r) \/ VerifyFails(r) \/ ThirdLockRaises(r) \/ RecordRaises(r)

=============================================================================
