----------------------------- MODULE ClosedLoop -----------------------------
(***************************************************************************)
(* The orchestrator at work: how its runs are scheduled, what can go wrong *)
(* meanwhile, and what holds then.                                         *)
(*                                                                         *)
(* CrashSpec is one run after the other, as on the command line and in     *)
(* run_demo.py, with the faults the verifier handles, processes that are   *)
(* killed and calls that raise.  Spec is the backend: requests for one     *)
(* target overlap, and nothing else goes wrong.                            *)
(***************************************************************************)
EXTENDS Orchestrator, FiniteSets

Alone(r) == \A u \in Runs \ {r} : ~Active(u)

Next == \E r \in Runs : Start(r) \/ Step(r)

CrashNext == \E r \in Runs : Alone(r) /\ (Start(r) \/ Step(r) \/ Fault(r))

\* A run that has begun goes on: gcc, the harness and the language model are
\* taken to answer.
Fairness == \A r \in Runs : WF_vars(Step(r))

Spec == Init /\ [][Next]_vars /\ Fairness

CrashSpec == Init /\ [][CrashNext]_vars

-----------------------------------------------------------------------------
(* Properties.                                                             *)

\* A finding the review gate stops is never applied: whatever the runs do at
\* once, each change of the source or its header is made by a run that is
\* forced, or whose finding meets none of the four criteria.
OnlyReviewedIsApplied ==
    [][tree' # tree =>
         \E r \in Runs : /\ run'[r] # run[r]
                         /\ run[r].force \/ ~RequiresReview(run[r].finding)]_vars

\* The rows of run r in a table are one for each of the outcomes, in order.
LoggedIn(table, r, outcomes) ==
    \E at \in [DOMAIN outcomes -> {i \in DOMAIN table : table[i].payload.run = r}] :
        /\ \A i, j \in DOMAIN outcomes : i < j => at[i] < at[j]
        /\ \A k \in DOMAIN table : table[k].payload.run = r => \E i \in DOMAIN outcomes : at[i] = k
        /\ \A i \in DOMAIN outcomes : table[at[i]].payload.outcome = outcomes[i]

\* Each attempt but the last ends rejected.
Attempts(n, last) == [i \in 1 .. n |-> IF i = n THEN last ELSE "rejected"]

\* What a run that has returned decided: its last attempt was certified,
\* left for review or rejected, or found no patch, which is no decision.
Decisions(q) ==
    CASE q.state # "abandoned" -> Attempts(q.attempt, q.state)
      [] q.state = "abandoned" /\ q.patch # NoPatch -> Attempts(q.attempt, "rejected")
      [] q.state = "abandoned" /\ q.patch = NoPatch -> Attempts(q.attempt - 1, "rejected")

\* Every decision is logged, once and in order, also when runs overlap: a run
\* that returns has left one row for each decision, and no other.
EveryDecisionIsLogged ==
    \A r \in Runs : run[r].pc = "returned" => LoggedIn(rows, r, Decisions(run[r]))

\* Every run that begins comes to an end: retries are bounded, and no run
\* waits for another.
RunsEnd == \A r \in Runs : Active(r) ~> run[r].pc \in {"returned", "died"}

\* The trees that pass all three locks, or cannot be built with ASan.
Proven == {t \in PlainBuilds : /\ TRUE \in PlainExits[t]
                               /\ t \in AsanBuilds => t \in AsanClean}

\* A run that has changed files which are not certified yet and may have to
\* be restored.
Unsettled(r) == run[r].backup # NoPatch /\ call[r].pc # "returned"

\* The tree to which every run in progress would roll back.
Released ==
    IF \E r \in Runs : Active(r) /\ Unsettled(r)
    THEN LET q == run[CHOOSE r \in Runs : Active(r) /\ Unsettled(r)]
         IN  [src |-> q.backup,
              hdr |-> IF q.hdrBackup = NoPatch THEN tree.hdr ELSE q.hdrBackup]
    ELSE tree

DecisionLog ==
    [i \in DOMAIN rows |-> [outcome |-> rows[i].payload.outcome,
                            sha     |-> rows[i].payload.sha]]

\* The tree in effect and the decisions made, as the promise sees them.
Promise == INSTANCE CertifiedSource WITH released <- Released, log <- DecisionLog

Died == \E r \in Runs : run[r].pc = "died"

\* One run at a time, the loop keeps its promise up to the step in which a run
\* is killed or left by an exception: the source and its header change only to
\* a proven pair that a certified record names, and every other decision, also
\* after a fault of the verifier, leaves both as they were.
SourceStaysProven ==
    /\ Promise!Init
    /\ [][~Died' => [Promise!Next]_<<Released, DecisionLog>>]_vars

\* A certified row names a source that passes the locks with some header,
\* also when processes are killed and calls raise.
CertifiedRowsAreProven ==
    \A i \in DOMAIN rows :
        rows[i].payload.outcome = "certified" =>
            \E t \in Proven : t.src = rows[i].payload.sha

\* The ledger's chain holds while runs do not overlap, also when they crash
\* between or within its calls.
ChainHolds == L!VerifyChain(rows)

\* No run is in progress.
AtRest == \A r \in Runs : ~Active(r)

\* "Rolling back cleanly": once every run has ended, the source is the one
\* that was there at first, or one that a certified row names.
SourceIsSettled ==
    AtRest =>
        \/ tree \in InitTrees
        \/ \E i \in DOMAIN rows : /\ rows[i].payload.outcome = "certified"
                                  /\ rows[i].payload.sha = tree.src

\* Runs that are killed, or leave with an exception, are the only ones to
\* leave a source behind that no certified row accounts for: every return of
\* run(), after a fault too, settles it.
OnlyDeathUnsettles == (\A r \in Runs : run[r].pc # "died") => SourceIsSettled

=============================================================================
