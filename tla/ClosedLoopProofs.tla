--------------------------- MODULE ClosedLoopProofs ---------------------------
(***************************************************************************)
(* What TLC shows of ClosedLoop on two runs, proved for any number of      *)
(* runs, any findings, sources and headers, and any retries.               *)
(***************************************************************************)
EXTENDS ClosedLoop, OrchestratorProofs

-----------------------------------------------------------------------------
(* Overlapping runs.                                                       *)

\* A step of the loop is a step of one of its runs.
LEMMA NextIsStep ==
    /\ Next => \E r \in Runs : StepOf(r)
    /\ CrashNext => \E r \in Runs : Alone(r) /\ StepOf(r)
  BY DEF Next, CrashNext, StepOf, Start

\* Overlapping runs keep what they hold, and the gate.
LEMMA OverlapInvariant == Spec => [](RunsHold /\ Reviewed)
<1>1. Init => RunsHold /\ Reviewed
  BY RunsHoldInit, ReviewedInit
<1>2. RunsHold /\ Reviewed /\ [Next]_vars => (RunsHold /\ Reviewed)'
  BY NextIsStep, RunsHoldStep, ReviewedStep, Stutter
<1> QED  BY <1>1, <1>2, PTL DEF Spec

\* The files, the runs, the verifiers and the ledger keep their types, however
\* many runs overlap: no run writes a patch or a backup it does not have.
THEOREM TypeCorrect == Spec => []OrchestratorTypeOK
<1>1. RunsHold => OrchestratorTypeOK
  BY DEF RunsHold
<1> QED  BY <1>1, OverlapInvariant, PTL

\* However many runs overlap, a change of the source or its header is the step
\* of a run that was forced or whose finding the review gate lets through.
THEOREM GateHolds == Spec => OnlyReviewedIsApplied
<1> DEFINE Allowed == tree' # tree =>
                        \E r \in Runs : /\ run'[r] # run[r]
                                        /\ run[r].force \/ ~RequiresReview(run[r].finding)
<1>1. RunsHold /\ Reviewed /\ [Next]_vars => [Allowed]_vars
  <2> SUFFICES ASSUME RunsHold, Reviewed, Next, tree' # tree
               PROVE  \E r \in Runs : /\ run'[r] # run[r]
                                      /\ run[r].force \/ ~RequiresReview(run[r].finding)
    OBVIOUS
  <2>1. PICK r \in Runs : StepOf(r)
    BY NextIsStep
  <2>2. run[r].pc \in Applied /\ run'[r] # run[r]
    BY <2>1, FilesChange
  <2> QED  BY <2>2 DEF Reviewed
<1> QED  BY <1>1, OverlapInvariant, PTL DEF Spec, OnlyReviewedIsApplied

-----------------------------------------------------------------------------
(* One run after the other, with every fault.                              *)

\* At most one run is in progress.
Solo == \A r, u \in Runs : Active(r) /\ Active(u) => r = u

\* A call of record() belongs to a run that is recording, and nothing has been
\* inserted since its SELECT.
CallsInStep ==
    \A r \in Runs :
        /\ call[r].pc # "idle" => run[r].pc = "recording"
        /\ call[r].pc = "insert" => call[r].prev = L!LastHash(rows)

\* The chain is not inductive by itself: that of the next row must be what it
\* will chain to.
ChainInv == RunsHold /\ Solo /\ CallsInStep /\ ChainHolds

\* What a step of run r may do to the ledger.
LedgerMoves(r) ==
    \/ /\ UNCHANGED ledger
       /\ run'[r].pc = run[r].pc \/ call[r].pc = "idle"
    \/ /\ call' = [call EXCEPT ![r] = L!Idle]
       /\ UNCHANGED rows
    \/ /\ \E p \in Records : L!Call(r, p)
       /\ run'[r].pc = "recording"
    \/ /\ L!Select(r) \/ L!Insert(r) \/ L!Raise(r)
       /\ run' = run

\* Every step of a run moves the ledger in one of these ways.
LEMMA LedgerMovesStep ==
    ASSUME RunsHold, NEW r \in Runs, StepOf(r),
           run[r].pc # "recording" => call[r].pc = "idle"
    PROVE  LedgerMoves(r)
<1>1. /\ run \in [Runs -> RunStates]
      /\ tree.src \in Sources
      /\ run[r].pc \in Patching => run[r].patch \in Sources
      /\ run[r].pc # "recording" => call[r].pc = "idle"
  BY DEF RunsHold, OrchestratorTypeOK, Trees
<1>2. ASSUME UNCHANGED ledger, run[r].pc # "recording" \/ run' = run
      PROVE  LedgerMoves(r)
  BY <1>1, <1>2 DEF LedgerMoves
<1>3. ASSUME NEW outcome \in Outcomes, NEW patch \in Sources, NEW sha \in Sources \cup {""},
             Log(r, outcome, patch, sha), run'[r].pc = "recording"
      PROVE  LedgerMoves(r)
  <2>1. [run |-> r, patch |-> patch, sha |-> sha, outcome |-> outcome] \in Records
    BY <1>3 DEF Records
  <2> QED  BY <1>3, <2>1 DEF Log, LedgerMoves
<1>4. ASSUME NEW f \in Findings, NEW force \in BOOLEAN, Begin(r, f, force)
      PROVE  LedgerMoves(r)
  BY <1>2, <1>4 DEF Begin
<1>5. CASE Synthesize(r)
  <2>1. PICK p \in Patches(run[r].finding) :
           \/ UNCHANGED ledger
           \/ /\ p # NoPatch
              /\ Log(r, "pending_review", p, "")
              /\ run' = [run EXCEPT ![r] = [[run[r] EXCEPT !.base = tree.src, !.patch = p]
                                              EXCEPT !.pc = "recording", !.state = "pending_review"]]
    BY <1>5 DEF Synthesize
  <2>2. p # NoPatch => p \in Sources
    BY <1>1, OrchestratorAssumption DEF Patches
  <2>3. CASE UNCHANGED ledger
    BY <1>2, <1>5, <2>3 DEF Synthesize
  <2>4. CASE ~UNCHANGED ledger
    <3>1. run'[r].pc = "recording"
      BY <1>1, <2>1, <2>4 DEF RunStates
    <3> QED  BY <1>3, <2>1, <2>2, <2>4, <3>1 DEF Outcomes
  <2> QED  BY <2>3, <2>4
<1>6. CASE Backup(r) \/ Write(r) \/ PatchHeader(r) \/ RollBack(r) \/ Verdict(r)
  BY <1>2, <1>6 DEF Backup, Write, PatchHeader, RollBack, Verdict
<1>7. CASE Verify(r) \/ VerifyFails(r) \/ ThirdLockRaises(r)
  BY <1>2, <1>7 DEF Verify, VerifyFails, ThirdLockRaises
<1>8. CASE ApplyRaises(r) \/ Die(r) \/ Recorded(r)
  BY <1>8 DEF ApplyRaises, Die, Gone, Recorded, L!Return, LedgerMoves
<1>9. CASE Certify(r)
  <2>1. run'[r].pc = "recording" /\ run[r].pc = "certify"
    BY <1>1, <1>9 DEF Certify, RunStates
  <2> QED  BY <1>1, <1>3, <1>9, <2>1 DEF Certify, Outcomes, Patching
<1>10. CASE RollBackHeader(r)
  <2>1. run'[r].pc = "recording" /\ run[r].pc = "rollback_header"
    BY <1>1, <1>10 DEF RollBackHeader, RunStates
  <2> QED  BY <1>1, <1>3, <1>10, <2>1 DEF RollBackHeader, Outcomes, Patching
<1>11. CASE Record(r) \/ RecordRaises(r)
  BY <1>11 DEF Record, RecordRaises, L!Return, LedgerMoves
<1> QED
  BY <1>4, <1>5, <1>6, <1>7, <1>8, <1>9, <1>10, <1>11 DEF StepOf, Step, Fault

\* A step of the one run in progress leaves at most one in progress.
LEMMA SoloStep ==
    ASSUME RunsHold, NEW r \in Runs, Alone(r), StepOf(r)
    PROVE  Solo' /\ \A u \in Runs \ {r} : run'[u] = run[u]
<1>1. PICK q \in RunStates : run' = [run EXCEPT ![r] = q]
  BY RunTypeStep
<1>2. \A u \in Runs \ {r} : run'[u] = run[u]
  BY <1>1 DEF RunsHold, OrchestratorTypeOK
<1> QED  BY <1>2 DEF Solo, Alone, Active

\* The row record() inserts extends the chain, and is what the next will chain
\* to.
LEMMA InsertExtends ==
    ASSUME RunsHold, CallsInStep, ChainHolds, NEW r \in Runs, L!Insert(r)
    PROVE  ChainHolds'
<1>1. /\ call[r].pc = "insert"
      /\ call[r].prev = L!LastHash(rows)
      /\ rows' = Append(rows, L!NewRow(call[r]))
  BY DEF L!Insert, CallsInStep
<1>2. /\ rows \in Seq(L!Rows)
      /\ Len(rows) \in Nat
      /\ DOMAIN rows = 1 .. Len(rows)
      /\ L!NewRow(call[r]) \in L!Rows
  BY <1>1, LedgerRows DEF RunsHold, OrchestratorTypeOK, L!TypeOK
<1>3. /\ Len(rows') = Len(rows) + 1
      /\ DOMAIN rows' = 1 .. Len(rows) + 1
      /\ \A i \in 1 .. Len(rows) : rows'[i] = rows[i]
      /\ rows'[Len(rows) + 1] = L!NewRow(call[r])
  BY <1>1, <1>2, AppendProperties, LenProperties
<1>4. ASSUME NEW i \in DOMAIN rows'
      PROVE  /\ rows'[i].prev = L!ExpectedPrev(rows', i)
             /\ rows'[i].hash = L!Hash(rows'[i].prev, rows'[i].payload)
  <2>1. CASE i \in 1 .. Len(rows)
    <3>1. i = 1 \/ i - 1 \in 1 .. Len(rows)
      BY <1>2, <2>1
    <3>2. L!ExpectedPrev(rows', i) = L!ExpectedPrev(rows, i)
      BY <1>3, <3>1 DEF L!ExpectedPrev
    <3> QED  BY <1>2, <1>3, <2>1, <3>2 DEF ChainHolds, L!VerifyChain, L!Linked, L!Rehashed
  <2>2. CASE i = Len(rows) + 1
    <3>1. L!ExpectedPrev(rows', i) = L!LastHash(rows)
      <4>1. CASE rows = << >>
        BY <1>2, <2>2, <4>1, EmptySeq DEF L!ExpectedPrev, L!LastHash
      <4>2. CASE rows # << >>
        <5>1. Len(rows) \in 1 .. Len(rows) /\ i # 1 /\ i - 1 = Len(rows)
          BY <1>2, <2>2, <4>2, EmptySeq
        <5> QED  BY <1>3, <4>2, <5>1 DEF L!ExpectedPrev, L!LastHash
      <4> QED  BY <4>1, <4>2
    <3> QED  BY <1>1, <1>3, <2>2, <3>1 DEF L!NewRow
  <2> QED  BY <1>2, <1>3, <2>1, <2>2
<1> QED  BY <1>4 DEF ChainHolds, L!VerifyChain, L!Linked, L!Rehashed

\* The calls of record() stay in step with the runs they belong to.
LEMMA CallsStep ==
    ASSUME RunsHold, CallsInStep, NEW r \in Runs, Alone(r), StepOf(r)
    PROVE  CallsInStep'
<1>1. call \in [Runs -> L!Calls] /\ run \in [Runs -> RunStates]
  BY DEF RunsHold, OrchestratorTypeOK, L!TypeOK
<1>2. \A u \in Runs \ {r} : call[u].pc = "idle" /\ run'[u] = run[u]
  BY SoloStep DEF CallsInStep, Alone, Active
<1>3. ASSUME \A u \in Runs \ {r} : call'[u] = call[u],
             call'[r].pc # "idle" => run'[r].pc = "recording",
             call'[r].pc = "insert" => call'[r].prev = L!LastHash(rows')
      PROVE  CallsInStep'
  <2>1. ASSUME NEW u \in Runs
        PROVE  /\ call'[u].pc # "idle" => run'[u].pc = "recording"
               /\ call'[u].pc = "insert" => call'[u].prev = L!LastHash(rows')
    BY <1>2, <1>3
  <2> QED  BY <2>1 DEF CallsInStep, L!LastHash, L!GenesisHash
<1>4. LedgerMoves(r)
  BY LedgerMovesStep DEF CallsInStep
<1>5. CASE UNCHANGED ledger /\ (run'[r].pc = run[r].pc \/ call[r].pc = "idle")
  BY <1>3, <1>5 DEF ledger, CallsInStep
<1>6. CASE call' = [call EXCEPT ![r] = L!Idle] /\ UNCHANGED rows
  BY <1>1, <1>3, <1>6 DEF L!Idle
<1>7. ASSUME NEW p \in Records, L!Call(r, p), run'[r].pc = "recording"
      PROVE  CallsInStep'
  BY <1>1, <1>3, <1>7 DEF L!Call
<1>8. CASE L!Select(r) /\ run' = run
  BY <1>1, <1>3, <1>8 DEF L!Select, CallsInStep
<1>9. CASE (L!Insert(r) \/ L!Raise(r)) /\ run' = run
  <2>1. call[r].pc # "idle" /\ \E how \in {"returned", "raised"} : L!Finish(r, how)
    BY <1>9 DEF L!Insert, L!Raise
  <2>2. call'[r].pc \in {"returned", "raised"} /\ \A u \in Runs \ {r} : call'[u] = call[u]
    BY <1>1, <2>1 DEF L!Finish
  <2> QED  BY <1>3, <1>9, <2>1, <2>2 DEF CallsInStep
<1> QED  BY <1>4, <1>5, <1>6, <1>7, <1>8, <1>9 DEF LedgerMoves

\* Each step of the one run in progress keeps the chain.
LEMMA ChainStep ==
    ASSUME ChainInv, NEW r \in Runs, Alone(r), StepOf(r)
    PROVE  ChainInv'
<1>1. RunsHold' /\ Solo' /\ CallsInStep'
  BY RunsHoldStep, SoloStep, CallsStep DEF ChainInv
<1>2. CASE UNCHANGED rows
  BY <1>1, <1>2 DEF ChainInv, ChainHolds, L!VerifyChain, L!Linked, L!Rehashed, L!ExpectedPrev
<1>3. CASE L!Insert(r)
  BY <1>1, <1>3, InsertExtends DEF ChainInv
<1>4. UNCHANGED rows \/ L!Insert(r)
  BY LedgerMovesStep DEF ChainInv, LedgerMoves, ledger, L!Call, L!Select, L!Raise, CallsInStep
<1> QED  BY <1>1, <1>2, <1>3, <1>4 DEF ChainInv

\* At first the table is empty and nobody calls.
LEMMA ChainInit == Init => ChainInv
<1> SUFFICES ASSUME Init
             PROVE  ChainInv
  OBVIOUS
<1>1. Solo /\ CallsInStep
  BY DEF Init, Ready, Solo, Active, CallsInStep, L!Init, L!Idle
<1>2. ChainHolds
  BY EmptySeq DEF Init, L!Init, ChainHolds, L!VerifyChain, L!Linked, L!Rehashed
<1> QED  BY <1>1, <1>2, RunsHoldInit DEF ChainInv

-----------------------------------------------------------------------------
(* What the verifier's place says of the tree while nobody else moves it.  *)

\* The tree passes the exploit replay, or cannot be built for it.
Replayed(t) == t \in AsanBuilds => t \in AsanClean

\* Its regression tests can pass.
Regressed(t) == TRUE \in PlainExits[t]

\* What the three locks show together.
LEMMA ProvenIs ==
    ASSUME NEW t \in PlainBuilds, Replayed(t), Regressed(t)
    PROVE  t \in Proven
  BY Zenon DEF Replayed, Regressed, Proven

\* Verifier state l and binary b agree with tree t: what is linked or run was
\* built from it, and each lock that is behind was passed by it.
Standing(l, b, t) ==
    /\ l.pc = "link" => /\ l.obj = [flavor |-> V!Flavor(l.k), tree |-> t]
                        /\ t \in V!Builds(V!Flavor(l.k))
    /\ l.pc = "run" => l.k # 3 /\ b = [flavor |-> V!Flavor(l.k), tree |-> t]
    /\ l.k # 1 => Replayed(t)
    /\ l.k = 3 => Regressed(t)
    /\ l.status = "certified" => t \in Proven

\* A verifier that has not begun says nothing.
LEMMA FreshStands == \A b, t : Standing(V!Fresh, b, t)
  BY DEF V!Fresh, Standing

\* However a lock ends other than by holding, nothing more is claimed.
LEMMA OverStands ==
    ASSUME NEW l \in V!LockStates, NEW b, NEW t, Standing(l, b, t)
    PROVE  /\ \A c, how : how # "certified" => Standing(V!Over(l, how), c, t)
           /\ \A c : Standing(V!Shut(l), c, t)
<1> USE DEF V!LockStates, V!Over, Standing
<1>1. \A c, how : how # "certified" => Standing(V!Over(l, how), c, t)
  OBVIOUS
<1>2. \A c : Standing(V!Shut(l), c, t)
  BY DEF V!Shut
<1> QED  BY <1>1, <1>2

\* A lock that holds passes on what it has shown.
LEMMA OpenedStands ==
    ASSUME NEW l \in V!LockStates, NEW b, NEW t, Standing(l, b, t),
           \/ l.k = 1 /\ Replayed(t)
           \/ l.k = 2 /\ Regressed(t)
           \/ l.k = 3 /\ t \in Proven
    PROVE  \A c : Standing(V!Opened(l), c, t)
<1> SUFFICES ASSUME NEW c
             PROVE  Standing(V!Opened(l), c, t)
  OBVIOUS
<1> DEFINE passed == [l EXCEPT !.ok[l.k] = "true", !.obj = V!NoBinary]
<1>1. /\ passed \in V!LockStates
      /\ passed.k = l.k
      /\ passed.status = l.status
  BY DEF V!LockStates
<1> HIDE DEF passed
<1>2. CASE l.k = 3
  <2>1. V!Opened(l) = V!Over(passed, "certified")
    BY <1>2 DEF V!Opened, passed
  <2>2. /\ V!Over(passed, "certified").pc = "done"
        /\ V!Over(passed, "certified").k = 3
        /\ V!Over(passed, "certified").status = "certified"
    BY <1>1, <1>2 DEF V!Over, V!LockStates
  <2>3. Replayed(t) /\ Regressed(t) /\ t \in Proven
    BY <1>2 DEF Standing
  <2> QED  BY <2>1, <2>2, <2>3 DEF Standing
<1>3. CASE l.k # 3
  <2>1. V!Opened(l) = [passed EXCEPT !.pc = "build", !.k = l.k + 1]
    BY <1>3 DEF V!Opened, passed
  <2>2. l.k \in {1, 2}
    BY <1>3 DEF V!LockStates, V!Locks
  <2> QED  BY <1>1, <2>1, <2>2 DEF V!LockStates, Standing
<1> QED  BY <1>2, <1>3

\* Each step of the verifier, and each of its faults, keeps the agreement.
LEMMA VerifierStands ==
    ASSUME RunsHold, NEW r \in Runs, Standing(lock[r], bin, tree),
           V!VerifyStep(r, tree) \/ V!VerifyFault(r)
    PROVE  Standing(lock'[r], bin', tree)
<1> DEFINE l == lock[r]
<1>1. /\ lock \in [Runs -> V!LockStates]
      /\ l \in V!LockStates
      /\ l.k \in {1, 2, 3}
      /\ tree \in Trees
  BY DEF RunsHold, OrchestratorTypeOK, V!LockTypeOK, V!LockStates, V!Locks
<1>2. PlainExits[tree] \subseteq BOOLEAN
  BY <1>1, OrchestratorAssumption DEF Trees
<1>3. CASE V!Load(r)
  BY <1>1, <1>3 DEF V!Load, V!LockStates, Standing
<1>4. CASE V!Compile(r, tree)
  <2> DEFINE made == [l EXCEPT !.pc = "link",
                               !.obj = [flavor |-> V!Flavor(l.k), tree |-> tree]]
  <2>1. CASE tree \in V!Builds(V!Flavor(l.k))
    <3>1. lock'[r] = made
      BY <1>1, <1>4, <2>1 DEF V!Compile
    <3>2. /\ made.pc = "link"
          /\ made.obj = [flavor |-> V!Flavor(l.k), tree |-> tree]
          /\ made.k = l.k
          /\ made.status = l.status
      BY <1>1 DEF V!LockStates
    <3> QED  BY <2>1, <3>1, <3>2 DEF Standing
  <2>2. CASE tree \notin V!Builds(V!Flavor(l.k))
    <3>1. lock'[r] = V!Rejected(l)
      BY <1>1, <1>4, <2>2 DEF V!Compile
    <3>2. CASE l.k = 1
      <4>1. Replayed(tree)
        BY <2>2, <3>2 DEF V!Builds, V!Flavor, Replayed
      <4> QED  BY <1>1, <3>1, <3>2, <4>1, OpenedStands DEF V!Rejected
    <3>3. CASE l.k # 1
      BY <1>1, <3>1, <3>3, OverStands DEF V!Rejected
    <3> QED  BY <3>2, <3>3
  <2> QED  BY <2>1, <2>2
<1>5. CASE V!Link(r)
  <2>1. CASE l.k = 3
    <3>1. lock'[r] = V!Opened(l)
      BY <1>1, <1>5, <2>1 DEF V!Link
    <3>2. tree \in V!Builds(V!Flavor(l.k)) /\ Replayed(tree) /\ Regressed(tree)
      BY <1>5, <2>1 DEF V!Link, Standing
    <3>3. tree \in Proven
      BY <2>1, <3>2, ProvenIs DEF V!Builds, V!Flavor
    <3> QED  BY <1>1, <2>1, <3>1, <3>3, OpenedStands
  <2>2. CASE l.k # 3
    <3>1. lock'[r] = [l EXCEPT !.pc = "run", !.obj = V!NoBinary] /\ bin' = l.obj /\ l.pc = "link"
      BY <1>1, <1>5, <2>2 DEF V!Link
    <3> QED  BY <1>1, <2>2, <3>1 DEF Standing, V!LockStates
  <2> QED  BY <2>1, <2>2
<1>6. CASE V!Run(r)
  <2> DEFINE judged == [l EXCEPT !.ran[l.k] = bin]
  <2>1. PICK clean \in V!Exits(bin) :
           lock' = [lock EXCEPT ![r] = IF clean THEN V!Opened(judged) ELSE V!Shut(judged)]
    BY <1>6 DEF V!Run
  <2>2. /\ bin = [flavor |-> V!Flavor(l.k), tree |-> tree]
        /\ l.k \in {1, 2}
    BY <1>1, <1>6 DEF V!Run, Standing
  <2>3. judged \in V!LockStates /\ judged.k = l.k
    BY <1>1 DEF V!LockStates, RunsHold, OrchestratorTypeOK, V!LockTypeOK
  <2>4. Standing(judged, bin, tree)
    BY <1>1 DEF V!LockStates, Standing
  <2> HIDE DEF judged
  <2>5. CASE clean
    <3>1. clean = TRUE
      BY <1>2, <2>1, <2>2, <2>5 DEF V!Exits, V!Flavor
    <3>2. \/ l.k = 1 /\ Replayed(tree)
          \/ l.k = 2 /\ Regressed(tree)
      BY <2>1, <2>2, <3>1 DEF V!Exits, V!Flavor, Replayed, Regressed
    <3>3. lock'[r] = V!Opened(judged)
      BY <1>1, <2>1, <2>5
    <3> QED  BY <2>3, <2>4, <3>2, <3>3, OpenedStands
  <2>6. CASE ~clean
    <3>1. lock'[r] = V!Shut(judged)
      BY <1>1, <2>1, <2>6
    <3> QED  BY <2>3, <2>4, <3>1, OverStands
  <2> QED  BY <2>5, <2>6
<1>7. ASSUME NEW how \in {"failed", "raised"}, lock' = [lock EXCEPT ![r] = V!Over(l, how)]
      PROVE  Standing(lock'[r], bin', tree)
  BY <1>1, <1>7, OverStands
<1>8. CASE V!Caught(r) \/ V!LoadFails(r)
  BY <1>7, <1>8 DEF V!Caught, V!LoadFails
<1> QED
  BY <1>3, <1>4, <1>5, <1>6, <1>8 DEF V!VerifyStep, V!VerifyFault, V!RunBusy, V!Fault

-----------------------------------------------------------------------------
(* What a run in progress has done to the tree.                            *)

\* A row that run q is about to insert says what is on disk: a certified tree
\* that is proven, or the one that was there before the run.
Due(q, p, t) ==
    \/ p.outcome = "certified" /\ t \in Proven /\ p.sha = t.src
    \/ /\ p.outcome = "rejected" /\ p.sha = ""
       /\ t.src = q.backup
       /\ q.hdrBackup \in {NoPatch, t.hdr}
    \/ p.outcome = "pending_review" /\ p.sha = "" /\ q.backup = NoPatch

\* A run, its verifier and its call of record() agree with the tree.
InPlace(q, l, c, b, t) ==
    /\ q.pc # "verify" => l = V!Fresh
    /\ q.pc = "verify" => Standing(l, b, t)
    /\ q.pc = "certify" => t \in Proven
    /\ q.pc \in {"idle", "synthesize", "backup"} => q.backup = NoPatch
    /\ q.pc \in {"idle", "synthesize", "backup", "write", "header"} => q.hdrBackup = NoPatch
    /\ q.pc = "rollback_header" => t.src = q.backup
    /\ c.pc \in {"select", "insert"} => Due(q, c.payload, t)

Places == \A r \in Runs : InPlace(run[r], lock[r], call[r], bin, tree)

\* The run that takes a step stays in place.
LEMMA OwnPlace ==
    ASSUME ChainInv, Places, NEW r \in Runs, StepOf(r)
    PROVE  InPlace(run'[r], lock'[r], call'[r], bin', tree')
<1> DEFINE u == run[r]
           Goal == InPlace(run'[r], lock'[r], call'[r], bin', tree')
<1>1. /\ run \in [Runs -> RunStates]
      /\ u \in RunStates
      /\ lock \in [Runs -> V!LockStates]
      /\ call \in [Runs -> L!Calls]
      /\ tree \in Trees
      /\ tree.src \in Sources
      /\ NoPatch \notin Sources \cup Headers
  BY OrchestratorAssumption
     DEF ChainInv, RunsHold, OrchestratorTypeOK, V!LockTypeOK, L!TypeOK, Trees
<1>2. /\ InPlace(u, lock[r], call[r], bin, tree)
      /\ u.pc # "verify" => lock[r] = V!Fresh
      /\ u.pc # "recording" => call[r].pc = "idle"
  BY DEF ChainInv, CallsInStep, Places, InPlace
<1> SUFFICES Goal
  OBVIOUS
<1> HIDE DEF Goal
<1>3. ASSUME NEW q, run' = [run EXCEPT ![r] = q], UNCHANGED <<verifying, ledger>>,
             u.pc \notin {"verify", "recording"},
             q.pc \notin {"verify", "certify"},
             q.pc \in {"idle", "synthesize", "backup"} => q.backup = NoPatch,
             q.pc \in {"idle", "synthesize", "backup", "write", "header"} => q.hdrBackup = NoPatch,
             q.pc = "rollback_header" => tree'.src = q.backup
      PROVE  Goal
  BY <1>1, <1>2, <1>3 DEF InPlace, verifying, ledger, Goal
<1>4. CASE Gone(r)
  BY <1>1, <1>4 DEF Gone, L!Idle, InPlace, Goal
<1>5. ASSUME NEW f \in Findings, NEW force \in BOOLEAN, Begin(r, f, force)
      PROVE  Goal
  <2> DEFINE q == [u EXCEPT !.pc = "synthesize", !.finding = f, !.force = force, !.attempt = 1]
  <2>1. q.pc = "synthesize" /\ q.backup = u.backup /\ q.hdrBackup = u.hdrBackup
    BY <1>1 DEF RunStates
  <2>2. run' = [run EXCEPT ![r] = q] /\ UNCHANGED <<verifying, ledger>> /\ u.pc = "idle"
    BY <1>5 DEF Begin
  <2> HIDE DEF q
  <2> QED  BY <1>2, <1>3, <2>1, <2>2 DEF InPlace
<1>6. CASE Synthesize(r)
  <2>1. PICK p :
           LET read == [u EXCEPT !.base = tree.src, !.patch = p]
           IN  \/ /\ run' = [run EXCEPT ![r] = [read EXCEPT !.pc = "returned", !.state = "abandoned"]]
                  /\ UNCHANGED ledger
               \/ /\ run' = [run EXCEPT ![r] = [read EXCEPT !.pc = "recording", !.state = "pending_review"]]
                  /\ Log(r, "pending_review", p, "")
               \/ /\ run' = [run EXCEPT ![r] = [read EXCEPT !.pc = "backup"]]
                  /\ UNCHANGED ledger
    BY <1>6 DEF Synthesize
  <2> DEFINE read == [u EXCEPT !.base = tree.src, !.patch = p]
             q1 == [read EXCEPT !.pc = "returned", !.state = "abandoned"]
             q2 == [read EXCEPT !.pc = "recording", !.state = "pending_review"]
             q3 == [read EXCEPT !.pc = "backup"]
  <2>2. /\ q1.pc = "returned"
        /\ q2.pc = "recording" /\ q2.backup = u.backup
        /\ q3.pc = "backup" /\ q3.backup = u.backup /\ q3.hdrBackup = u.hdrBackup
    BY <1>1 DEF RunStates
  <2>3. \/ run' = [run EXCEPT ![r] = q1] /\ UNCHANGED ledger
        \/ run' = [run EXCEPT ![r] = q2] /\ Log(r, "pending_review", p, "")
        \/ run' = [run EXCEPT ![r] = q3] /\ UNCHANGED ledger
    BY <2>1
  <2> HIDE DEF q1, q2, q3
  <2>4. u.pc = "synthesize" /\ UNCHANGED <<tree, verifying>>
    BY <1>6 DEF Synthesize
  <2>5. CASE run' = [run EXCEPT ![r] = q2] /\ Log(r, "pending_review", p, "")
    <3>1. /\ run'[r] = q2
          /\ lock'[r] = V!Fresh
          /\ call'[r].payload.outcome = "pending_review"
          /\ call'[r].payload.sha = ""
      BY <1>1, <1>2, <2>4, <2>5 DEF Log, L!Call, verifying
    <3>2. u.backup = NoPatch
      BY <1>2, <2>4 DEF InPlace
    <3> QED  BY <2>2, <3>1, <3>2 DEF InPlace, Due, Goal
  <2>6. CASE run' = [run EXCEPT ![r] = q1] /\ UNCHANGED ledger
    BY <1>3, <2>2, <2>4, <2>6
  <2>7. CASE run' = [run EXCEPT ![r] = q3] /\ UNCHANGED ledger
    BY <1>2, <1>3, <2>2, <2>4, <2>7 DEF InPlace
  <2> QED  BY <2>3, <2>5, <2>6, <2>7
<1>7. CASE Backup(r)
  <2> DEFINE q == [u EXCEPT !.pc = "write", !.backup = tree.src]
  <2>1. q.pc = "write" /\ q.hdrBackup = u.hdrBackup
    BY <1>1 DEF RunStates
  <2>2. run' = [run EXCEPT ![r] = q] /\ UNCHANGED <<verifying, ledger>> /\ u.pc = "backup"
    BY <1>7 DEF Backup
  <2> HIDE DEF q
  <2> QED  BY <1>2, <1>3, <2>1, <2>2 DEF InPlace
<1>8. CASE Write(r)
  <2> DEFINE q == [u EXCEPT !.pc = "header"]
  <2>1. q.pc = "header" /\ q.hdrBackup = u.hdrBackup
    BY <1>1 DEF RunStates
  <2>2. run' = [run EXCEPT ![r] = q] /\ UNCHANGED <<verifying, ledger>> /\ u.pc = "write"
    BY <1>8 DEF Write
  <2> HIDE DEF q
  <2> QED  BY <1>2, <1>3, <2>1, <2>2 DEF InPlace
<1>9. CASE PatchHeader(r)
  <2>1. /\ run'[r].pc = "verify"
        /\ u.pc = "header"
        /\ lock' = lock
        /\ call' = call
    BY <1>1, <1>9 DEF PatchHeader, RunStates, verifying, ledger
  <2> QED  BY <1>2, <2>1, FreshStands DEF InPlace, Goal
<1>10. CASE Verify(r) \/ VerifyFails(r) \/ ThirdLockRaises(r)
  <2>1. /\ u.pc = "verify"
        /\ UNCHANGED <<tree, run, ledger>>
        /\ V!VerifyStep(r, tree) \/ V!VerifyFault(r)
    BY <1>10 DEF Verify, VerifyFails, ThirdLockRaises, V!VerifyFault
  <2>2. Standing(lock'[r], bin', tree)
    BY <1>2, <2>1, VerifierStands DEF ChainInv, InPlace
  <2> QED  BY <1>2, <2>1, <2>2 DEF ledger, InPlace, Goal
<1>11. CASE Verdict(r)
  <2>1. lock[r].status \in {"certified", "failed", "raised"}
    BY <1>11 DEF Verdict, V!Take, ChainInv, RunsHold, Judged
  <2>2. /\ u.pc = "verify"
        /\ UNCHANGED <<tree, ledger>>
        /\ lock'[r] = V!Fresh
        /\ \/ run' = [run EXCEPT ![r].pc = "certify"] /\ lock[r].status = "certified"
           \/ run' = [run EXCEPT ![r].pc = "rollback"]
           \/ run' = [run EXCEPT ![r].pc = "died"]
    BY <1>1, <1>11, <2>1 DEF Verdict, V!Take
  <2>3. /\ run'[r].pc \in {"certify", "rollback", "died"}
        /\ run'[r].pc = "certify" => tree \in Proven
    BY <1>1, <1>2, <2>2 DEF RunStates, InPlace, Standing
  <2> QED  BY <1>2, <2>2, <2>3 DEF ledger, InPlace, Goal
<1>12. CASE Certify(r)
  <2>1. /\ run'[r].pc = "recording"
        /\ lock'[r] = V!Fresh
        /\ call'[r].payload.outcome = "certified"
        /\ call'[r].payload.sha = tree.src
        /\ tree' = tree
        /\ tree \in Proven
    BY <1>1, <1>2, <1>12 DEF Certify, Log, L!Call, verifying, RunStates, InPlace
  <2> QED  BY <2>1 DEF InPlace, Due, Goal
<1>13. CASE RollBack(r)
  <2> DEFINE q == [u EXCEPT !.pc = "rollback_header"]
  <2>1. q.pc = "rollback_header" /\ q.backup = u.backup /\ tree'.src = u.backup
    BY <1>1, <1>13 DEF RunStates, RollBack, Trees
  <2>2. run' = [run EXCEPT ![r] = q] /\ UNCHANGED <<verifying, ledger>> /\ u.pc = "rollback"
    BY <1>13 DEF RollBack
  <2> HIDE DEF q
  <2> QED  BY <1>3, <2>1, <2>2
<1>14. CASE RollBackHeader(r)
  <2>1. /\ run'[r].pc = "recording"
        /\ run'[r].backup = u.backup
        /\ run'[r].hdrBackup = u.hdrBackup
        /\ lock'[r] = V!Fresh
        /\ call'[r].payload.outcome = "rejected"
        /\ call'[r].payload.sha = ""
        /\ tree.src = u.backup
    BY <1>1, <1>2, <1>14 DEF RollBackHeader, Log, L!Call, verifying, RunStates, InPlace
  <2>2. tree'.src = tree.src /\ u.hdrBackup \in {NoPatch, tree'.hdr}
    BY <1>1, <1>14 DEF RollBackHeader, Trees
  <2> QED  BY <2>1, <2>2 DEF InPlace, Due, Goal
<1>15. CASE Record(r) \/ (L!Raise(r) /\ UNCHANGED <<tree, run, verifying>>)
  <2>1. /\ call[r].pc \in {"select", "insert"}
        /\ call'[r].payload = call[r].payload
        /\ UNCHANGED <<tree, run, verifying>>
    BY <1>1, <1>15 DEF Record, L!Select, L!Insert, L!Raise, L!Finish
  <2> QED  BY <1>2, <2>1 DEF verifying, InPlace, Goal
<1>16. CASE Recorded(r)
  <2>1. /\ \/ run' = [run EXCEPT ![r] = NextAttempt(u)]
           \/ run' = [run EXCEPT ![r] = Finished(u)]
        /\ u.pc = "recording"
        /\ call' = [call EXCEPT ![r] = L!Idle]
        /\ UNCHANGED verifying
    BY <1>16 DEF Recorded, L!Return
  <2>2. /\ NextAttempt(u).pc = "synthesize"
        /\ NextAttempt(u).backup = NoPatch
        /\ NextAttempt(u).hdrBackup = NoPatch
        /\ Finished(u).pc = "returned"
    BY <1>1 DEF NextAttempt, Finished, RunStates
  <2>3. lock'[r] = V!Fresh /\ call'[r].pc = "idle"
    BY <1>1, <1>2, <2>1 DEF verifying, L!Idle
  <2> QED  BY <1>1, <2>1, <2>2, <2>3 DEF InPlace, Goal
<1>17. CASE /\ call[r].pc = "raised"
            /\ L!Return(r)
            /\ run' = [run EXCEPT ![r].pc = "died"]
            /\ UNCHANGED <<tree, verifying>>
  <2>1. run'[r].pc = "died" /\ lock'[r] = V!Fresh /\ call'[r].pc = "idle"
    BY <1>1, <1>2, <1>17 DEF RunStates, verifying, L!Return, L!Idle
  <2> QED  BY <2>1 DEF InPlace, Goal
<1> QED
  BY <1>4, <1>5, <1>6, <1>7, <1>8, <1>9, <1>10, <1>11, <1>12, <1>13, <1>14, <1>15, <1>16, <1>17
     DEF StepOf, Step, Fault, ApplyRaises, Die, RecordRaises

\* So do the others, which rest.
LEMMA PlacesStep ==
    ASSUME ChainInv, Places, NEW r \in Runs, Alone(r), StepOf(r)
    PROVE  Places'
<1>1. ASSUME NEW u \in Runs \ {r}
      PROVE  InPlace(run'[u], lock'[u], call'[u], bin', tree')
  <2>1. run'[u] = run[u] /\ run[u].pc \in {"idle", "returned", "died"}
    BY SoloStep DEF ChainInv, Alone, Active
  <2>2. call'[u].pc = "idle"
    BY <2>1, CallsStep DEF ChainInv, CallsInStep
  <2>3. lock'[u] = lock[u]
    <3>1. PICK l \in Judged : lock' = [lock EXCEPT ![r] = l]
      BY PartsStep DEF ChainInv
    <3> QED  BY <3>1 DEF ChainInv, RunsHold, OrchestratorTypeOK, V!LockTypeOK
  <2>4. InPlace(run[u], lock[u], call[u], bin, tree)
    BY DEF Places
  <2> QED  BY <2>1, <2>2, <2>3, <2>4 DEF InPlace
<1> QED  BY <1>1, OwnPlace DEF Places

\* What the promise rests on.
LoopInv == ChainInv /\ Places /\ CertifiedRowsAreProven

\* The row a run inserts, and the table it makes of the one before.
LEMMA RowIsAdded ==
    ASSUME LoopInv, NEW r \in Runs, L!Insert(r)
    PROVE  LET p == call[r].payload
           IN  /\ Due(run[r], p, tree)
               /\ rows \in Seq(L!Rows)
               /\ rows' = Append(rows, L!NewRow(call[r]))
               /\ L!NewRow(call[r]) \in L!Rows
               /\ L!NewRow(call[r]).payload = p
               /\ Len(rows) \in Nat
               /\ DOMAIN rows = 1 .. Len(rows)
               /\ DOMAIN rows' = 1 .. Len(rows) + 1
               /\ \A i \in 1 .. Len(rows) : rows'[i] = rows[i]
               /\ rows'[Len(rows) + 1] = L!NewRow(call[r])
<1>1. call[r].pc = "insert" /\ rows' = Append(rows, L!NewRow(call[r]))
  BY DEF L!Insert
<1>2. /\ rows \in Seq(L!Rows)
      /\ L!NewRow(call[r]) \in L!Rows
      /\ Len(rows) \in Nat
      /\ DOMAIN rows = 1 .. Len(rows)
  BY <1>1, LedgerRows DEF LoopInv, ChainInv, RunsHold, OrchestratorTypeOK, L!TypeOK
<1>3. Due(run[r], call[r].payload, tree)
  BY <1>1 DEF LoopInv, Places, InPlace
<1>4. L!NewRow(call[r]).payload = call[r].payload
  BY DEF L!NewRow
<1> QED  BY <1>1, <1>2, <1>3, <1>4, AppendProperties, LenProperties

\* A step of the one run in progress keeps all of it.
LEMMA LoopStep ==
    ASSUME LoopInv, NEW r \in Runs, Alone(r), StepOf(r)
    PROVE  LoopInv'
<1>1. ChainInv' /\ Places'
  BY ChainStep, PlacesStep DEF LoopInv
<1>2. UNCHANGED rows \/ L!Insert(r)
  BY LedgerMovesStep
     DEF LoopInv, ChainInv, CallsInStep, LedgerMoves, ledger, L!Call, L!Select, L!Raise
<1>3. CASE UNCHANGED rows
  BY <1>1, <1>3 DEF LoopInv, CertifiedRowsAreProven, Proven
<1>4. CASE L!Insert(r)
  <2>1. ASSUME NEW i \in DOMAIN rows', rows'[i].payload.outcome = "certified"
        PROVE  \E t \in Proven : t.src = rows'[i].payload.sha
    <3>1. i \in 1 .. Len(rows) \/ i = Len(rows) + 1
      BY <1>4, RowIsAdded
    <3>2. CASE i \in 1 .. Len(rows)
      BY <1>4, <2>1, <3>2, RowIsAdded DEF LoopInv, CertifiedRowsAreProven
    <3>3. CASE i = Len(rows) + 1
      BY <1>4, <2>1, <3>3, RowIsAdded DEF Due
    <3> QED  BY <3>1, <3>2, <3>3
  <2> QED  BY <1>1, <2>1 DEF LoopInv, CertifiedRowsAreProven, Proven
<1> QED  BY <1>2, <1>3, <1>4

\* At first nothing is recorded.
LEMMA LoopInit == Init => LoopInv
<1> SUFFICES ASSUME Init
             PROVE  LoopInv
  OBVIOUS
<1>1. Places
  <2> SUFFICES ASSUME NEW r \in Runs
               PROVE  InPlace(run[r], lock[r], call[r], bin, tree)
    BY DEF Places
  <2> QED  BY DEF Init, L!Init, L!Idle, Ready, InPlace
<1>2. CertifiedRowsAreProven
  BY EmptySeq DEF Init, L!Init, CertifiedRowsAreProven
<1> QED  BY <1>1, <1>2, ChainInit DEF LoopInv

\* The invariant of runs that follow one another.
LEMMA LoopInvariant == CrashSpec => []LoopInv
<1>1. LoopInv /\ UNCHANGED vars => LoopInv'
  <2> SUFFICES ASSUME LoopInv, UNCHANGED vars
               PROVE  LoopInv'
    OBVIOUS
  <2>1. RunsHold'
    BY Stutter DEF LoopInv, ChainInv
  <2>2. Solo' /\ CallsInStep'
    BY DEF LoopInv, ChainInv, vars, Solo, Active, CallsInStep, L!LastHash, L!GenesisHash
  <2>3. ChainHolds'
    BY DEF LoopInv, ChainInv, vars, ChainHolds, L!VerifyChain, L!Linked, L!Rehashed, L!ExpectedPrev
  <2>4. Places'
    BY DEF LoopInv, vars, Places
  <2>5. CertifiedRowsAreProven'
    BY DEF LoopInv, vars, CertifiedRowsAreProven, Proven
  <2> QED  BY <2>1, <2>2, <2>3, <2>4, <2>5 DEF LoopInv, ChainInv
<1>2. LoopInv /\ [CrashNext]_vars => LoopInv'
  BY <1>1, NextIsStep, LoopStep
<1> QED  BY <1>2, LoopInit, PTL DEF CrashSpec

\* Runs that follow one another certify only what passes the locks: wherever
\* a run is killed or a call raises, a certified row names a source that does
\* with some header.
THEOREM OnlyProvenIsCertified == CrashSpec => []CertifiedRowsAreProven
<1>1. LoopInv => CertifiedRowsAreProven
  BY DEF LoopInv
<1> QED  BY <1>1, LoopInvariant, PTL

\* Runs that follow one another keep the chain of the audit ledger, wherever
\* one of them is killed or left by an exception.
THEOREM ChainSurvivesCrashes == CrashSpec => []ChainHolds
<1>1. LoopInv => ChainHolds
  BY DEF LoopInv, ChainInv
<1> QED  BY <1>1, LoopInvariant, PTL

\* The types hold too when runs are cut short.
THEOREM CrashTypeCorrect == CrashSpec => []OrchestratorTypeOK
<1>1. LoopInv => OrchestratorTypeOK
  BY DEF LoopInv, ChainInv, RunsHold
<1> QED  BY <1>1, LoopInvariant, PTL

-----------------------------------------------------------------------------
(* The refinement: what the loop promises of the source.                   *)

\* The tree in effect, when only run q, with call c, may be in progress.
InEffect(q, c, t) ==
    IF q.pc \notin {"idle", "returned", "died"} /\ q.backup # NoPatch /\ c.pc # "returned"
    THEN [src |-> q.backup,
          hdr |-> IF q.hdrBackup = NoPatch THEN t.hdr ELSE q.hdrBackup]
    ELSE t

\* There is no choice of the run to which the loop would roll back.
LEMMA ReleasedIs ==
    ASSUME NEW r \in Runs, Alone(r)
    PROVE  Released = InEffect(run[r], call[r], tree)
<1> DEFINE Pending(v) == Active(v) /\ Unsettled(v)
<1>1. \A v \in Runs : Pending(v) => v = r
  BY DEF Alone
<1>2. CASE Pending(r)
  <2>1. (CHOOSE v \in Runs : Pending(v)) = r
    BY <1>1, <1>2
  <2> QED  BY <1>2, <2>1 DEF Released, InEffect, Active, Unsettled
<1>3. CASE ~Pending(r)
  <2>1. ~ \E v \in Runs : Pending(v)
    BY <1>1, <1>3
  <2> QED  BY <1>3, <2>1 DEF Released, InEffect, Active, Unsettled
<1> QED  BY <1>2, <1>3

\* The same after a step.
LEMMA ReleasedBecomes ==
    ASSUME NEW r \in Runs, Alone(r)'
    PROVE  Released' = InEffect(run'[r], call'[r], tree')
<1> DEFINE Pending(v) == Active(v)' /\ Unsettled(v)'
<1>1. \A v \in Runs : Pending(v) => v = r
  BY DEF Alone
<1>2. CASE Pending(r)
  <2>1. (CHOOSE v \in Runs : Pending(v)) = r
    BY <1>1, <1>2
  <2> QED  BY <1>2, <2>1 DEF Released, InEffect, Active, Unsettled
<1>3. CASE ~Pending(r)
  <2>1. ~ \E v \in Runs : Pending(v)
    BY <1>1, <1>3
  <2> QED  BY <1>3, <2>1 DEF Released, InEffect, Active, Unsettled
<1> QED  BY <1>2, <1>3

\* A step that inserts no row, and in which its run does not die, leaves the
\* tree in effect as it is.
LEMMA EffectStays ==
    ASSUME LoopInv, NEW r \in Runs, StepOf(r), run'[r].pc # "died", ~L!Insert(r)
    PROVE  InEffect(run'[r], call'[r], tree') = InEffect(run[r], call[r], tree)
<1> DEFINE u == run[r]
           Goal == InEffect(run'[r], call'[r], tree') = InEffect(u, call[r], tree)
<1>1. /\ run \in [Runs -> RunStates]
      /\ u \in RunStates
      /\ call \in [Runs -> L!Calls]
      /\ tree \in Trees
      /\ tree = [src |-> tree.src, hdr |-> tree.hdr]
      /\ tree.src \in Sources /\ tree.hdr \in Headers
      /\ tree.src # NoPatch /\ tree.hdr # NoPatch
      /\ u.pc \in Applied => u.backup \in Sources
  BY OrchestratorAssumption
     DEF LoopInv, ChainInv, RunsHold, OrchestratorTypeOK, L!TypeOK, Trees
<1>2. /\ InPlace(u, lock[r], call[r], bin, tree)
      /\ u.pc # "recording" => call[r].pc = "idle"
  BY DEF LoopInv, ChainInv, CallsInStep, Places
<1> SUFFICES Goal
  OBVIOUS
<1> HIDE DEF Goal
<1>3. ASSUME NEW pc, u.pc \in Applied, pc \in Applied, run' = [run EXCEPT ![r].pc = pc],
             UNCHANGED ledger,
             tree' = [tree EXCEPT !.src = tree'.src]
      PROVE  Goal
  <2>1. run'[r].pc = pc /\ run'[r].backup = u.backup /\ run'[r].hdrBackup = u.hdrBackup
    BY <1>1, <1>3 DEF RunStates
  <2>2. tree'.hdr = tree.hdr /\ call' = call
    BY <1>1, <1>3 DEF Trees, ledger
  <2>3. u.backup # NoPatch /\ call[r].pc = "idle"
    BY <1>1, <1>2, <1>3, OrchestratorAssumption DEF Applied
  <2> QED  BY <1>3, <2>1, <2>2, <2>3 DEF InEffect, Applied, Goal
<1>4. tree = [tree EXCEPT !.src = tree.src]
  BY <1>1 DEF Trees
<1>5. ASSUME NEW f \in Findings, NEW force \in BOOLEAN, Begin(r, f, force)
      PROVE  Goal
  <2>1. /\ u.pc = "idle" /\ u.backup = NoPatch
        /\ run'[r].backup = u.backup
        /\ tree' = tree
    BY <1>1, <1>2, <1>5 DEF Begin, RunStates, InPlace
  <2> QED  BY <2>1 DEF InEffect, Goal
<1>6. CASE Synthesize(r)
  <2>1. PICK p :
           LET read == [u EXCEPT !.base = tree.src, !.patch = p]
           IN  \/ run' = [run EXCEPT ![r] = [read EXCEPT !.pc = "returned", !.state = "abandoned"]]
               \/ run' = [run EXCEPT ![r] = [read EXCEPT !.pc = "recording", !.state = "pending_review"]]
               \/ run' = [run EXCEPT ![r] = [read EXCEPT !.pc = "backup"]]
    BY <1>6 DEF Synthesize
  <2> DEFINE read == [u EXCEPT !.base = tree.src, !.patch = p]
             q1 == [read EXCEPT !.pc = "returned", !.state = "abandoned"]
             q2 == [read EXCEPT !.pc = "recording", !.state = "pending_review"]
             q3 == [read EXCEPT !.pc = "backup"]
  <2>2. run'[r].backup = u.backup
    <3>1. q1.backup = u.backup /\ q2.backup = u.backup /\ q3.backup = u.backup
      BY <1>1 DEF RunStates
    <3>2. run'[r] = q1 \/ run'[r] = q2 \/ run'[r] = q3
      BY <1>1, <2>1
    <3> HIDE DEF q1, q2, q3
    <3> QED  BY <3>1, <3>2
  <2>3. u.backup = NoPatch /\ tree' = tree
    BY <1>2, <1>6 DEF Synthesize, InPlace
  <2> QED  BY <2>2, <2>3 DEF InEffect, Goal
<1>7. CASE Backup(r)
  <2>1. /\ run'[r].pc = "write"
        /\ run'[r].backup = tree.src
        /\ run'[r].hdrBackup = u.hdrBackup
        /\ tree' = tree /\ call' = call /\ u.pc = "backup"
    BY <1>1, <1>7 DEF Backup, RunStates, ledger
  <2>2. u.backup = NoPatch /\ u.hdrBackup = NoPatch /\ call[r].pc = "idle"
    BY <1>2, <2>1 DEF InPlace
  <2>3. InEffect(run'[r], call'[r], tree') = [src |-> tree.src, hdr |-> tree.hdr]
    BY <1>1, <2>1, <2>2 DEF InEffect
  <2>4. InEffect(u, call[r], tree) = tree
    BY <2>2 DEF InEffect
  <2> QED  BY <1>1, <2>3, <2>4 DEF Goal
<1>8. CASE Write(r)
  <2>1. /\ u.pc = "write" /\ UNCHANGED ledger
        /\ run' = [run EXCEPT ![r].pc = "header"]
        /\ \E s : tree' = [tree EXCEPT !.src = s]
    BY <1>8 DEF Write
  <2>2. tree' = [tree EXCEPT !.src = tree'.src]
    BY <1>1, <2>1 DEF Trees
  <2> QED  BY <1>3, <2>1, <2>2 DEF Applied
<1>9. CASE PatchHeader(r)
  <2>1. u.pc = "header" /\ UNCHANGED ledger
    BY <1>9 DEF PatchHeader
  <2>2. CASE Companion[tree.hdr] = NoPatch
    BY <1>3, <1>4, <1>9, <2>1, <2>2 DEF PatchHeader, Applied
  <2>3. CASE Companion[tree.hdr] # NoPatch
    <3>1. /\ run'[r].pc = "verify"
          /\ run'[r].backup = u.backup
          /\ run'[r].hdrBackup = tree.hdr
          /\ call' = call
      BY <1>1, <1>9, <2>3 DEF PatchHeader, RunStates, ledger
    <3>2. u.hdrBackup = NoPatch /\ call[r].pc = "idle" /\ u.backup # NoPatch
      BY <1>1, <1>2, <2>1, OrchestratorAssumption DEF InPlace, Applied
    <3> QED  BY <1>1, <2>1, <3>1, <3>2 DEF InEffect, Goal
  <2> QED  BY <2>2, <2>3
<1>10. CASE Verify(r) \/ VerifyFails(r) \/ ThirdLockRaises(r)
  BY <1>10 DEF Verify, VerifyFails, ThirdLockRaises, ledger, Goal
<1>11. CASE Verdict(r)
  <2>1. lock[r].status \in {"certified", "failed", "raised"}
    BY <1>11 DEF Verdict, V!Take, LoopInv, ChainInv, RunsHold, Judged
  <2>2. /\ u.pc = "verify"
        /\ tree' = tree
        /\ UNCHANGED ledger
        /\ \/ run' = [run EXCEPT ![r].pc = "certify"]
           \/ run' = [run EXCEPT ![r].pc = "rollback"]
           \/ run' = [run EXCEPT ![r].pc = "died"]
    BY <1>11, <2>1 DEF Verdict
  <2>3. run' # [run EXCEPT ![r].pc = "died"]
    BY <1>1 DEF RunStates
  <2> QED  BY <1>3, <1>4, <2>2, <2>3 DEF Applied
<1>12. CASE Certify(r)
  <2>1. /\ u.pc = "certify" /\ run'[r].pc = "recording"
        /\ run'[r].backup = u.backup
        /\ run'[r].hdrBackup = u.hdrBackup
        /\ call[r].pc = "idle" /\ call'[r].pc = "select"
        /\ tree' = tree
    BY <1>1, <1>2, <1>12 DEF Certify, Log, L!Call, RunStates
  <2> QED  BY <2>1 DEF InEffect, Goal
<1>13. CASE RollBack(r)
  <2>1. /\ u.pc = "rollback" /\ UNCHANGED ledger
        /\ run' = [run EXCEPT ![r].pc = "rollback_header"]
        /\ tree' = [tree EXCEPT !.src = u.backup]
    BY <1>13 DEF RollBack
  <2>2. tree' = [tree EXCEPT !.src = tree'.src]
    BY <1>1, <2>1 DEF Trees
  <2> QED  BY <1>3, <2>1, <2>2 DEF Applied
<1>14. CASE RollBackHeader(r)
  <2>1. /\ u.pc = "rollback_header" /\ run'[r].pc = "recording"
        /\ run'[r].backup = u.backup
        /\ run'[r].hdrBackup = u.hdrBackup
        /\ call[r].pc = "idle" /\ call'[r].pc = "select"
        /\ u.hdrBackup = NoPatch => tree' = tree
    BY <1>1, <1>2, <1>14 DEF RollBackHeader, Log, L!Call, RunStates
  <2>2. u.backup # NoPatch
    BY <1>1, <2>1, OrchestratorAssumption DEF Applied
  <2> QED  BY <2>1, <2>2 DEF InEffect, Goal
<1>15. CASE (L!Select(r) \/ L!Raise(r)) /\ UNCHANGED <<tree, run, verifying>>
  <2>1. call[r].pc # "returned" /\ call'[r].pc # "returned"
    BY <1>1, <1>15 DEF L!Select, L!Raise, L!Finish
  <2> QED  BY <1>15, <2>1 DEF InEffect, Goal
<1>16. CASE Recorded(r)
  <2>1. /\ \/ run'[r] = NextAttempt(u)
           \/ run'[r] = Finished(u)
        /\ call[r].pc = "returned"
        /\ tree' = tree
    BY <1>1, <1>16 DEF Recorded
  <2>2. NextAttempt(u).backup = NoPatch /\ Finished(u).backup = NoPatch
    BY <1>1 DEF NextAttempt, Finished, RunStates
  <2> QED  BY <2>1, <2>2 DEF InEffect, Goal
<1>17. CASE Gone(r) \/ run' = [run EXCEPT ![r].pc = "died"]
  BY <1>1, <1>17 DEF Gone, RunStates
<1> QED
  BY <1>5, <1>6, <1>7, <1>8, <1>9, <1>10, <1>11, <1>12, <1>13, <1>14, <1>15, <1>16, <1>17
     DEF StepOf, Step, Fault, Record, ApplyRaises, Die, RecordRaises

\* The row that a run inserts releases the tree that its locks have passed, or
\* refuses the patch and leaves the tree in effect on disk.
LEMMA InsertDecides ==
    ASSUME LoopInv, NEW r \in Runs, Alone(r), StepOf(r), L!Insert(r)
    PROVE  Promise!Next
<1> DEFINE u == run[r]
           p == call[r].payload
<1>1. /\ Due(u, p, tree)
      /\ rows' = Append(rows, L!NewRow(call[r]))
      /\ L!NewRow(call[r]).payload = p
      /\ Len(rows) \in Nat
      /\ DOMAIN rows = 1 .. Len(rows)
      /\ DOMAIN rows' = 1 .. Len(rows) + 1
      /\ \A i \in 1 .. Len(rows) : rows'[i] = rows[i]
      /\ rows'[Len(rows) + 1] = L!NewRow(call[r])
  BY RowIsAdded
<1>2. /\ tree = [src |-> tree.src, hdr |-> tree.hdr]
      /\ tree.src # NoPatch
      /\ u.pc = "recording"
      /\ call \in [Runs -> L!Calls]
      /\ call[r].pc = "insert"
  BY OrchestratorAssumption
     DEF LoopInv, ChainInv, RunsHold, OrchestratorTypeOK, L!TypeOK, Trees, CallsInStep, L!Insert
<1>3. run' = run /\ tree' = tree /\ call'[r].pc = "returned"
  <2>1. call'[r].pc = "returned"
    BY <1>2 DEF L!Insert, L!Finish
  <2>2. LedgerMoves(r)
    BY LedgerMovesStep DEF LoopInv, ChainInv, CallsInStep
  <2>3. rows' # rows
    <3>1. Len(rows) + 1 \in 1 .. Len(rows) + 1 /\ Len(rows) + 1 \notin 1 .. Len(rows)
      BY <1>1
    <3> QED  BY <1>1, <3>1
  <2>4. run' = run
    BY <2>2, <2>3, <1>2 DEF LedgerMoves, ledger, L!Call
  <2>5. tree' = tree
    <3>1. tree' # tree => run'[r] # run[r]
      BY FilesChange DEF LoopInv, ChainInv
    <3> QED  BY <2>4, <3>1
  <2> QED  BY <2>1, <2>4, <2>5
<1>4. Released' = tree
  BY <1>3, SoloStep, ReleasedBecomes DEF LoopInv, ChainInv, Alone, Active, InEffect
<1>5. ~(p.outcome = "certified") => Released = tree
  BY <1>1, <1>2, ReleasedIs DEF InEffect, Due
<1>6. DecisionLog' = Append(DecisionLog, [outcome |-> p.outcome, sha |-> p.sha])
  <2> DEFINE entry == [outcome |-> p.outcome, sha |-> p.sha]
             at(w) == [outcome |-> w.payload.outcome, sha |-> w.payload.sha]
  <2>1. DecisionLog = [i \in 1 .. Len(rows) |-> at(rows[i])]
    BY <1>1 DEF DecisionLog
  <2>2. DecisionLog' = [i \in 1 .. Len(rows) + 1 |-> at(rows'[i])]
    BY <1>1 DEF DecisionLog
  <2>3. at(rows'[Len(rows) + 1]) = entry
    BY <1>1
  <2>4. Len(DecisionLog) = Len(rows)
    BY <1>1, <2>1
  <2> HIDE DEF at, entry
  <2>5. Append(DecisionLog, entry) =
          [i \in 1 .. Len(rows) + 1 |-> IF i = Len(rows) + 1 THEN entry ELSE DecisionLog[i]]
    BY <1>1, <2>1, <2>4
  <2>6. ASSUME NEW i \in 1 .. Len(rows) + 1
        PROVE  at(rows'[i]) = IF i = Len(rows) + 1 THEN entry ELSE DecisionLog[i]
    BY <1>1, <2>1, <2>3, <2>6
  <2> QED  BY <2>2, <2>5, <2>6 DEF entry
<1>7. CASE p.outcome = "certified"
  <2>1. tree \in Proven /\ p.sha = tree.src
    BY <1>1, <1>7 DEF Due
  <2>2. Promise!Release
    BY <1>4, <1>6, <1>7, <2>1 DEF Promise!Release
  <2> QED  BY <2>2 DEF Promise!Next
<1>8. CASE p.outcome # "certified"
  <2>1. p.outcome \in {"rejected", "pending_review"} /\ p.sha = ""
    BY <1>1, <1>8 DEF Due
  <2>2. Promise!Refuse
    BY <1>4, <1>5, <1>6, <1>8, <2>1 DEF Promise!Refuse
  <2> QED  BY <2>2 DEF Promise!Next
<1> QED  BY <1>7, <1>8

\* A step that inserts no row is none of the promise.
LEMMA OtherStepsStutter ==
    ASSUME LoopInv, NEW r \in Runs, Alone(r), StepOf(r), run'[r].pc # "died", ~L!Insert(r)
    PROVE  UNCHANGED <<Released, DecisionLog>>
<1>1. Released' = Released
  <2>1. Alone(r)'
    BY SoloStep DEF LoopInv, ChainInv, Alone, Active
  <2> QED  BY <2>1, ReleasedIs, ReleasedBecomes, EffectStays
<1>2. rows' = rows
  BY LedgerMovesStep
     DEF LoopInv, ChainInv, CallsInStep, LedgerMoves, ledger, L!Call, L!Select, L!Raise
<1> QED  BY <1>1, <1>2 DEF DecisionLog

\* Runs that follow one another keep the promise: until one of them dies, the
\* source and its header change only to a proven pair that a certified record
\* names, and every other decision leaves both as they were.
THEOREM LoopKeepsPromise == CrashSpec => SourceStaysProven
<1>1. Init => Promise!Init
  <2> SUFFICES ASSUME Init
               PROVE  Promise!Init
    OBVIOUS
  <2>1. Released = tree
    BY DEF Init, Ready, Released, Active, Unsettled
  <2>2. tree \in Trees
    BY OrchestratorAssumption DEF Init, Trees
  <2>3. DecisionLog = << >>
    BY DEF Init, L!Init, DecisionLog
  <2> QED  BY <2>1, <2>2, <2>3 DEF Promise!Init
<1>2. LoopInv /\ [CrashNext]_vars => [~Died' => [Promise!Next]_<<Released, DecisionLog>>]_vars
  <2> SUFFICES ASSUME LoopInv, CrashNext, ~Died'
               PROVE  [Promise!Next]_<<Released, DecisionLog>>
    OBVIOUS
  <2>1. PICK r \in Runs : Alone(r) /\ StepOf(r)
    BY NextIsStep
  <2>2. run'[r].pc # "died"
    BY DEF Died
  <2> QED  BY <2>1, <2>2, InsertDecides, OtherStepsStutter
<1> QED  BY <1>1, <1>2, LoopInvariant, PTL DEF CrashSpec, SourceStaysProven

\* Whoever takes a step has not died.
LEMMA TheDeadRest ==
    ASSUME LoopInv, NEW r \in Runs, StepOf(r)
    PROVE  run[r].pc # "died"
<1>1. call[r].pc # "idle" => run[r].pc = "recording"
  BY DEF LoopInv, ChainInv, CallsInStep
<1>2. Step(r) => run[r].pc # "died"
  BY DEF Step, Synthesize, Backup, Write, ApplyRaises, PatchHeader, Verify, Verdict, Certify,
         RollBack, RollBackHeader, Record, Recorded
<1>3. Fault(r) => run[r].pc # "died"
  BY <1>1 DEF Fault, Die, Active, VerifyFails, ThirdLockRaises, RecordRaises, L!Raise
<1> QED  BY <1>2, <1>3 DEF StepOf, Begin

\* The tree in effect is the first one, or a certified row accounts for it.
Accounted ==
    \/ Released \in InitTrees
    \/ \E i \in DOMAIN DecisionLog : /\ DecisionLog[i].outcome = "certified"
                                     /\ DecisionLog[i].sha = Released.src

\* What the promise allows keeps it accounted for.
LEMMA AccountedStep ==
    ASSUME LoopInv, Accounted, [Promise!Next]_<<Released, DecisionLog>>
    PROVE  Accounted'
<1>1. DecisionLog \in Seq({[outcome |-> rows[i].payload.outcome, sha |-> rows[i].payload.sha] :
                              i \in DOMAIN rows})
  <2>1. DOMAIN rows = 1 .. Len(rows) /\ Len(rows) \in Nat
    BY LedgerRows DEF LoopInv, ChainInv, RunsHold, OrchestratorTypeOK
  <2> QED  BY <2>1 DEF DecisionLog
<1>2. ASSUME NEW e, DecisionLog' = Append(DecisionLog, e)
      PROVE  /\ DOMAIN DecisionLog' = 1 .. Len(DecisionLog) + 1
             /\ DecisionLog'[Len(DecisionLog) + 1] = e
             /\ \A i \in DOMAIN DecisionLog : i \in DOMAIN DecisionLog' /\ DecisionLog'[i] = DecisionLog[i]
             /\ Len(DecisionLog) + 1 \in DOMAIN DecisionLog'
  BY <1>1, <1>2
<1>3. CASE Promise!Release
  <2>1. PICK t \in Proven : /\ Released' = t
                            /\ DecisionLog' = Append(DecisionLog, [outcome |-> "certified", sha |-> t.src])
    BY <1>3 DEF Promise!Release
  <2> QED  BY <1>2, <2>1 DEF Accounted
<1>4. CASE Promise!Refuse
  <2>1. PICK how \in {"rejected", "pending_review"} :
           DecisionLog' = Append(DecisionLog, [outcome |-> how, sha |-> ""])
    BY <1>4 DEF Promise!Refuse
  <2>2. Released' = Released
    BY <1>4 DEF Promise!Refuse
  <2> QED  BY <1>2, <2>1, <2>2 DEF Accounted
<1>5. CASE UNCHANGED <<Released, DecisionLog>>
  BY <1>5 DEF Accounted
<1> QED  BY <1>3, <1>4, <1>5 DEF Promise!Next

\* Only death leaves a source that nothing accounts for: once every run has
\* returned, after whatever faults, the source is the first one or one that a
\* certified row names.
THEOREM ReturnsSettle == CrashSpec => []OnlyDeathUnsettles
<1> DEFINE Inv == LoopInv /\ (~Died => Accounted)
<1>1. Init => Inv
  <2> SUFFICES ASSUME Init
               PROVE  Inv
    OBVIOUS
  <2>1. Released = tree
    BY DEF Init, Ready, Released, Active, Unsettled
  <2> QED  BY <2>1, LoopInit DEF Init, Accounted
<1>2. LoopInv /\ LoopInv' /\ (~Died => Accounted) /\ [CrashNext]_vars => (~Died => Accounted)'
  <2> SUFFICES ASSUME LoopInv, ~Died => Accounted, [CrashNext]_vars, ~Died'
               PROVE  Accounted'
    OBVIOUS
  <2>1. CASE UNCHANGED vars
    BY <2>1 DEF vars, Died, Accounted, Released, DecisionLog, Active, Unsettled
  <2>2. CASE CrashNext
    <3>1. PICK r \in Runs : Alone(r) /\ StepOf(r)
      BY <2>2, NextIsStep
    <3>2. ~Died
      BY <3>1, SoloStep, TheDeadRest DEF LoopInv, ChainInv, Died
    <3>3. [Promise!Next]_<<Released, DecisionLog>>
      BY <3>1, InsertDecides, OtherStepsStutter DEF Died
    <3> QED  BY <3>2, <3>3, AccountedStep
  <2> QED  BY <2>1, <2>2
<1>3. (~Died => Accounted) => OnlyDeathUnsettles
  <2> SUFFICES ASSUME ~Died => Accounted, ~Died, AtRest
               PROVE  \/ tree \in InitTrees
                      \/ \E i \in DOMAIN rows : /\ rows[i].payload.outcome = "certified"
                                                /\ rows[i].payload.sha = tree.src
    BY DEF OnlyDeathUnsettles, SourceIsSettled, Died
  <2>1. Released = tree
    BY DEF AtRest, Released
  <2> QED  BY <2>1 DEF Accounted, DecisionLog
<1>4. CrashSpec => [](~Died => Accounted)
  BY <1>1, <1>2, LoopInvariant, PTL DEF CrashSpec
<1> QED  BY <1>3, <1>4, PTL

-----------------------------------------------------------------------------
(* Every decision of a run is logged, whatever other runs and faults do.   *)

\* A row of another run leaves what is logged of this one.
LEMMA OthersRow ==
    ASSUME NEW table \in Seq(L!Rows), NEW row \in L!Rows, NEW r, NEW outcomes,
           row.payload.run # r,
           LoggedIn(table, r, outcomes)
    PROVE  LoggedIn(Append(table, row), r, outcomes)
<1> DEFINE more == Append(table, row)
           Own(t) == {i \in DOMAIN t : t[i].payload.run = r}
<1>1. /\ DOMAIN table = 1 .. Len(table)
      /\ DOMAIN more = 1 .. Len(table) + 1
      /\ Len(table) \in Nat
      /\ \A i \in DOMAIN table : more[i] = table[i]
      /\ more[Len(table) + 1] = row
  BY AppendProperties, LenProperties
<1> HIDE DEF more
<1>2. Own(more) = Own(table) /\ \A i \in Own(table) : more[i] = table[i]
  BY <1>1
<1>3. PICK at \in [DOMAIN outcomes -> Own(table)] :
         /\ \A i, j \in DOMAIN outcomes : i < j => at[i] < at[j]
         /\ \A k \in DOMAIN table :
               table[k].payload.run = r => \E i \in DOMAIN outcomes : at[i] = k
         /\ \A i \in DOMAIN outcomes : table[at[i]].payload.outcome = outcomes[i]
  BY DEF LoggedIn
<1>4. at \in [DOMAIN outcomes -> Own(more)]
  BY <1>2, <1>3
<1>5. \A k \in DOMAIN more : more[k].payload.run = r => \E i \in DOMAIN outcomes : at[i] = k
  <2>1. \A k \in Own(table) : \E i \in DOMAIN outcomes : at[i] = k
    BY <1>3
  <2>2. \A k \in DOMAIN more : more[k].payload.run = r => k \in Own(table)
    BY <1>2
  <2> HIDE DEF Own
  <2> QED  BY <2>1, <2>2
<1>6. \A i \in DOMAIN outcomes : more[at[i]].payload.outcome = outcomes[i]
  <2>1. \A i \in DOMAIN outcomes : at[i] \in Own(table)
    BY <1>3
  <2> HIDE DEF Own
  <2> QED  BY <1>2, <1>3, <2>1
<1> QED  BY <1>3, <1>4, <1>5, <1>6 DEF LoggedIn, more

\* A row of its own is its next decision.
LEMMA OwnRow ==
    ASSUME NEW table \in Seq(L!Rows), NEW row \in L!Rows, NEW r, NEW n \in Nat \ {0},
           row.payload.run = r,
           LoggedIn(table, r, Attempts(n - 1, "rejected"))
    PROVE  LoggedIn(Append(table, row), r, Attempts(n, row.payload.outcome))
<1> DEFINE more == Append(table, row)
           last == row.payload.outcome
           Own(t) == {i \in DOMAIN t : t[i].payload.run = r}
           old == Attempts(n - 1, "rejected")
           new == Attempts(n, last)
<1>1. /\ DOMAIN table = 1 .. Len(table)
      /\ DOMAIN more = 1 .. Len(table) + 1
      /\ Len(table) \in Nat
      /\ \A i \in DOMAIN table : more[i] = table[i]
      /\ more[Len(table) + 1] = row
  BY AppendProperties, LenProperties
<1>2. /\ DOMAIN old = 1 .. n - 1 /\ \A i \in 1 .. n - 1 : old[i] = "rejected"
      /\ DOMAIN new = 1 .. n /\ \A i \in 1 .. n - 1 : new[i] = "rejected"
      /\ new[n] = last
  BY DEF Attempts
<1> HIDE DEF more, last, old, new
<1>3. PICK at \in [1 .. n - 1 -> Own(table)] :
         /\ \A i, j \in 1 .. n - 1 : i < j => at[i] < at[j]
         /\ \A k \in DOMAIN table : table[k].payload.run = r => \E i \in 1 .. n - 1 : at[i] = k
         /\ \A i \in 1 .. n - 1 : table[at[i]].payload.outcome = old[i]
  <2>1. LoggedIn(table, r, old)
    BY DEF old
  <2>2. PICK at \in [DOMAIN old -> Own(table)] :
           /\ \A i, j \in DOMAIN old : i < j => at[i] < at[j]
           /\ \A k \in DOMAIN table : table[k].payload.run = r => \E i \in DOMAIN old : at[i] = k
           /\ \A i \in DOMAIN old : table[at[i]].payload.outcome = old[i]
    BY <2>1, Zenon DEF LoggedIn
  <2>3. DOMAIN old = 1 .. n - 1
    BY <1>2
  <2> HIDE DEF Own
  <2> QED  BY <2>2, <2>3, Zenon
<1> DEFINE to == [i \in 1 .. n |-> IF i = n THEN Len(table) + 1 ELSE at[i]]
<1>4. /\ \A i \in 1 .. n - 1 : to[i] = at[i] /\ at[i] \in Own(table)
      /\ to[n] = Len(table) + 1
      /\ to \in [1 .. n -> Own(more)]
  <2>1. \A i \in 1 .. n - 1 : i \in 1 .. n /\ i # n /\ at[i] \in Own(table)
    BY <1>3
  <2>2. Own(table) \subseteq Own(more) /\ Len(table) + 1 \in Own(more)
    BY <1>1
  <2>3. \A i \in 1 .. n : i # n => i \in 1 .. n - 1
    OBVIOUS
  <2> HIDE DEF Own
  <2> QED  BY <2>1, <2>2, <2>3
<1>5. \A i, j \in 1 .. n : i < j => to[i] < to[j]
  <2> SUFFICES ASSUME NEW i \in 1 .. n, NEW j \in 1 .. n, i < j
               PROVE  to[i] < to[j]
    OBVIOUS
  <2>1. i \in 1 .. n - 1 /\ to[i] = at[i] /\ at[i] \in 1 .. Len(table)
    BY <1>1, <1>4
  <2>2. CASE j = n
    BY <1>1, <1>4, <2>1, <2>2
  <2>3. CASE j # n
    BY <1>3, <1>4, <2>1, <2>3
  <2> QED  BY <2>2, <2>3
<1>6. ASSUME NEW k \in DOMAIN more, more[k].payload.run = r
      PROVE  \E i \in 1 .. n : to[i] = k
  <2>1. CASE k = Len(table) + 1
    BY <1>4, <2>1
  <2>2. CASE k # Len(table) + 1
    <3>1. k \in DOMAIN table /\ table[k].payload.run = r
      BY <1>1, <1>6, <2>2
    <3>2. PICK i \in 1 .. n - 1 : at[i] = k
      BY <1>3, <3>1
    <3>3. i \in 1 .. n /\ to[i] = k
      BY <1>4, <3>2
    <3> QED  BY <3>3
  <2> QED  BY <2>1, <2>2
<1>7. ASSUME NEW i \in 1 .. n
      PROVE  more[to[i]].payload.outcome = new[i]
  <2>1. CASE i = n
    BY <1>1, <1>2, <1>4, <2>1 DEF last
  <2>2. CASE i # n
    <3>1. i \in 1 .. n - 1 /\ at[i] \in DOMAIN table /\ to[i] = at[i]
      BY <1>4, <2>2
    <3> QED  BY <1>1, <1>2, <1>3, <3>1
  <2> QED  BY <2>1, <2>2
<1>8. LoggedIn(more, r, new)
  <2>1. to \in [DOMAIN new -> {i \in DOMAIN more : more[i].payload.run = r}]
    BY <1>2, <1>4
  <2>2. /\ \A i, j \in DOMAIN new : i < j => to[i] < to[j]
        /\ \A k \in DOMAIN more : more[k].payload.run = r => \E i \in DOMAIN new : to[i] = k
        /\ \A i \in DOMAIN new : more[to[i]].payload.outcome = new[i]
    BY <1>2, <1>5, <1>6, <1>7
  <2> HIDE DEF to, Own
  <2> QED  BY <2>1, <2>2, Zenon DEF LoggedIn
<1> QED  BY <1>8 DEF more, last, new

\* Where a run has logged all its decisions so far but the one it may be at.
Working == {"synthesize", "backup", "write", "header", "verify", "certify", "rollback",
            "rollback_header"}

\* The rows of table t tell the decisions of run r, in state q, whose call of
\* record() is in state c.
Tells(t, r, q, c) ==
    /\ q.pc = "idle" => LoggedIn(t, r, Attempts(0, "rejected"))
    /\ q.pc \in Working => LoggedIn(t, r, Attempts(q.attempt - 1, "rejected"))
    /\ q.pc = "recording" =>
          /\ q.state \in Outcomes
          /\ c.pc \in {"select", "insert"} =>
                /\ c.payload.outcome = q.state
                /\ LoggedIn(t, r, Attempts(q.attempt - 1, "rejected"))
          /\ c.pc = "returned" => LoggedIn(t, r, Attempts(q.attempt, q.state))
    /\ q.pc = "returned" =>
          /\ q.state \in {"certified", "pending_review", "abandoned"}
          /\ LoggedIn(t, r, Decisions(q))
    /\ q.pc # "recording" => c.pc = "idle"
    /\ q.pc # "idle" => q.attempt >= 1
    /\ c.pc \in {"select", "insert"} => c.payload.run = r

\* What EveryDecisionIsLogged rests on: the rows tell every run, at each of its
\* steps, and a call of record() carries a record of its own run.
LogInv == RunsHold /\ \A r \in Runs : Tells(rows, r, run[r], call[r])

\* At first nothing is logged.
LEMMA LogInit == Init => LogInv
<1> SUFFICES ASSUME Init, NEW r \in Runs
             PROVE  Tells(rows, r, run[r], call[r])
  BY RunsHoldInit DEF LogInv
<1>1. rows = << >> /\ run[r] = Ready /\ call[r].pc = "idle"
  BY DEF Init, L!Init, L!Idle
<1>2. LoggedIn(rows, r, Attempts(0, "rejected"))
  <2> DEFINE none == Attempts(0, "rejected")
             at == [i \in {} |-> 0]
  <2>1. DOMAIN none = {} /\ DOMAIN rows = {}
    BY <1>1, EmptySeq DEF Attempts
  <2>2. at \in [DOMAIN none -> {i \in DOMAIN rows : rows[i].payload.run = r}]
    BY <2>1
  <2> HIDE DEF none, at
  <2> QED  BY <2>1, <2>2 DEF LoggedIn, none
<1> QED  BY <1>1, <1>2 DEF Tells, Ready, Working

\* A step of another run leaves what is told of this one.
LEMMA OthersTell ==
    ASSUME LogInv, NEW r \in Runs, StepOf(r), NEW u \in Runs \ {r}
    PROVE  Tells(rows', u, run'[u], call'[u])
<1>1. /\ rows \in Seq(L!Rows) /\ run \in [Runs -> RunStates] /\ call \in [Runs -> L!Calls]
      /\ Tells(rows, u, run[u], call[u]) /\ Tells(rows, r, run[r], call[r])
  BY DEF LogInv, RunsHold, OrchestratorTypeOK, L!TypeOK
<1>2. run'[u] = run[u]
  BY <1>1, RunTypeStep DEF LogInv
<1>3. LedgerMoves(r)
  BY <1>1, LedgerMovesStep DEF LogInv, Tells
<1>4. call'[u] = call[u]
  BY <1>1, <1>3
     DEF LedgerMoves, ledger, L!Call, L!Select, L!Insert, L!Raise, L!Finish
<1>5. CASE rows' = rows
  BY <1>1, <1>2, <1>4, <1>5
<1>6. CASE L!Insert(r)
  <2>1. /\ L!NewRow(call[r]) \in L!Rows
        /\ L!NewRow(call[r]).payload.run # u
        /\ rows' = Append(rows, L!NewRow(call[r]))
    <3>1. call[r].pc = "insert" /\ call[r].payload.run = r
      BY <1>1, <1>6 DEF L!Insert, Tells
    <3> QED  BY <1>6, <3>1, LedgerRows DEF L!Insert, L!NewRow, LogInv, RunsHold, OrchestratorTypeOK
  <2>2. \A outcomes : LoggedIn(rows, u, outcomes) => LoggedIn(rows', u, outcomes)
    BY <1>1, <2>1, OthersRow
  <2> QED  BY <1>1, <1>2, <1>4, <2>2 DEF Tells
<1>7. rows' = rows \/ L!Insert(r)
  BY <1>3 DEF LedgerMoves, ledger, L!Call, L!Select, L!Raise
<1> QED  BY <1>5, <1>6, <1>7

\* The run that takes the step is told on: its rows grow by one for a decision
\* and are not touched by anything else it does.
LEMMA OwnTells ==
    ASSUME LogInv, NEW r \in Runs, StepOf(r)
    PROVE  Tells(rows', r, run'[r], call'[r])
<1> DEFINE u == run[r]
           c == call[r]
           Goal == Tells(rows', r, run'[r], call'[r])
<1>1. /\ rows \in Seq(L!Rows) /\ run \in [Runs -> RunStates] /\ call \in [Runs -> L!Calls]
      /\ u \in RunStates
      /\ Tells(rows, r, u, c)
      /\ u.pc \in Patching => u.patch \in Sources
      /\ NoPatch \notin Sources
      /\ u.attempt \in Nat
      /\ MaxRetries \in Nat
  BY OrchestratorAssumption DEF LogInv, RunsHold, OrchestratorTypeOK, L!TypeOK, RunStates
<1> SUFFICES Goal
  OBVIOUS
<1> HIDE DEF Goal
<1>2. ASSUME UNCHANGED ledger, u.pc \in Working, run'[r].pc \in Working,
             run'[r].attempt = u.attempt
      PROVE  Goal
  BY <1>1, <1>2 DEF Tells, ledger, Working, Goal
<1>3. ASSUME call'[r].pc = "idle", run'[r].pc = "died", run'[r].attempt = u.attempt, u.pc # "idle"
      PROVE  Goal
  BY <1>1, <1>3 DEF Tells, Working, Goal
<1>4. ASSUME NEW outcome \in Outcomes, NEW patch, NEW sha, Log(r, outcome, patch, sha),
             u.pc \in Working, run'[r].pc = "recording",
             run'[r].state = outcome, run'[r].attempt = u.attempt
      PROVE  Goal
  <2>1. /\ rows' = rows
        /\ call'[r].pc = "select"
        /\ call'[r].payload.run = r /\ call'[r].payload.outcome = outcome
    BY <1>1, <1>4 DEF Log, L!Call
  <2> QED  BY <1>1, <1>4, <2>1 DEF Tells, Working, Goal
<1>5. ASSUME NEW f \in Findings, NEW force \in BOOLEAN, Begin(r, f, force)
      PROVE  Goal
  <2>1. /\ u.pc = "idle" /\ run'[r].pc = "synthesize" /\ run'[r].attempt = 1
        /\ UNCHANGED ledger
    BY <1>1, <1>5 DEF Begin, RunStates
  <2>2. LoggedIn(rows, r, Attempts(run'[r].attempt - 1, "rejected"))
    BY <1>1, <2>1 DEF Tells
  <2> QED  BY <1>1, <2>1, <2>2 DEF Tells, Working, ledger, Goal
<1>6. CASE Synthesize(r)
  <2> DEFINE To(q) == run' = [run EXCEPT ![r] = q]
             Read(p) == [u EXCEPT !.base = tree.src, !.patch = p]
  <2>1. u.pc = "synthesize" /\ u.pc \in Working
    BY <1>6 DEF Synthesize, Working
  <2>2. ASSUME NEW p, p = NoPatch, UNCHANGED ledger,
               To([Read(p) EXCEPT !.pc = "returned", !.state = "abandoned"])
        PROVE  Goal
    <3>1. /\ run'[r].pc = "returned" /\ run'[r].state = "abandoned" /\ run'[r].patch = NoPatch
          /\ run'[r].attempt = u.attempt
      BY <1>1, <2>2 DEF RunStates
    <3> QED  BY <1>1, <2>1, <2>2, <3>1 DEF Tells, Working, ledger, Decisions, Goal
  <2>3. ASSUME NEW p, Log(r, "pending_review", p, ""),
               To([Read(p) EXCEPT !.pc = "recording", !.state = "pending_review"])
        PROVE  Goal
    <3>1. /\ run'[r].pc = "recording" /\ run'[r].state = "pending_review"
          /\ run'[r].attempt = u.attempt
      BY <1>1, <2>3 DEF RunStates
    <3> QED  BY <1>4, <2>1, <2>3, <3>1 DEF Outcomes
  <2>4. ASSUME NEW p, UNCHANGED ledger, To([Read(p) EXCEPT !.pc = "backup"])
        PROVE  Goal
    <3>1. run'[r].pc = "backup" /\ run'[r].attempt = u.attempt
      BY <1>1, <2>4 DEF RunStates
    <3> QED  BY <1>2, <2>1, <2>4, <3>1 DEF Working
  <2> QED  BY <1>6, <2>2, <2>3, <2>4 DEF Synthesize
<1>7. CASE Backup(r) \/ Write(r) \/ PatchHeader(r) \/ RollBack(r)
  <2>1. /\ UNCHANGED ledger
        /\ u.pc \in Working
        /\ run'[r].pc \in Working
        /\ run'[r].attempt = u.attempt
    BY <1>1, <1>7 DEF Backup, Write, PatchHeader, RollBack, Working, RunStates
  <2> QED  BY <1>2, <2>1
<1>8. CASE Verify(r) \/ VerifyFails(r) \/ ThirdLockRaises(r)
  <2>1. UNCHANGED ledger /\ u.pc \in Working /\ run' = run
    BY <1>8 DEF Verify, VerifyFails, ThirdLockRaises, Working
  <2> QED  BY <1>2, <2>1
<1>9. CASE Verdict(r)
  <2>1. UNCHANGED ledger /\ u.pc = "verify"
    BY <1>9 DEF Verdict
  <2>2. run'[r].attempt = u.attempt /\ run'[r].pc \in {"certify", "rollback", "died"}
    <3>1. lock[r].status \in {"certified", "failed", "raised"}
      BY <1>9 DEF Verdict, V!Take, LogInv, RunsHold, Judged
    <3> QED  BY <1>1, <1>9, <3>1 DEF Verdict, RunStates
  <2>3. call'[r].pc = "idle"
    BY <1>1, <2>1 DEF Tells, ledger
  <2> QED  BY <1>2, <1>3, <2>1, <2>2, <2>3 DEF Working
<1>10. CASE ApplyRaises(r) \/ Die(r)
  <2>1. u.pc # "idle" /\ run'[r].pc = "died" /\ run'[r].attempt = u.attempt /\ call'[r].pc = "idle"
    BY <1>1, <1>10 DEF ApplyRaises, Die, Gone, Active, L!Idle, RunStates
  <2> QED  BY <1>3, <2>1
<1>11. CASE Certify(r)
  <2>1. /\ u.pc \in Working
        /\ run'[r].pc = "recording" /\ run'[r].state = "certified" /\ run'[r].attempt = u.attempt
        /\ Log(r, "certified", u.patch, tree.src)
    BY <1>1, <1>11 DEF Certify, Working, RunStates
  <2> QED  BY <1>4, <2>1 DEF Outcomes
<1>12. CASE RollBackHeader(r)
  <2>1. /\ u.pc \in Working
        /\ run'[r].pc = "recording" /\ run'[r].state = "rejected" /\ run'[r].attempt = u.attempt
        /\ Log(r, "rejected", u.patch, "")
    BY <1>1, <1>12 DEF RollBackHeader, Working, RunStates
  <2> QED  BY <1>4, <2>1 DEF Outcomes
<1>13. CASE u.pc = "recording" /\ run' = run /\ (L!Select(r) \/ L!Raise(r))
  <2>1. /\ rows' = rows
        /\ call[r].pc \in {"select", "insert"}
        /\ call'[r].pc = "raised" \/ (call'[r].pc = "insert" /\ call[r].pc = "select" /\ call'[r].payload = call[r].payload)
    BY <1>1, <1>13 DEF L!Select, L!Raise, L!Finish
  <2> QED  BY <1>1, <1>13, <2>1 DEF Tells, Working, Goal
<1>14. CASE u.pc = "recording" /\ run' = run /\ L!Insert(r)
  <2> DEFINE row == L!NewRow(call[r])
  <2>1. /\ row \in L!Rows
        /\ row.payload.run = r
        /\ row.payload.outcome = u.state
        /\ rows' = Append(rows, row)
        /\ LoggedIn(rows, r, Attempts(u.attempt - 1, "rejected"))
        /\ u.attempt \in Nat \ {0}
    <3>1. call[r].pc = "insert"
      BY <1>14 DEF L!Insert
    <3>2. row \in L!Rows
      BY <3>1, LedgerRows DEF LogInv, RunsHold, OrchestratorTypeOK
    <3> QED  BY <1>1, <1>14, <3>1, <3>2 DEF L!Insert, L!NewRow, Tells
  <2>2. call'[r].pc = "returned"
    BY <1>1, <1>14 DEF L!Insert, L!Finish
  <2> HIDE DEF row
  <2>3. LoggedIn(rows', r, Attempts(u.attempt, u.state))
    BY <1>1, <2>1, OwnRow
  <2> QED  BY <1>1, <1>14, <2>2, <2>3 DEF Tells, Working, Goal
<1>15. CASE Record(r)
  BY <1>13, <1>14, <1>15 DEF Record
<1>16. CASE Recorded(r)
  <2>1. /\ u.pc = "recording" /\ call[r].pc = "returned"
        /\ rows' = rows /\ call'[r].pc = "idle"
    BY <1>1, <1>16 DEF Recorded, L!Return, L!Idle
  <2>2. LoggedIn(rows, r, Attempts(u.attempt, u.state)) /\ u.state \in Outcomes
    BY <1>1, <2>1 DEF Tells
  <2>3. CASE u.state = "rejected" /\ u.attempt < MaxRetries
    <3>1. run'[r].pc = "synthesize" /\ run'[r].attempt = u.attempt + 1
      BY <1>1, <1>16, <2>3 DEF Recorded, NextAttempt, RunStates
    <3>2. run'[r].attempt - 1 = u.attempt /\ run'[r].attempt >= 1
      BY <1>1, <3>1
    <3> QED  BY <2>1, <2>2, <2>3, <3>1, <3>2 DEF Tells, Goal
  <2>4. CASE ~(u.state = "rejected" /\ u.attempt < MaxRetries)
    <3>1. /\ run'[r].pc = "returned" /\ run'[r].attempt = u.attempt /\ run'[r].patch = u.patch
          /\ run'[r].state = IF u.state = "rejected" THEN "abandoned" ELSE u.state
      BY <1>1, <1>16, <2>4 DEF Recorded, Finished, RunStates
    <3>2. u.patch # NoPatch
      BY <1>1, <2>1 DEF Patching
    <3>3. u.attempt >= 1
      BY <1>1, <2>1 DEF Tells
    <3> QED  BY <2>1, <2>2, <3>1, <3>2, <3>3 DEF Tells, Decisions, Outcomes, Working, Goal
  <2> QED  BY <2>3, <2>4
<1>17. CASE RecordRaises(r)
  <2>1. CASE L!Raise(r) /\ UNCHANGED <<tree, run, verifying>>
    <3>1. u.pc = "recording"
      BY <1>1, <2>1 DEF L!Raise, Tells
    <3> QED  BY <1>13, <2>1, <3>1
  <2>2. CASE call[r].pc = "raised" /\ L!Return(r) /\ run' = [run EXCEPT ![r].pc = "died"]
    <3>1. u.pc # "idle" /\ run'[r].pc = "died" /\ run'[r].attempt = u.attempt /\ call'[r].pc = "idle"
      BY <1>1, <2>2 DEF L!Return, L!Idle, RunStates, Tells
    <3> QED  BY <1>3, <3>1
  <2> QED  BY <1>17, <2>1, <2>2 DEF RecordRaises
<1> QED
  BY <1>5, <1>6, <1>7, <1>8, <1>9, <1>10, <1>11, <1>12, <1>15, <1>16, <1>17
     DEF StepOf, Step, Fault

\* Every step of the loop keeps what the rows tell.
LEMMA LogStep ==
    ASSUME LogInv, NEW r \in Runs, StepOf(r)
    PROVE  LogInv'
<1>1. RunsHold'
  BY RunsHoldStep DEF LogInv
<1>2. \A u \in Runs : Tells(rows', u, run'[u], call'[u])
  BY OthersTell, OwnTells
<1> QED  BY <1>1, <1>2 DEF LogInv, Tells, LoggedIn, Attempts, Decisions

\* A step that changes nothing leaves it.
LEMMA LogStutter == LogInv /\ UNCHANGED vars => LogInv'
<1> SUFFICES ASSUME LogInv, UNCHANGED vars
             PROVE  LogInv'
  OBVIOUS
<1>1. RunsHold'
  BY Stutter DEF LogInv
<1>2. \A r \in Runs : Tells(rows', r, run'[r], call'[r])
  BY DEF LogInv, vars
<1> QED  BY <1>1, <1>2 DEF LogInv, Tells, LoggedIn, Attempts, Decisions

\* What the rows tell of a run that has returned is what it decided.
LEMMA LogHolds == LogInv => EveryDecisionIsLogged
  BY DEF LogInv, Tells, EveryDecisionIsLogged

\* However many runs overlap, a run that has returned has left one row for each
\* of its decisions, in their order, and no other.
THEOREM DecisionsAreLogged == Spec => []EveryDecisionIsLogged
<1>1. LogInv /\ [Next]_vars => LogInv'
  BY NextIsStep, LogStep, LogStutter
<1> QED  BY <1>1, LogInit, LogHolds, PTL DEF Spec

\* So it is when runs are killed and calls raise: a decision that could not be
\* recorded never returns.
THEOREM DecisionsAreLoggedInFaults == CrashSpec => []EveryDecisionIsLogged
<1>1. LogInv /\ [CrashNext]_vars => LogInv'
  BY NextIsStep, LogStep, LogStutter
<1> QED  BY <1>1, LogInit, LogHolds, PTL DEF CrashSpec
=============================================================================
