------------------------- MODULE OrchestratorProofs -------------------------
(***************************************************************************)
(* What each step of the orchestrator keeps, whatever the other runs do.   *)
(* ClosedLoopProofs and FuzzingProofs rest on it.                          *)
(***************************************************************************)
EXTENDS Orchestrator, SequenceTheorems, TLAPS

-----------------------------------------------------------------------------
(* The verifiers.                                                          *)

\* The states of a verifier, with a verdict once it is done.
Judged == {l \in V!LockStates : l.pc = "done" => l.status \in {"certified", "failed", "raised"}}

\* Every way a lock ends is a state of a verifier.
LEMMA LockEnds ==
    ASSUME NEW l \in V!LockStates
    PROVE  /\ \A how \in {"certified", "failed", "raised"} : V!Over(l, how) \in Judged
           /\ V!Opened(l) \in Judged
           /\ V!Shut(l) \in Judged
           /\ V!Rejected(l) \in Judged
<1> USE DEF Judged, V!LockStates, V!Locks, V!Over
<1>1. \A how \in {"certified", "failed", "raised"} : V!Over(l, how) \in Judged
  OBVIOUS
<1>2. V!Shut(l) \in Judged
  BY DEF V!Shut
<1>3. V!Opened(l) \in Judged
  <2> DEFINE passed == [l EXCEPT !.ok[l.k] = "true", !.obj = V!NoBinary]
  <2>1. passed \in V!LockStates /\ passed.k = l.k
    OBVIOUS
  <2>2. CASE l.k = 3
    BY <2>1, <2>2 DEF V!Opened
  <2>3. CASE l.k # 3
    <3>1. l.k + 1 \in 1 .. 3
      BY <2>3
    <3>2. V!Opened(l) = [passed EXCEPT !.pc = "build", !.k = l.k + 1]
      BY <2>3 DEF V!Opened
    <3> HIDE DEF passed
    <3> QED  BY <2>1, <3>1, <3>2
  <2> QED  BY <2>2, <2>3
<1> QED  BY <1>1, <1>2, <1>3 DEF V!Rejected

\* Every step of a verifier changes that one, and keeps its type.
LEMMA LockStep ==
    ASSUME V!LockTypeOK, tree \in Trees, NEW r \in Runs,
           V!VerifyStep(r, tree) \/ V!VerifyFault(r) \/ V!Take(r)
    PROVE  /\ bin' \in V!Binaries \cup {V!NoBinary}
           /\ \E l \in Judged : lock' = [lock EXCEPT ![r] = l]
<1> DEFINE Goal == /\ bin' \in V!Binaries \cup {V!NoBinary}
                   /\ \E l \in Judged : lock' = [lock EXCEPT ![r] = l]
<1>1. /\ lock[r] \in V!LockStates
      /\ bin \in V!Binaries \cup {V!NoBinary}
      /\ \A l \in V!LockStates : l.pc # "done" => l \in Judged
  BY DEF V!LockTypeOK, Judged
<1>2. ASSUME NEW l \in Judged, lock' = [lock EXCEPT ![r] = l],
             bin' \in V!Binaries \cup {V!NoBinary}
      PROVE  Goal
  BY <1>2
<1> SUFFICES Goal
  OBVIOUS
<1> HIDE DEF Goal
<1>3. CASE V!Load(r)
  <2> DEFINE l == [lock[r] EXCEPT !.pc = "build"]
  <2>1. l \in V!LockStates /\ l.pc # "done"
    BY <1>1 DEF V!LockStates
  <2>2. lock' = [lock EXCEPT ![r] = l] /\ bin' = bin
    BY <1>3 DEF V!Load
  <2> HIDE DEF l
  <2> QED  BY <1>1, <1>2, <2>1, <2>2
<1>4. CASE V!Compile(r, tree)
  <2> DEFINE l == [lock[r] EXCEPT !.pc = "link",
                                  !.obj = [flavor |-> V!Flavor(lock[r].k), tree |-> tree]]
  <2>1. [flavor |-> V!Flavor(lock[r].k), tree |-> tree] \in V!Binaries
    BY DEF V!Flavor, V!Binaries, V!Flavors
  <2>2. l \in V!LockStates /\ l.pc # "done"
    BY <1>1, <2>1 DEF V!LockStates
  <2>3. bin' = bin /\ (lock' = [lock EXCEPT ![r] = l] \/ lock' = [lock EXCEPT ![r] = V!Rejected(lock[r])])
    BY <1>4 DEF V!Compile
  <2> HIDE DEF l
  <2> QED  BY <1>1, <1>2, <2>2, <2>3, LockEnds
<1>5. CASE V!Link(r)
  <2> DEFINE l == [lock[r] EXCEPT !.pc = "run", !.obj = V!NoBinary]
  <2>1. bin' \in V!Binaries \cup {V!NoBinary}
    BY <1>1, <1>5 DEF V!LockStates, V!Link
  <2>2. l \in V!LockStates /\ l.pc # "done"
    BY <1>1 DEF V!LockStates
  <2>3. lock' = [lock EXCEPT ![r] = l] \/ lock' = [lock EXCEPT ![r] = V!Opened(lock[r])]
    BY <1>5 DEF V!Link
  <2> HIDE DEF l
  <2> QED  BY <1>1, <1>2, <2>1, <2>2, <2>3, LockEnds
<1>6. CASE V!Run(r)
  <2> DEFINE judged == [lock[r] EXCEPT !.ran[lock[r].k] = bin]
  <2>1. judged \in V!LockStates
    BY <1>1 DEF V!LockStates
  <2>2. /\ lock' = [lock EXCEPT ![r] = V!Opened(judged)] \/ lock' = [lock EXCEPT ![r] = V!Shut(judged)]
        /\ bin' = bin
    BY <1>6 DEF V!Run
  <2> QED  BY <1>1, <1>2, <2>1, <2>2, LockEnds
<1>7. CASE V!Caught(r)
  <2>1. /\ lock' = [lock EXCEPT ![r] = V!Over(lock[r], IF lock[r].k = 3 THEN "raised" ELSE "failed")]
        /\ bin' = bin
    BY <1>7 DEF V!Caught
  <2> QED  BY <1>1, <1>2, <2>1, LockEnds
<1>8. CASE V!LoadFails(r)
  BY <1>1, <1>2, <1>8, LockEnds DEF V!LoadFails
<1>9. CASE V!Take(r)
  <2>1. V!Fresh \in V!LockStates /\ V!Fresh.pc # "done"
    BY DEF V!Fresh, V!LockStates, V!Locks
  <2> QED  BY <1>1, <1>2, <1>9, <2>1 DEF V!Take
<1> QED
  BY <1>3, <1>4, <1>5, <1>6, <1>7, <1>8, <1>9
     DEF V!VerifyStep, V!VerifyFault, V!RunBusy, V!Fault

-----------------------------------------------------------------------------
(* The ledger.                                                             *)

\* What a SELECT can read, and the row an INSERT makes of it.
LEMMA LedgerRows ==
    ASSUME L!TypeOK
    PROVE  /\ Len(rows) \in Nat
           /\ DOMAIN rows = 1 .. Len(rows)
           /\ \A i \in DOMAIN rows : rows[i] \in L!Rows
           /\ L!LastHash(rows) \in L!Hashes
           /\ \A r \in Runs : call[r].pc = "insert" =>
                 /\ call[r].payload \in Records
                 /\ call[r].prev \in L!Hashes
                 /\ L!NewRow(call[r]) \in L!Rows
<1>1. rows \in Seq(L!Rows) /\ call \in [Runs -> L!Calls]
  BY DEF L!TypeOK
<1>2. Len(rows) \in Nat /\ DOMAIN rows = 1 .. Len(rows)
  BY <1>1, LenProperties
<1>3. \A i \in DOMAIN rows : rows[i] \in L!Rows
  BY <1>1, <1>2, ElementOfSeq
<1>4. L!LastHash(rows) \in L!Hashes
  <2>1. CASE rows = << >>
    BY <2>1, EmptySeq DEF L!LastHash, L!GenesisHash, L!Hashes
  <2>2. CASE rows # << >>
    <3>1. Len(rows) \in DOMAIN rows
      BY <1>1, <1>2, <2>2, EmptySeq
    <3> QED  BY <1>3, <2>2, <3>1 DEF L!LastHash, L!Rows
  <2> QED  BY <2>1, <2>2
<1>5. ASSUME NEW r \in Runs, call[r].pc = "insert"
      PROVE  /\ call[r].payload \in Records
             /\ call[r].prev \in L!Hashes
             /\ L!NewRow(call[r]) \in L!Rows
  <2>1. call[r].payload \in Records /\ call[r].prev \in L!Hashes
    BY <1>1, <1>5 DEF L!Calls
  <2>2. Append(call[r].prev, call[r].payload) \in L!Hashes
    BY <2>1, AppendProperties DEF L!Hashes
  <2> QED  BY <2>1, <2>2 DEF L!NewRow, L!Hash, L!Rows
<1> QED  BY <1>2, <1>3, <1>4, <1>5

\* Every step of record(), and its being given up, keeps the types.
LEMMA LedgerTypeStep ==
    ASSUME L!TypeOK, NEW r \in Runs,
           \/ \E p \in Records : L!Call(r, p)
           \/ L!Select(r) \/ L!Insert(r) \/ L!Raise(r) \/ L!Return(r)
           \/ call' = [call EXCEPT ![r] = L!Idle] /\ UNCHANGED rows
    PROVE  L!TypeOK'
<1>1. rows \in Seq(L!Rows) /\ call \in [Runs -> L!Calls]
  BY DEF L!TypeOK
<1>2. ASSUME NEW p \in Records, L!Call(r, p)
      PROVE  L!TypeOK'
  BY <1>1, <1>2 DEF L!TypeOK, L!Call, L!Calls
<1>3. CASE L!Select(r)
  <2>1. call[r].payload \in Records
    BY <1>1, <1>3 DEF L!Select, L!Calls
  <2> QED  BY <1>1, <1>3, <2>1, LedgerRows DEF L!TypeOK, L!Select, L!Calls
<1>4. CASE L!Insert(r)
  <2>1. call[r].pc = "insert"
    BY <1>4 DEF L!Insert
  <2>2. rows' \in Seq(L!Rows)
    BY <1>1, <1>4, <2>1, LedgerRows, AppendProperties DEF L!Insert
  <2>3. call' \in [Runs -> L!Calls]
    BY <1>1, <1>4, <2>1, LedgerRows DEF L!Insert, L!Finish, L!Calls
  <2> QED  BY <2>2, <2>3 DEF L!TypeOK
<1>5. CASE L!Raise(r)
  <2>1. call[r].payload \in Records
    BY <1>1, <1>5 DEF L!Raise, L!Calls
  <2> QED  BY <1>1, <1>5, <2>1 DEF L!TypeOK, L!Raise, L!Finish, L!Calls
<1>6. CASE L!Return(r)
  BY <1>1, <1>6 DEF L!TypeOK, L!Return, L!Idle, L!Calls
<1>7. CASE call' = [call EXCEPT ![r] = L!Idle] /\ UNCHANGED rows
  BY <1>1, <1>7 DEF L!TypeOK, L!Idle, L!Calls
<1> QED  BY <1>2, <1>3, <1>4, <1>5, <1>6, <1>7

-----------------------------------------------------------------------------
(* The runs.                                                               *)

\* Where a run has a patch, and where it has a backup of the source.
Patching == {"backup", "write", "header", "verify", "certify", "rollback", "rollback_header",
             "recording"}

Applied == {"write", "header", "verify", "certify", "rollback", "rollback_header"}

\* Types alone are not inductive: a run writes the patch and the backup it
\* holds, and goes where the verdict sends it.
RunsHold ==
    /\ OrchestratorTypeOK
    /\ \A r \in Runs :
          /\ run[r].pc \in Patching => run[r].patch \in Sources
          /\ run[r].pc \in Applied => run[r].backup \in Sources
          /\ lock[r] \in Judged

\* At first no run has begun.
LEMMA RunsHoldInit == Init => RunsHold
<1> SUFFICES ASSUME Init
             PROVE  RunsHold
  OBVIOUS
<1>1. tree \in Trees
  BY OrchestratorAssumption DEF Init, Trees
<1>2. Ready \in RunStates
  BY OrchestratorAssumption DEF Ready, RunStates, Contents
<1>3. V!Fresh \in V!LockStates /\ V!Fresh \in Judged
  BY DEF V!Fresh, V!LockStates, V!Locks, Judged
<1>4. L!TypeOK
  BY EmptySeq DEF Init, L!Init, L!TypeOK, L!Idle, L!Calls
<1> QED
  BY <1>1, <1>2, <1>3, <1>4
     DEF Init, RunsHold, OrchestratorTypeOK, V!LockTypeOK, Ready, V!Fresh, Patching, Applied

\* Only the step of one run, and what it does to that run.
StepOf(r) ==
    (\E f \in Findings, force \in BOOLEAN : Begin(r, f, force)) \/ Step(r) \/ Fault(r)

\* What a run writes is a tree, and what it remembers has its type.
LEMMA RunTypeStep ==
    ASSUME RunsHold, NEW r \in Runs, StepOf(r)
    PROVE  /\ tree' \in Trees
           /\ \E q \in RunStates :
                 /\ run' = [run EXCEPT ![r] = q]
                 /\ q.pc \in Patching => q.patch \in Sources
                 /\ q.pc \in Applied => q.backup \in Sources
<1> DEFINE Kept(q) == /\ q \in RunStates
                      /\ run' = [run EXCEPT ![r] = q]
                      /\ q.pc \in Patching => q.patch \in Sources
                      /\ q.pc \in Applied => q.backup \in Sources
           Goal == tree' \in Trees /\ \E q \in RunStates : Kept(q)
           u == run[r]
<1>1. /\ tree \in Trees
      /\ tree.src \in Sources
      /\ tree.hdr \in Headers
      /\ run \in [Runs -> RunStates]
      /\ u \in RunStates
      /\ u.pc \in Patching => u.patch \in Sources
      /\ u.pc \in Applied => u.backup \in Sources
      /\ run = [run EXCEPT ![r] = u]
  BY DEF RunsHold, OrchestratorTypeOK, Trees
<1>2. ASSUME tree' \in Trees, run' = run
      PROVE  Goal
  BY <1>1, <1>2
<1>3. ASSUME NEW q, Kept(q), tree' \in Trees
      PROVE  Goal
  BY <1>3
<1> SUFFICES Goal
  OBVIOUS
<1> HIDE DEF Goal
<1>4. ASSUME NEW f \in Findings, NEW force \in BOOLEAN, Begin(r, f, force)
      PROVE  Goal
  <2> DEFINE q == [u EXCEPT !.pc = "synthesize", !.finding = f, !.force = force, !.attempt = 1]
  <2>1. 1 \in 0 .. MaxRetries
    BY OrchestratorAssumption
  <2>2. q \in RunStates
    BY <1>1, <2>1 DEF RunStates
  <2>3. q.pc = "synthesize"
    BY <1>1 DEF RunStates
  <2>4. run' = [run EXCEPT ![r] = q] /\ tree' = tree
    BY <1>4 DEF Begin
  <2>5. Kept(q)
    BY <2>2, <2>3, <2>4 DEF Patching, Applied
  <2> HIDE DEF q, Kept
  <2> QED  BY <1>1, <1>3, <2>4, <2>5
<1>5. CASE Synthesize(r)
  <2>1. PICK p \in Patches(u.finding) :
           LET read == [u EXCEPT !.base = tree.src, !.patch = p]
           IN  \/ p = NoPatch /\ run' = [run EXCEPT ![r] = [read EXCEPT !.pc = "returned", !.state = "abandoned"]]
               \/ p # NoPatch /\ run' = [run EXCEPT ![r] = [read EXCEPT !.pc = "recording", !.state = "pending_review"]]
               \/ p # NoPatch /\ run' = [run EXCEPT ![r] = [read EXCEPT !.pc = "backup"]]
    BY <1>5 DEF Synthesize
  <2>2. p \in Contents /\ (p # NoPatch => p \in Sources)
    BY <1>1, OrchestratorAssumption DEF Patches, Contents
  <2> DEFINE read == [u EXCEPT !.base = tree.src, !.patch = p]
  <2>3. read \in RunStates /\ read.patch = p
    BY <1>1, <2>2 DEF RunStates, Contents
  <2>4. tree' = tree
    BY <1>5 DEF Synthesize
  <2> HIDE DEF read
  <2>5. CASE p = NoPatch
    <3> DEFINE q == [read EXCEPT !.pc = "returned", !.state = "abandoned"]
    <3>1. q \in RunStates /\ q.pc = "returned"
      BY <2>3 DEF RunStates
    <3>2. run' = [run EXCEPT ![r] = q]
      BY <2>1, <2>5 DEF read
    <3>3. Kept(q)
      BY <3>1, <3>2 DEF Patching, Applied
    <3> HIDE DEF q, Kept
    <3> QED  BY <1>1, <1>3, <2>4, <3>3
  <2>6. ASSUME p # NoPatch, NEW q \in {[read EXCEPT !.pc = "recording", !.state = "pending_review"],
                                       [read EXCEPT !.pc = "backup"]},
               run' = [run EXCEPT ![r] = q]
        PROVE  Goal
    <3>1. q \in RunStates /\ q.pc \in {"recording", "backup"} /\ q.patch = p
      BY <2>3, <2>6 DEF RunStates
    <3>2. Kept(q)
      BY <2>2, <2>6, <3>1 DEF Patching, Applied
    <3> HIDE DEF Kept
    <3> QED  BY <1>1, <1>3, <2>4, <3>2
  <2> QED  BY <2>1, <2>5, <2>6 DEF read
<1>6. CASE Backup(r)
  <2> DEFINE q == [u EXCEPT !.pc = "write", !.backup = tree.src]
  <2>1. q \in RunStates /\ q.pc = "write" /\ q.patch = u.patch /\ q.backup = tree.src
    BY <1>1 DEF RunStates, Contents
  <2>2. run' = [run EXCEPT ![r] = q] /\ tree' = tree /\ u.pc = "backup"
    BY <1>6 DEF Backup
  <2>3. Kept(q)
    BY <1>1, <2>1, <2>2 DEF Patching, Applied
  <2> HIDE DEF q, Kept
  <2> QED  BY <1>1, <1>3, <2>2, <2>3
<1>7. ASSUME NEW pc \in {"header", "verify", "certify", "rollback", "rollback_header"},
             u.pc \in Applied, run' = [run EXCEPT ![r].pc = pc], tree' \in Trees
      PROVE  Goal
  <2> DEFINE q == [u EXCEPT !.pc = pc]
  <2>1. q \in RunStates /\ q.pc = pc /\ q.patch = u.patch /\ q.backup = u.backup
    BY <1>1 DEF RunStates
  <2>2. run' = [run EXCEPT ![r] = q]
    BY <1>7
  <2>3. Kept(q)
    BY <1>1, <1>7, <2>1, <2>2 DEF Patching, Applied
  <2> HIDE DEF q, Kept
  <2> QED  BY <1>3, <1>7, <2>3
<1>8. ASSUME run' = [run EXCEPT ![r].pc = "died"], tree' \in Trees
      PROVE  Goal
  <2> DEFINE q == [u EXCEPT !.pc = "died"]
  <2>1. q \in RunStates /\ q.pc = "died"
    BY <1>1 DEF RunStates
  <2>2. run' = [run EXCEPT ![r] = q]
    BY <1>8
  <2>3. Kept(q)
    BY <2>1, <2>2 DEF Patching, Applied
  <2> HIDE DEF q, Kept
  <2> QED  BY <1>3, <1>8, <2>3
<1>9. CASE Write(r)
  <2>1. PICK s \in IF tree.src = u.base THEN {u.patch} ELSE Misapplied : tree' = [tree EXCEPT !.src = s]
    BY <1>9 DEF Write
  <2>2. u.pc = "write" /\ run' = [run EXCEPT ![r].pc = "header"]
    BY <1>9 DEF Write
  <2>3. s \in Sources
    BY <1>1, <2>1, <2>2, OrchestratorAssumption DEF Patching
  <2>4. tree' \in Trees
    BY <1>1, <2>1, <2>3 DEF Trees
  <2> QED  BY <1>7, <2>2, <2>4 DEF Applied
<1>10. CASE ApplyRaises(r)
  BY <1>1, <1>8, <1>10 DEF ApplyRaises, Gone
<1>11. CASE PatchHeader(r)
  <2>1. u.pc = "header"
    BY <1>11 DEF PatchHeader
  <2>2. CASE Companion[tree.hdr] = NoPatch
    BY <1>1, <1>7, <1>11, <2>1, <2>2 DEF PatchHeader, Applied
  <2>3. CASE Companion[tree.hdr] # NoPatch
    <3> DEFINE q == [u EXCEPT !.pc = "verify", !.hdrBackup = tree.hdr]
    <3>1. q \in RunStates /\ q.pc = "verify" /\ q.patch = u.patch /\ q.backup = u.backup
      BY <1>1 DEF RunStates
    <3>2. run' = [run EXCEPT ![r] = q] /\ tree' = [tree EXCEPT !.hdr = Companion[tree.hdr]]
      BY <1>11, <2>3 DEF PatchHeader
    <3>3. tree' \in Trees
      BY <1>1, <2>3, <3>2, OrchestratorAssumption DEF Trees
    <3>4. Kept(q)
      BY <1>1, <2>1, <3>1, <3>2 DEF Patching, Applied
    <3> HIDE DEF q, Kept
    <3> QED  BY <1>3, <3>3, <3>4
  <2> QED  BY <2>2, <2>3
<1>12. CASE Verify(r) \/ VerifyFails(r) \/ ThirdLockRaises(r) \/ Record(r)
  BY <1>1, <1>2, <1>12 DEF Verify, VerifyFails, ThirdLockRaises, Record
<1>13. CASE Verdict(r)
  <2>1. lock[r].status \in {"certified", "failed", "raised"}
    BY <1>13 DEF Verdict, V!Take, RunsHold, Judged
  <2>2. /\ u.pc = "verify"
        /\ tree' = tree
        /\ \/ run' = [run EXCEPT ![r].pc = "certify"]
           \/ run' = [run EXCEPT ![r].pc = "rollback"]
           \/ run' = [run EXCEPT ![r].pc = "died"]
    BY <1>13, <2>1 DEF Verdict
  <2> QED  BY <1>1, <1>7, <1>8, <2>2 DEF Applied
<1>14. ASSUME NEW state \in {"certified", "rejected"}, u.pc \in Applied,
              run' = [run EXCEPT ![r].pc = "recording", ![r].state = state], tree' \in Trees
       PROVE  Goal
  <2> DEFINE q == [u EXCEPT !.pc = "recording", !.state = state]
  <2>1. q \in RunStates /\ q.pc = "recording" /\ q.patch = u.patch
    BY <1>1 DEF RunStates
  <2>2. run' = [run EXCEPT ![r] = q]
    BY <1>14
  <2>3. Kept(q)
    BY <1>1, <1>14, <2>1, <2>2 DEF Patching, Applied
  <2> HIDE DEF q, Kept
  <2> QED  BY <1>3, <1>14, <2>3
<1>15. CASE Certify(r)
  BY <1>1, <1>14, <1>15 DEF Certify, Applied
<1>16. CASE RollBack(r)
  <2>1. tree' \in Trees
    BY <1>1, <1>16 DEF RollBack, Trees, Applied
  <2> QED  BY <1>7, <1>16, <2>1 DEF RollBack, Applied
<1>17. CASE RollBackHeader(r)
  <2>1. u.hdrBackup \in Headers \cup {NoPatch}
    BY <1>1 DEF RunStates
  <2>2. tree' \in Trees
    BY <1>1, <1>17, <2>1 DEF RollBackHeader, Trees
  <2> QED  BY <1>14, <1>17, <2>2 DEF RollBackHeader, Applied
<1>18. CASE Recorded(r)
  <2> DEFINE q == IF u.state = "rejected" /\ u.attempt < MaxRetries THEN NextAttempt(u) ELSE Finished(u)
  <2>1. run' = [run EXCEPT ![r] = q] /\ tree' = tree
    BY <1>18 DEF Recorded
  <2>2. NoPatch \in Contents /\ NoPatch \in Headers \cup {NoPatch}
    BY DEF Contents
  <2>3. CASE u.state = "rejected" /\ u.attempt < MaxRetries
    <3>1. u.attempt + 1 \in 0 .. MaxRetries
      BY <1>1, <2>3, OrchestratorAssumption DEF RunStates
    <3>2. NextAttempt(u) \in RunStates /\ NextAttempt(u).pc = "synthesize"
      BY <1>1, <2>2, <3>1 DEF NextAttempt, RunStates
    <3>3. Kept(NextAttempt(u))
      BY <2>1, <2>3, <3>2 DEF Patching, Applied
    <3> HIDE DEF Kept
    <3> QED  BY <1>1, <1>3, <2>1, <3>3
  <2>4. CASE ~(u.state = "rejected" /\ u.attempt < MaxRetries)
    <3>1. Finished(u) \in RunStates /\ Finished(u).pc = "returned"
      BY <1>1, <2>2 DEF Finished, RunStates
    <3>2. Kept(Finished(u))
      BY <2>1, <2>4, <3>1 DEF Patching, Applied
    <3> HIDE DEF Kept
    <3> QED  BY <1>1, <1>3, <2>1, <3>2
  <2> QED  BY <2>3, <2>4
<1>19. CASE Die(r)
  <2>1. tree' \in Trees
    BY <1>1, <1>19, OrchestratorAssumption DEF Die, Trees
  <2> QED  BY <1>8, <1>19, <2>1 DEF Die, Gone
<1>20. CASE RecordRaises(r)
  BY <1>1, <1>2, <1>8, <1>20 DEF RecordRaises
<1> QED
  BY <1>4, <1>5, <1>6, <1>9, <1>10, <1>11, <1>12, <1>13, <1>15, <1>16, <1>17, <1>18, <1>19, <1>20
     DEF StepOf, Step, Fault

\* What the run does to its verifier and to the ledger.
LEMMA PartsStep ==
    ASSUME RunsHold, NEW r \in Runs, StepOf(r)
    PROVE  /\ bin' \in V!Binaries \cup {V!NoBinary}
           /\ \E l \in Judged : lock' = [lock EXCEPT ![r] = l]
           /\ L!TypeOK'
<1> DEFINE LockGoal == /\ bin' \in V!Binaries \cup {V!NoBinary}
                       /\ \E l \in Judged : lock' = [lock EXCEPT ![r] = l]
<1>1. /\ tree \in Trees
      /\ tree.src \in Sources
      /\ V!LockTypeOK
      /\ L!TypeOK
      /\ run[r].pc \in Patching => run[r].patch \in Sources
      /\ lock \in [Runs -> V!LockStates]
      /\ bin \in V!Binaries \cup {V!NoBinary}
      /\ lock = [lock EXCEPT ![r] = lock[r]]
      /\ lock[r] \in Judged
  BY DEF RunsHold, OrchestratorTypeOK, Trees, V!LockTypeOK
<1>2. UNCHANGED verifying => LockGoal
  BY <1>1 DEF verifying
<1>3. Gone(r) => LockGoal
  <2>1. V!Fresh \in Judged
    BY DEF V!Fresh, V!LockStates, V!Locks, Judged
  <2> QED  BY <1>1, <2>1 DEF Gone
<1>4. V!VerifyStep(r, tree) \/ V!VerifyFault(r) \/ V!Take(r) => LockGoal
  BY <1>1, LockStep
<1>5. UNCHANGED ledger => L!TypeOK'
  BY <1>1 DEF ledger, L!TypeOK
<1>6. Gone(r) => L!TypeOK'
  BY <1>1, LedgerTypeStep DEF Gone
<1>7. L!Select(r) \/ L!Insert(r) \/ L!Raise(r) \/ L!Return(r) => L!TypeOK'
  BY <1>1, LedgerTypeStep
<1>8. ASSUME NEW outcome \in Outcomes, NEW patch \in Sources, NEW sha \in Sources \cup {""},
             Log(r, outcome, patch, sha)
      PROVE  L!TypeOK'
  <2>1. [run |-> r, patch |-> patch, sha |-> sha, outcome |-> outcome] \in Records
    BY <1>8 DEF Records
  <2> QED  BY <1>1, <1>8, <2>1, LedgerTypeStep DEF Log
<1> HIDE DEF LockGoal
<1>9. LockGoal /\ L!TypeOK'
  <2>1. ASSUME NEW f \in Findings, NEW force \in BOOLEAN, Begin(r, f, force)
        PROVE  LockGoal /\ L!TypeOK'
    BY <1>2, <1>5, <2>1 DEF Begin
  <2>2. CASE Synthesize(r)
    <3>1. PICK p \in Patches(run[r].finding) :
             \/ UNCHANGED ledger
             \/ p # NoPatch /\ Log(r, "pending_review", p, "")
      BY <2>2 DEF Synthesize
    <3>2. p # NoPatch => p \in Sources
      BY <1>1, OrchestratorAssumption DEF Patches
    <3> QED  BY <1>2, <1>5, <1>8, <2>2, <3>1, <3>2 DEF Synthesize, Outcomes
  <2>3. CASE Backup(r) \/ Write(r) \/ PatchHeader(r) \/ RollBack(r)
    BY <1>2, <1>5, <2>3 DEF Backup, Write, PatchHeader, RollBack
  <2>4. CASE ApplyRaises(r) \/ Die(r)
    BY <1>3, <1>6, <2>4 DEF ApplyRaises, Die
  <2>5. CASE Verify(r) \/ VerifyFails(r) \/ ThirdLockRaises(r) \/ Verdict(r)
    BY <1>4, <1>5, <2>5 DEF Verify, VerifyFails, ThirdLockRaises, Verdict, V!VerifyFault
  <2>6. CASE Certify(r)
    BY <1>1, <1>2, <1>8, <2>6 DEF Certify, Outcomes, Patching
  <2>7. CASE RollBackHeader(r)
    BY <1>1, <1>2, <1>8, <2>7 DEF RollBackHeader, Outcomes, Patching
  <2>8. CASE Record(r) \/ Recorded(r) \/ RecordRaises(r)
    BY <1>2, <1>7, <2>8 DEF Record, Recorded, RecordRaises
  <2> QED
    BY <2>1, <2>2, <2>3, <2>4, <2>5, <2>6, <2>7, <2>8 DEF StepOf, Step, Fault
<1> QED  BY <1>9 DEF LockGoal

\* A step of any run keeps the types and what they rest on.
LEMMA RunsHoldStep ==
    ASSUME RunsHold, NEW r \in Runs, StepOf(r)
    PROVE  RunsHold'
<1>1. PICK q \in RunStates :
         /\ tree' \in Trees
         /\ run' = [run EXCEPT ![r] = q]
         /\ q.pc \in Patching => q.patch \in Sources
         /\ q.pc \in Applied => q.backup \in Sources
  BY RunTypeStep
<1>2. PICK l \in Judged :
         /\ bin' \in V!Binaries \cup {V!NoBinary}
         /\ lock' = [lock EXCEPT ![r] = l]
         /\ L!TypeOK'
  BY PartsStep
<1>3. /\ run \in [Runs -> RunStates]
      /\ lock \in [Runs -> V!LockStates]
      /\ l \in V!LockStates
  BY DEF RunsHold, OrchestratorTypeOK, V!LockTypeOK, Judged
<1>4. run' \in [Runs -> RunStates] /\ lock' \in [Runs -> V!LockStates]
  BY <1>1, <1>2, <1>3
<1>5. OrchestratorTypeOK'
  BY <1>1, <1>2, <1>4 DEF OrchestratorTypeOK, V!LockTypeOK
<1>6. ASSUME NEW u \in Runs
      PROVE  /\ run'[u].pc \in Patching => run'[u].patch \in Sources
             /\ run'[u].pc \in Applied => run'[u].backup \in Sources
             /\ lock'[u] \in Judged
  <2>1. CASE u = r
    BY <1>1, <1>2, <1>3, <2>1
  <2>2. CASE u # r
    BY <1>1, <1>2, <1>3, <2>2 DEF RunsHold
  <2> QED  BY <2>1, <2>2
<1> QED  BY <1>5, <1>6 DEF RunsHold, Patching, Applied

-----------------------------------------------------------------------------
(* The review gate.                                                        *)

\* A run that may touch the files was forced, or its finding meets none of the
\* four criteria.
Reviewed ==
    \A r \in Runs :
        run[r].pc \in Applied \cup {"backup"} =>
            run[r].force \/ ~RequiresReview(run[r].finding)

\* The gate is passed once, in Synthesize: no later step changes what the run
\* was called with.
LEMMA ReviewedStep ==
    ASSUME RunsHold, Reviewed, NEW r \in Runs, StepOf(r)
    PROVE  Reviewed'
<1> DEFINE u == run[r]
           Same(q) == q.finding = u.finding /\ q.force = u.force
           Passed(q) == /\ run' = [run EXCEPT ![r] = q]
                        /\ \/ q.pc \notin Applied \cup {"backup"}
                           \/ Same(q) /\ u.pc \in Applied \cup {"backup"}
                           \/ Same(q) /\ ~MustStop(r)
           Goal == \E q : Passed(q)
<1>1. /\ run \in [Runs -> RunStates]
      /\ u \in RunStates
      /\ run = [run EXCEPT ![r] = u]
  BY DEF RunsHold, OrchestratorTypeOK
<1>2. ASSUME Goal
      PROVE  Reviewed'
  <2>1. PICK q : Passed(q)
    BY <1>2
  <2>2. run'[r] = q /\ \A v \in Runs \ {r} : run'[v] = run[v]
    BY <1>1, <2>1
  <2>3. q.pc \in Applied \cup {"backup"} => q.force \/ ~RequiresReview(q.finding)
    <3>1. CASE q.pc \notin Applied \cup {"backup"}
      BY <3>1
    <3>2. CASE Same(q) /\ u.pc \in Applied \cup {"backup"}
      BY <3>2 DEF Reviewed
    <3>3. CASE Same(q) /\ ~MustStop(r)
      BY <3>3 DEF MustStop
    <3> QED  BY <2>1, <3>1, <3>2, <3>3
  <2>4. ASSUME NEW v \in Runs
        PROVE  run'[v].pc \in Applied \cup {"backup"} =>
                   run'[v].force \/ ~RequiresReview(run'[v].finding)
    BY <2>2, <2>3 DEF Reviewed
  <2> QED  BY <2>4 DEF Reviewed, Applied, RequiresReview
<1> SUFFICES Goal
  BY <1>2
<1> HIDE DEF Goal
<1>3. ASSUME NEW q, Passed(q)
      PROVE  Goal
  BY <1>3 DEF Goal
<1>4. ASSUME run' = run
      PROVE  Goal
  <2>1. Passed(u)
    BY <1>1, <1>4
  <2> HIDE DEF Passed
  <2> QED  BY <1>3, <2>1
<1>5. ASSUME NEW pc, run' = [run EXCEPT ![r].pc = pc],
             pc \notin Applied \cup {"backup"} \/ u.pc \in Applied \cup {"backup"}
      PROVE  Goal
  <2> DEFINE q == [u EXCEPT !.pc = pc]
  <2>1. q.pc = pc /\ Same(q)
    BY <1>1 DEF RunStates
  <2>2. run' = [run EXCEPT ![r] = q]
    BY <1>5
  <2>3. Passed(q)
    BY <1>5, <2>1, <2>2
  <2> HIDE DEF q, Passed
  <2> QED  BY <1>3, <2>3
<1>6. ASSUME NEW q, q.pc \notin Applied \cup {"backup"}, run' = [run EXCEPT ![r] = q]
      PROVE  Goal
  <2>1. Passed(q)
    BY <1>6
  <2> HIDE DEF Passed
  <2> QED  BY <1>3, <2>1
<1>7. ASSUME NEW f \in Findings, NEW force \in BOOLEAN, Begin(r, f, force)
      PROVE  Goal
  <2> DEFINE q == [u EXCEPT !.pc = "synthesize", !.finding = f, !.force = force, !.attempt = 1]
  <2>1. q.pc = "synthesize"
    BY <1>1 DEF RunStates
  <2>2. run' = [run EXCEPT ![r] = q]
    BY <1>7 DEF Begin
  <2> HIDE DEF q
  <2> QED  BY <1>6, <2>1, <2>2 DEF Applied
<1>8. CASE Synthesize(r)
  <2>1. PICK p :
           LET read == [u EXCEPT !.base = tree.src, !.patch = p]
           IN  \/ run' = [run EXCEPT ![r] = [read EXCEPT !.pc = "returned", !.state = "abandoned"]]
               \/ run' = [run EXCEPT ![r] = [read EXCEPT !.pc = "recording", !.state = "pending_review"]]
               \/ ~MustStop(r) /\ run' = [run EXCEPT ![r] = [read EXCEPT !.pc = "backup"]]
    BY <1>8 DEF Synthesize
  <2> DEFINE read == [u EXCEPT !.base = tree.src, !.patch = p]
             q1 == [read EXCEPT !.pc = "returned", !.state = "abandoned"]
             q2 == [read EXCEPT !.pc = "recording", !.state = "pending_review"]
             q3 == [read EXCEPT !.pc = "backup"]
  <2>2. q1.pc = "returned" /\ q2.pc = "recording" /\ Same(q3)
    BY <1>1 DEF RunStates
  <2>3. \/ run' = [run EXCEPT ![r] = q1]
        \/ run' = [run EXCEPT ![r] = q2]
        \/ ~MustStop(r) /\ run' = [run EXCEPT ![r] = q3]
    BY <2>1
  <2> HIDE DEF q1, q2, q3
  <2>4. ASSUME ~MustStop(r), run' = [run EXCEPT ![r] = q3]
        PROVE  Goal
    <3>1. Passed(q3)
      BY <2>2, <2>4
    <3> HIDE DEF Passed
    <3> QED  BY <1>3, <3>1
  <2> QED  BY <1>6, <2>2, <2>3, <2>4 DEF Applied
<1>9. CASE Backup(r)
  <2> DEFINE q == [u EXCEPT !.pc = "write", !.backup = tree.src]
  <2>1. Same(q)
    BY <1>1 DEF RunStates
  <2>2. run' = [run EXCEPT ![r] = q] /\ u.pc = "backup"
    BY <1>9 DEF Backup
  <2>3. Passed(q)
    BY <2>1, <2>2
  <2> HIDE DEF q, Passed
  <2> QED  BY <1>3, <2>3
<1>10. CASE Write(r)
  BY <1>5, <1>10 DEF Write, Applied
<1>11. CASE PatchHeader(r)
  <2> DEFINE q == [u EXCEPT !.pc = "verify", !.hdrBackup = tree.hdr]
  <2>1. u.pc = "header" /\ Same(q)
    BY <1>1, <1>11 DEF RunStates, PatchHeader
  <2>2. run' = [run EXCEPT ![r].pc = "verify"] \/ run' = [run EXCEPT ![r] = q]
    BY <1>11 DEF PatchHeader
  <2>3. ASSUME run' = [run EXCEPT ![r] = q]
        PROVE  Goal
    <3>1. Passed(q)
      BY <2>1, <2>3 DEF Applied
    <3> HIDE DEF q, Passed
    <3> QED  BY <1>3, <3>1
  <2> QED  BY <1>5, <2>1, <2>2, <2>3 DEF Applied
<1>12. CASE Verify(r) \/ VerifyFails(r) \/ ThirdLockRaises(r) \/ Record(r)
  BY <1>4, <1>12 DEF Verify, VerifyFails, ThirdLockRaises, Record
<1>13. CASE Verdict(r)
  <2>1. u.pc = "verify" /\ \E pc : run' = [run EXCEPT ![r].pc = pc]
    BY <1>13 DEF Verdict
  <2> QED  BY <1>5, <2>1 DEF Applied
<1>14. CASE Certify(r) \/ RollBackHeader(r)
  <2>1. PICK state : run' = [run EXCEPT ![r].pc = "recording", ![r].state = state]
    BY <1>14 DEF Certify, RollBackHeader
  <2> DEFINE q == [u EXCEPT !.pc = "recording", !.state = state]
  <2>2. q.pc = "recording"
    BY <1>1 DEF RunStates
  <2>3. run' = [run EXCEPT ![r] = q]
    BY <2>1
  <2> HIDE DEF q
  <2> QED  BY <1>6, <2>2, <2>3 DEF Applied
<1>15. CASE RollBack(r)
  BY <1>5, <1>15 DEF RollBack, Applied
<1>16. CASE Recorded(r)
  <2>1. /\ NextAttempt(u).pc = "synthesize"
        /\ Finished(u).pc = "returned"
        /\ run' = [run EXCEPT ![r] = NextAttempt(u)] \/ run' = [run EXCEPT ![r] = Finished(u)]
    BY <1>1, <1>16 DEF Recorded, NextAttempt, Finished, RunStates
  <2> QED  BY <1>6, <2>1 DEF Applied
<1>17. CASE ApplyRaises(r) \/ Die(r)
  BY <1>5, <1>17 DEF ApplyRaises, Die, Gone, Applied
<1>18. CASE RecordRaises(r)
  BY <1>4, <1>5, <1>18 DEF RecordRaises, Applied
<1> QED
  BY <1>7, <1>8, <1>9, <1>10, <1>11, <1>12, <1>13, <1>14, <1>15, <1>16, <1>17, <1>18
     DEF StepOf, Step, Fault

\* Only a run that has passed the gate changes the files, and it moves on as it
\* does.
LEMMA FilesChange ==
    ASSUME RunsHold, NEW r \in Runs, StepOf(r), tree' # tree
    PROVE  run[r].pc \in Applied /\ run'[r] # run[r]
<1>1. run[r] \in RunStates /\ run \in [Runs -> RunStates]
  BY DEF RunsHold, OrchestratorTypeOK
<1>2. CASE Write(r)
  BY <1>1, <1>2 DEF Write, Applied, RunStates
<1>3. CASE PatchHeader(r)
  BY <1>1, <1>3 DEF PatchHeader, Applied, RunStates
<1>4. CASE RollBack(r)
  BY <1>1, <1>4 DEF RollBack, Applied, RunStates
<1>5. CASE RollBackHeader(r)
  BY <1>1, <1>5 DEF RollBackHeader, Applied, RunStates
<1>6. CASE Die(r)
  BY <1>1, <1>6 DEF Die, Gone, WritesSource, WritesHeader, Applied, RunStates
<1> QED
  BY <1>2, <1>3, <1>4, <1>5, <1>6
     DEF StepOf, Step, Fault, Begin, Synthesize, Backup, ApplyRaises, Verify, Verdict, Certify,
         Record, Recorded, VerifyFails, ThirdLockRaises, RecordRaises

\* Doing nothing keeps what an invariant speaks of.
LEMMA Stutter ==
    ASSUME UNCHANGED vars
    PROVE  /\ RunsHold => RunsHold'
           /\ Reviewed => Reviewed'
<1> USE DEF vars
<1>1. RunsHold => RunsHold'
  BY DEF RunsHold, OrchestratorTypeOK, V!LockTypeOK, L!TypeOK, Patching, Applied
<1>2. Reviewed => Reviewed'
  BY DEF Reviewed, RequiresReview, Applied
<1> QED  BY <1>1, <1>2

\* At first no run is anywhere near the files.
LEMMA ReviewedInit == Init => Reviewed
  BY DEF Init, Reviewed, Ready, Applied

\* A step of a run in progress ends it or leaves it in progress, and leaves what
\* it was called with, and the other runs, as they are.
LEMMA RunGoesOn ==
    ASSUME RunsHold, NEW r \in Runs, Step(r) \/ VerifyFails(r)
    PROVE  /\ Active(r)
           /\ run'[r].pc # "idle"
           /\ run'[r].force = run[r].force
           /\ run'[r].finding = run[r].finding
           /\ \A u \in Runs \ {r} : run'[u] = run[u]
<1> DEFINE Goal == /\ Active(r)
                   /\ run'[r].pc # "idle"
                   /\ run'[r].force = run[r].force
                   /\ run'[r].finding = run[r].finding
                   /\ \A u \in Runs \ {r} : run'[u] = run[u]
<1>1. run[r] \in RunStates /\ run \in [Runs -> RunStates]
  BY DEF RunsHold, OrchestratorTypeOK
<1> SUFFICES Goal
  OBVIOUS
<1> USE <1>1 DEF Active, RunStates
<1>0. ASSUME NEW q, Active(r), run' = [run EXCEPT ![r] = q], q.pc # "idle",
             q.force = run[r].force, q.finding = run[r].finding
      PROVE  Goal
  BY <1>0
<1>2. CASE Synthesize(r)
  <2>1. PICK p :
           LET read == [run[r] EXCEPT !.base = tree.src, !.patch = p]
           IN  \/ run' = [run EXCEPT ![r] = [read EXCEPT !.pc = "returned", !.state = "abandoned"]]
               \/ run' = [run EXCEPT ![r] = [read EXCEPT !.pc = "recording", !.state = "pending_review"]]
               \/ run' = [run EXCEPT ![r] = [read EXCEPT !.pc = "backup"]]
    BY <1>2 DEF Synthesize
  <2> DEFINE read == [run[r] EXCEPT !.base = tree.src, !.patch = p]
             q1 == [read EXCEPT !.pc = "returned", !.state = "abandoned"]
             q2 == [read EXCEPT !.pc = "recording", !.state = "pending_review"]
             q3 == [read EXCEPT !.pc = "backup"]
             Kept(q) == q.pc # "idle" /\ q.force = run[r].force /\ q.finding = run[r].finding
  <2>2. Kept(q1) /\ Kept(q2) /\ Kept(q3)
    OBVIOUS
  <2>3. Active(r) /\ \E q \in {q1, q2, q3} : run' = [run EXCEPT ![r] = q]
    BY <1>2, <2>1 DEF Synthesize
  <2> HIDE DEF q1, q2, q3, Goal
  <2>4. PICK q \in {q1, q2, q3} : run' = [run EXCEPT ![r] = q]
    BY <2>3
  <2>5. Kept(q)
    BY <2>2, <2>4
  <2> QED  BY <1>0, <2>3, <2>4, <2>5
<1>3. CASE Backup(r) \/ Write(r) \/ PatchHeader(r)
  BY <1>3 DEF Backup, Write, PatchHeader
<1>4. CASE ApplyRaises(r)
  BY <1>4 DEF ApplyRaises, Gone
<1>5. CASE Verify(r) \/ VerifyFails(r)
  BY <1>5 DEF Verify, VerifyFails
<1>6. CASE Verdict(r)
  <2>1. lock[r].status \in {"certified", "failed", "raised"}
    BY <1>6 DEF RunsHold, Judged, Verdict, V!Take
  <2> QED  BY <1>6, <2>1 DEF Verdict
<1>7. CASE RollBack(r)
  BY <1>7 DEF RollBack
<1>8. CASE Certify(r) \/ RollBackHeader(r)
  <2>1. PICK state : run' = [run EXCEPT ![r].pc = "recording", ![r].state = state]
    BY <1>8 DEF Certify, RollBackHeader
  <2>2. run[r].pc \in {"certify", "rollback_header"}
    BY <1>8 DEF Certify, RollBackHeader
  <2> DEFINE q == [run[r] EXCEPT !.pc = "recording", !.state = state]
  <2>3. q.pc = "recording" /\ q.force = run[r].force /\ q.finding = run[r].finding
    OBVIOUS
  <2>4. run' = [run EXCEPT ![r] = q]
    BY <2>1
  <2> HIDE DEF q, Goal
  <2> QED  BY <1>0, <2>2, <2>3, <2>4
<1>9. CASE Record(r)
  BY <1>9 DEF Record
<1>10. CASE Recorded(r)
  <2> DEFINE Kept(q) == q.pc # "idle" /\ q.force = run[r].force /\ q.finding = run[r].finding
  <2>1. Kept(NextAttempt(run[r])) /\ Kept(Finished(run[r]))
    BY DEF NextAttempt, Finished
  <2>2. /\ run[r].pc = "recording"
        /\ \/ run' = [run EXCEPT ![r] = NextAttempt(run[r])]
           \/ run' = [run EXCEPT ![r] = Finished(run[r])]
    BY <1>10 DEF Recorded
  <2> HIDE DEF Goal
  <2> QED  BY <1>0, <2>1, <2>2
<1> QED  BY <1>2, <1>3, <1>4, <1>5, <1>6, <1>7, <1>8, <1>9, <1>10 DEF Step

=============================================================================
