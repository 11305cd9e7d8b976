----------------------------- MODULE TripleLock -----------------------------
(***************************************************************************)
(* The Triple-Lock verifier: kavach/sandbox/verifier.py running one of the *)
(* regression modules tests/test_regression_*.py.                          *)
(*                                                                         *)
(* verify() takes a patched source through three locks.  Lock 1 builds the *)
(* harness with AddressSanitizer and replays the exploit; lock 2 builds it *)
(* plain and runs it; lock 3 builds it plain once more.  All three write   *)
(* one file, BIN_PATH, and every verifier of the same target shares it.    *)
(* What gcc and the harness make of a source is given by the constants.    *)
(* The source belongs to the callers: the actions that read it take the    *)
(* tree (the .c file and its header) as a parameter.                       *)
(***************************************************************************)
EXTENDS Naturals

CONSTANTS Verifiers,    \* threads and processes in verify()
          Trees,        \* contents of the target's source and header
          AsanBuilds,   \* the trees gcc builds with -fsanitize=address
          PlainBuilds,  \* the trees gcc builds without it
          AsanClean,    \* the trees whose ASan harness exits 0, unreported
          PlainExits    \* for each tree, whether its plain harness can exit
                        \* 0: undefined behaviour may do either

ASSUME BuildsAssumption ==
    /\ AsanBuilds \subseteq Trees
    /\ PlainBuilds \subseteq Trees
    /\ AsanClean \subseteq Trees
    /\ PlainExits \in [Trees -> (SUBSET BOOLEAN) \ {{}}]

VARIABLES bin,   \* the file at BIN_PATH
          lock   \* each verifier's place in verify() and its result

lockVars == <<bin, lock>>

Flavors == {"asan", "plain"}

Binaries == [flavor : Flavors, tree : Trees]

NoBinary == [flavor |-> "none"]

Locks == 1 .. 3

\* exploit_replay_ok, regression_ok and certified_ok start as None; ran keeps
\* the binary each lock judged, for the properties.
Fresh == [pc     |-> "idle",
          k      |-> 1,
          obj    |-> NoBinary,
          ok     |-> [l \in Locks |-> "none"],
          ran    |-> [l \in Locks |-> NoBinary],
          status |-> "pending"]

LockStates == [pc     : {"idle", "build", "link", "run", "done"},
               k      : Locks,
               obj    : Binaries \cup {NoBinary},
               ok     : [Locks -> {"none", "true", "false"}],
               ran    : [Locks -> Binaries \cup {NoBinary}],
               status : {"pending", "certified", "failed", "raised"}]

LockTypeOK ==
    /\ bin \in Binaries \cup {NoBinary}
    /\ lock \in [Verifiers -> LockStates]

\* BIN_PATH may still hold what an earlier process built.
LockInit ==
    /\ bin \in Binaries \cup {NoBinary}
    /\ lock = [v \in Verifiers |-> Fresh]

-----------------------------------------------------------------------------
(* Ways a lock ends.                                                       *)

\* Mutated forms of Flavor: the replay is built without ASan; the third build
\* has a flavour of its own.
FlavorPlain(k) == "plain"
FlavorRelease(k) == IF k = 1 THEN "asan" ELSE IF k = 2 THEN "plain" ELSE "release"

Flavor(k) == IF k = 1 THEN "asan" ELSE "plain"

\* What gcc accepts.
Builds(flavor) == IF flavor = "asan" THEN AsanBuilds ELSE PlainBuilds

\* Whether a run of binary b is clean: returncode 0, and no report from ASan.
Exits(b) == IF b.flavor = "asan" THEN {b.tree \in AsanClean} ELSE PlainExits[b.tree]

\* verify() returns, or an exception leaves it.
Over(l, how) == [l EXCEPT !.pc = "done", !.obj = NoBinary, !.status = how]

\* The mutated form of Opened: the regression lock is skipped.
OpenedSkipping(l) ==
    LET passed == [l EXCEPT !.ok[l.k] = "true", !.obj = NoBinary]
    IN  IF l.k = 3
        THEN Over(passed, "certified")
        ELSE [passed EXCEPT !.pc = "build", !.k = 3]

\* The lock holds: on to the next, or CERTIFIED after the third.
Opened(l) ==
    LET passed == [l EXCEPT !.ok[l.k] = "true", !.obj = NoBinary]
    IN  IF l.k = 3
        THEN Over(passed, "certified")
        ELSE [passed EXCEPT !.pc = "build", !.k = l.k + 1]

\* The lock does not hold: FAILED, without the later locks.
Shut(l) == Over([l EXCEPT !.ok[l.k] = "false"], "failed")

\* What a build that gcc rejects does to the lock.  run_exploit_replay()
\* answers (False, stderr), which verify() reads as "did not crash".
Rejected(l) == IF l.k = 1 THEN Opened(l) ELSE Shut(l)

-----------------------------------------------------------------------------
(* The steps of verify().                                                  *)

\* The regression module is imported, or reloaded.
Load(v) ==
    /\ lock[v].pc = "idle"
    /\ lock' = [lock EXCEPT ![v].pc = "build"]
    /\ UNCHANGED bin

\* An import that raises is a FAILED verification.
LoadFails(v) ==
    /\ lock[v].pc = "idle"
    /\ lock' = [lock EXCEPT ![v] = Over(@, "failed")]
    /\ UNCHANGED bin

\* gcc reads tree t; a build it rejects leaves BIN_PATH as it was.
Compile(v, t) ==
    /\ lock[v].pc = "build"
    /\ LET flavor == Flavor(lock[v].k)
       IN  lock' = [lock EXCEPT ![v] =
                      IF t \in Builds(flavor)
                      THEN [@ EXCEPT !.pc = "link", !.obj = [flavor |-> flavor, tree |-> t]]
                      ELSE Rejected(@)]
    /\ UNCHANGED bin

\* The mutated form of Link: a binary that exists is taken for current.
LinkIfMissing(v) ==
    /\ lock[v].pc = "link"
    /\ bin' = IF bin = NoBinary THEN lock[v].obj ELSE bin
    /\ lock' = [lock EXCEPT ![v] =
                   IF @.k = 3 THEN Opened(@)
                              ELSE [@ EXCEPT !.pc = "run", !.obj = NoBinary]]

\* The linker replaces BIN_PATH.  The third lock asks for no more.
Link(v) ==
    /\ lock[v].pc = "link"
    /\ bin' = lock[v].obj
    /\ lock' = [lock EXCEPT ![v] =
                   IF @.k = 3 THEN Opened(@)
                              ELSE [@ EXCEPT !.pc = "run", !.obj = NoBinary]]

\* The subprocess runs whatever is at BIN_PATH.
Run(v) ==
    /\ lock[v].pc = "run"
    /\ \E clean \in Exits(bin) :
          LET judged == [lock[v] EXCEPT !.ran[lock[v].k] = bin]
          IN  lock' = [lock EXCEPT ![v] = IF clean THEN Opened(judged) ELSE Shut(judged)]
    /\ UNCHANGED bin

\* The mutated form of Caught: an exception counts as the lock saying no.
CaughtShut(v) ==
    /\ lock' = [lock EXCEPT ![v] = Shut(@)]
    /\ UNCHANGED bin

\* Exceptions are caught in the first two locks; the build of the third is
\* outside the try, and what it raises leaves verify().
Caught(v) ==
    /\ lock' = [lock EXCEPT ![v] = Over(@, IF @.k = 3 THEN "raised" ELSE "failed")]
    /\ UNCHANGED bin

\* BIN_PATH cannot be executed while another verifier's linker replaces it.
RunBusy(v) ==
    /\ lock[v].pc = "run"
    /\ \E u \in Verifiers \ {v} : lock[u].pc = "link"
    /\ Caught(v)

\* The compiler or the harness cannot be started.
Fault(v) ==
    /\ lock[v].pc \in {"build", "run"}
    /\ Caught(v)

\* The caller takes the result.
Take(v) ==
    /\ lock[v].pc = "done"
    /\ lock' = [lock EXCEPT ![v] = Fresh]
    /\ UNCHANGED bin

VerifyStep(v, t) == Load(v) \/ Compile(v, t) \/ Link(v) \/ Run(v) \/ RunBusy(v)

VerifyFault(v) == LoadFails(v) \/ Fault(v)

=============================================================================
