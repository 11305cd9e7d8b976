---------------------------- MODULE Verification ----------------------------
(***************************************************************************)
(* The Triple-Lock verifier on one target, whose source is rewritten by    *)
(* patches and rollbacks at any time: apply() and rollback() take no lock, *)
(* and in the backend a second run patches the target, or rolls it back,   *)
(* while the verifier of the first is between two of its builds.           *)
(***************************************************************************)
EXTENDS TripleLock, FiniteSets

CONSTANT MaxOnDisk  \* bound on the sources that one busy period sees

ASSUME MaxOnDiskAssumption == MaxOnDisk \in Nat \ {0}

VARIABLES tree,  \* the source and header on disk
          alone, \* history: the verifiers no other has overlapped with
          disk   \* history: every tree on disk since a verifier last started
                 \* while no other was active

vars == <<lockVars, tree, alone, disk>>

VerificationTypeOK ==
    /\ LockTypeOK
    /\ tree \in Trees
    /\ alone \in [Verifiers -> BOOLEAN]
    /\ disk \subseteq Trees

VerificationInit ==
    /\ LockInit
    /\ tree \in Trees
    /\ alone = [v \in Verifiers |-> TRUE]
    /\ disk = {tree}

Quiet(locks) == \A v \in Verifiers : locks[v].pc = "idle"

\* A patch is applied, or rolled back, whatever the verifiers are at.
Rewrite ==
    /\ tree' \in Trees \ {tree}
    /\ disk' = IF Quiet(lock) THEN {tree'} ELSE disk \cup {tree'}
    /\ Cardinality(disk') <= MaxOnDisk
    /\ UNCHANGED <<lockVars, alone>>

\* From its import to its verdict v shares BIN_PATH with those who are not
\* idle either.
Verify(v) ==
    /\ VerifyStep(v, tree) \/ VerifyFault(v) \/ Take(v)
    /\ alone' = [u \in Verifiers |->
                   \/ lock'[u].pc = "idle"
                   \/ alone[u] /\ \A w \in Verifiers \ {u} : lock'[w].pc = "idle"]
    /\ disk' = IF Quiet(lock') THEN {tree} ELSE disk
    /\ UNCHANGED tree

Next == Rewrite \/ \E v \in Verifiers : Verify(v)

Spec == VerificationInit /\ [][Next]_vars

-----------------------------------------------------------------------------
(* Properties.                                                             *)

Certified(v) == lock[v].status = "certified"

\* In these disk is what a verifier can have seen: the trees on disk since the
\* first of those it overlaps with has begun.  If nobody rewrote the source,
\* that is the one tree there; if somebody did, no verdict says which of them
\* it is about.

\* A target whose sources all build with ASan and are not clean there is never
\* certified, though verifiers replace BIN_PATH and runs rewrite the source
\* under each other: the first of them to build a plain harness has had a
\* clean replay, of a tree that was there.
CertifiedIsClean ==
    \A v \in Verifiers : Certified(v) =>
        /\ \E t \in disk : t \in PlainBuilds
        /\ \E t \in disk : t \in AsanBuilds => t \in AsanClean

\* A verification that none overlapped certifies only if the plain harness of
\* a source it found there can exit 0 as well.  With two, the plain half is
\* not safe: the ASan binary of one can answer for the plain one of the other.
CertifiedIsProven ==
    \A v \in Verifiers : Certified(v) /\ alone[v] =>
        \E t \in disk : TRUE \in PlainExits[t]

\* While every source put on the disk builds both ways and is clean both ways,
\* no lock says no, even when verifications overlap each other and the
\* patches: only a compiler or a harness that cannot be started fails one.
SoundSourceIsNotShut ==
    /\ disk \subseteq AsanBuilds \cap PlainBuilds \cap AsanClean
    /\ \A t \in disk : PlainExits[t] = {TRUE}
    => \A v \in Verifiers, k \in Locks : lock[v].ok[k] # "false"

\* A verification that none overlapped judges, at each lock, a binary of that
\* lock's flavour and of a source it found there, though BIN_PATH may hold an
\* older one.
JudgedItsOwnBinary ==
    \A v \in Verifiers, k \in 1 .. 2 :
        alone[v] /\ lock[v].ran[k] # NoBinary =>
            \E t \in disk : lock[v].ran[k] = [flavor |-> Flavor(k), tree |-> t]

\* verify() promises CERTIFIED only if the known exploit no longer crashes
\* the ASan-built binary: the replay ran one.
CertifiedWasReplayed ==
    \A v \in Verifiers : Certified(v) => lock[v].ran[1].flavor = "asan"

=============================================================================
