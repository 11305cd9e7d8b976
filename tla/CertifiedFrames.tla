--------------------------- MODULE CertifiedFrames ---------------------------
(***************************************************************************)
(* The verifier on frame_alloc.c: the three locks replay one frame, and    *)
(* what they certify has to hold for every other.                          *)
(***************************************************************************)
EXTENDS Verification, FrameAlloc

CONSTANTS Unpatched,  \* the trees whose frame_alloc() is as it was
          Patched,    \* those whose frame_alloc() has the patch
          Samples,    \* num_samples and sample_size of the harness in main()
          SampleSize

Targets == Unpatched \cup Patched

\* The sizes frame_alloc() may allocate for s-byte samples, n of them.
Allocated(t, n, s) == IF t \in Unpatched THEN Unguarded(n, s) ELSE Guarded(n, s)

\* The harness fills the frame it asked for; without one it exits 0 if patched.
Replay(t) == Overrun(Allocated(t, Samples, SampleSize), Samples, SampleSize)

\* The harness shows the bug it was written for, with and without the patch it
\* builds, and ASan reports it exactly where it leaves the buffer.
ASSUME HarnessAssumption ==
    /\ Unpatched \cap Patched = {}
    /\ Targets \subseteq Trees \cap AsanBuilds
    /\ Samples \in Ints
    /\ SampleSize \in Ints
    /\ Overrun(Unguarded(Samples, SampleSize), Samples, SampleSize)
    /\ \A t \in Targets : t \in AsanClean <=> ~Replay(t)

\* The trees whose frame_alloc() gives every caller the bytes it asked for, or
\* nothing, whatever the frame.
Whole == {t \in Targets : \A n, s \in Ints : \A size \in Allocated(t, n, s) : size = n * s}

\* While only frame_alloc() is rewritten, one that the locks certify on one
\* frame was whole at some time of the verification.
CertifiedFramesAreWhole ==
    \A v \in Verifiers : Certified(v) /\ disk \subseteq Targets => disk \cap Whole # {}

=============================================================================
