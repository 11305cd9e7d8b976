--------------------------- MODULE MCVerification ---------------------------
(* Small instance of CertifiedFrames: one tree for each way gcc and the    *)
(* harness can treat a source.  The target is frame_alloc.c: orig is as it *)
(* is, fixed and sound have the patch of its heuristic.                    *)
EXTENDS CertifiedFrames, TLC

CONSTANTS orig,      \* builds both ways; ASan reports; plain may exit 0
          fixed,     \* clean both ways
          sound,     \* clean both ways, another patch of it
          fragile,   \* clean under ASan only
          asanless,  \* does not build with ASan; plain exits 0
          plainless, \* builds with ASan only
          broken     \* does not build

MCTrees == {orig, fixed, sound, fragile, asanless, plainless, broken}

MCPlainExits ==
    [t \in Trees |-> CASE t = orig -> {TRUE, FALSE}
                         [] t \in {fixed, sound, asanless} -> {TRUE}
                         [] OTHER -> {FALSE}]

MCAsanClean == {fragile, plainless} \cup {t \in {orig, fixed, sound} : ~Replay(t)}

Symmetry == Permutations(Verifiers)

=============================================================================
