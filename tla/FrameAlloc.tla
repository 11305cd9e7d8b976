----------------------------- MODULE FrameAlloc -----------------------------
(***************************************************************************)
(* The benchmark frame_alloc.c and the checks that the patch agent puts    *)
(* into it (CWE-190), at the width of their integers.                      *)
(***************************************************************************)
EXTENDS Integers

CONSTANTS IntRange,   \* how many values an int has: 2^32
          SizeRange,  \* how many a size_t has
          MaxBytes    \* FRAME_ALLOC_MAX_BYTES

ASSUME WidthAssumption ==
    /\ IntRange \in Nat \ {0}
    /\ IntRange % 2 = 0
    /\ SizeRange \in Nat
    /\ IntRange <= SizeRange
    /\ MaxBytes \in Nat

Half == IntRange \div 2

Ints == -Half .. Half - 1

\* Overflow of an int is undefined; what gcc -O0 builds wraps.
AsInt(x) == ((x + Half) % IntRange) - Half

AsSize(x) == x % SizeRange

-----------------------------------------------------------------------------
(* Each operator answers with the sizes of the buffer: none for NULL.      *)

\* frame_alloc() as it is.
Unguarded(n, s) == IF n <= 0 \/ s <= 0 THEN {} ELSE {AsSize(AsInt(n * s))}

\* The mutated form of Guarded: only the bound is checked.
GuardedByBound(n, s) ==
    LET total == AsSize(AsSize(n) * AsSize(s))
    IN  IF n <= 0 \/ s <= 0 \/ total > MaxBytes THEN {} ELSE {total}

\* frame_alloc() with the patch of its heuristic: the product of two size_t,
\* divided again, and a bound.
Guarded(n, s) ==
    LET total == AsSize(AsSize(n) * AsSize(s))
    IN  IF n <= 0 \/ s <= 0 \/ total \div AsSize(n) # AsSize(s) \/ total > MaxBytes
        THEN {}
        ELSE {total}

\* malloc(a * b) of any program, with the patch of the generic template.
Generic(a, b) ==
    LET total == AsSize(AsSize(a) * AsSize(b))
    IN  IF a # 0 /\ total \div AsSize(a) # AsSize(b) THEN {} ELSE {total}

\* Whether a caller that writes the bytes it asked for leaves the buffer.
Overrun(sizes, n, s) == \E size \in sizes : size < AsSize(AsSize(n) * AsSize(s))

=============================================================================
