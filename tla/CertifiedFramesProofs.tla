----------------------- MODULE CertifiedFramesProofs -----------------------
(***************************************************************************)
(* The overflow checks of FrameAlloc, proved for integers of any width,    *)
(* and what the verifier's certificate for them is worth.                  *)
(***************************************************************************)
EXTENDS CertifiedFrames, VerificationProofs

-----------------------------------------------------------------------------
(* Division and remainder.                                                 *)

\* The quotient is the largest number of divisors that fit.
LEMMA DivBound ==
    ASSUME NEW t \in Nat, NEW d \in Nat \ {0}
    PROVE  /\ t \div d \in Nat
           /\ d * (t \div d) <= t
           /\ t < d * (t \div d) + d
  BY SMT

\* A remainder is below its modulus, and what is below it stays as it is.
LEMMA ModBound ==
    ASSUME NEW x \in Nat, NEW m \in Nat \ {0}
    PROVE  /\ x % m \in Nat
           /\ x % m < m
           /\ x % m <= x
           /\ x < m => x % m = x
  BY SMT

\* A product is divided back to its factor.
LEMMA Exact ==
    ASSUME NEW q \in Nat, NEW d \in Nat \ {0}
    PROVE  (d * q) \div d = q
<1> DEFINE t == (d * q) \div d
<1>1. t \in Nat /\ d * t <= d * q /\ d * q < d * t + d
  BY DivBound
<1> HIDE DEF t
<1>2. t < q => d * q >= d * (t + 1)
  BY <1>1, SMT
<1>3. t > q => d * t >= d * (q + 1)
  BY <1>1, SMT
<1>4. t = q
  BY <1>1, <1>2, <1>3, SMT
<1> QED  BY <1>4 DEF t

\* A product that wraps is not divided back to its second factor, and one that
\* does not is.
LEMMA DividedBack ==
    ASSUME NEW x \in Nat \ {0}, NEW y \in Nat,
           NEW m \in Nat \ {0}
    PROVE  ((x * y) % m) \div x = y <=> x * y < m
<1> DEFINE p == x * y
           t == p % m
<1>1. p \in Nat
  BY SMT
<1>2. p \div x = y
  BY Exact
<1> HIDE DEF p
<1>3. t \in Nat /\ t < m /\ t <= p /\ (p < m => t = p)
  BY <1>1, ModBound
<1> HIDE DEF t
<1>4. x * (t \div x) <= t
  BY <1>3, DivBound
<1>5. ASSUME t \div x = y
      PROVE  p < m
  BY <1>1, <1>3, <1>4, <1>5, SMT DEF p
<1> QED  BY <1>2, <1>3, <1>5 DEF p, t

\* A size_t, whatever is cast to it.
LEMMA SizeFacts ==
    ASSUME NEW a \in Ints
    PROVE  /\ AsSize(a) \in Nat
           /\ AsSize(a) < SizeRange
           /\ AsSize(a) = 0 <=> a = 0
           /\ a >= 0 => AsSize(a) = a
<1>1. /\ SizeRange \in Nat \ {0}
      /\ a \in Int
      /\ -SizeRange < a
      /\ a < SizeRange
  BY WidthAssumption, SMT DEF Ints, Half
<1>2. CASE a >= 0
  BY <1>1, <1>2, ModBound DEF AsSize
<1>3. CASE a < 0
  <2>1. a % SizeRange = a + SizeRange
    BY <1>1, <1>3, SMT
  <2> QED  BY <1>1, <1>3, <2>1, SMT DEF AsSize
<1> QED  BY <1>1, <1>2, <1>3, SMT

\* frame_alloc() with its patch gives its caller the bytes asked for, or nothing,
\* whatever the frame and however wide an int and a size_t are.
THEOREM GuardedIsWhole ==
    ASSUME NEW n \in Ints, NEW s \in Ints, NEW size \in Guarded(n, s)
    PROVE  size = n * s
<1>1. n \in Int /\ s \in Int /\ n > 0 /\ s > 0
  BY WidthAssumption, SMT DEF Guarded, Ints, Half
<1>2. n \in Nat \ {0} /\ s \in Nat /\ AsSize(n) = n /\ AsSize(s) = s
  BY <1>1, SizeFacts, SMT DEF Ints
<1>3. size = (n * s) % SizeRange /\ size \div n = s
  BY <1>2 DEF Guarded, AsSize
<1>4. SizeRange \in Nat \ {0}
  BY WidthAssumption, SMT
<1>5. n * s < SizeRange
  BY <1>2, <1>3, <1>4, DividedBack
<1>6. n * s \in Nat
  BY <1>2, SMT
<1> QED  BY <1>3, <1>4, <1>5, <1>6, ModBound

\* The generic template is put into programs of which nothing is known.
\* Whatever the two ints are, negative ones included, it refuses the products
\* that a size_t does not hold, and no other.
THEOREM GenericIsExact ==
    ASSUME NEW a \in Ints, NEW b \in Ints
    PROVE  LET product == AsSize(a) * AsSize(b)
           IN  Generic(a, b) = IF product < SizeRange THEN {product} ELSE {}
<1> DEFINE x == AsSize(a)
           y == AsSize(b)
           total == (x * y) % SizeRange
<1>1. SizeRange \in Nat \ {0}
  BY WidthAssumption, SMT
<1>2. x \in Nat /\ y \in Nat /\ (x = 0 <=> a = 0)
  BY SizeFacts
<1>3. Generic(a, b) = IF a # 0 /\ total \div x # y THEN {} ELSE {total}
  BY DEF Generic, AsSize
<1> HIDE DEF x, y
<1>4. x * y \in Nat
  BY <1>2, SMT
<1>5. x * y < SizeRange => total = x * y
  BY <1>1, <1>4, ModBound
<1>6. a # 0 => (total \div x = y <=> x * y < SizeRange)
  BY <1>1, <1>2, DividedBack
<1>7. a = 0 => x * y < SizeRange
  BY <1>1, <1>2, SMT
<1> QED  BY <1>3, <1>5, <1>6, <1>7 DEF x, y

-----------------------------------------------------------------------------
(* The verifier.                                                           *)

\* However verifiers overlap each other and the patches, and however wide the
\* integers are: the one frame that the harness replays is enough, for the
\* unpatched frame_alloc() fails on it and the patched one is whole on all.
THEOREM CertifiedAllocatesWhole == Spec => []CertifiedFramesAreWhole
<1>1. CertifiedIsClean => CertifiedFramesAreWhole
  <2> SUFFICES ASSUME CertifiedIsClean, NEW v \in Verifiers, Certified(v), disk \subseteq Targets
               PROVE  disk \cap Whole # {}
    BY DEF CertifiedFramesAreWhole
  <2>1. PICK t \in disk : t \in AsanBuilds => t \in AsanClean
    BY DEF CertifiedIsClean
  <2>2. t \in Targets /\ ~Replay(t)
    BY <2>1, HarnessAssumption
  <2>3. t \notin Unpatched
    BY <2>2, HarnessAssumption DEF Replay, Allocated
  <2>4. \A n, s \in Ints : \A size \in Allocated(t, n, s) : size = n * s
    BY <2>3, GuardedIsWhole DEF Allocated
  <2> QED  BY <2>2, <2>4 DEF Whole
<1> QED  BY <1>1, NoneCertifiesTheExploitable, PTL

=============================================================================
