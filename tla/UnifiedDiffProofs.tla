-------------------------- MODULE UnifiedDiffProofs --------------------------
(***************************************************************************)
(* Diffs replay to what they were made from, for any texts: what           *)
(* difflib.unified_diff() writes, _apply_unified_diff() reads.             *)
(***************************************************************************)
EXTENDS UnifiedDiff, SequenceTheorems, FiniteSetTheorems, WellFoundedInduction, TLAPS

-----------------------------------------------------------------------------
(* Induction, as facts about sets.                                         *)

\* A set of numbers has a least one.
LEMMA LeastNumber ==
    ASSUME NEW T \in SUBSET Nat, T # {}
    PROVE  \E n \in T : \A m \in T : n <= m
<1>1. IsWellFoundedOn(OpToRel(<, Nat), Nat)
  BY NatLessThanWellFounded
<1>2. PICK n \in T : \A m \in T : <<m, n>> \notin OpToRel(<, Nat)
  BY <1>1, WFMin
<1>3. \A m \in T : ~(m < n)
  BY <1>2 DEF OpToRel
<1> QED  BY <1>3

\* What has 0 and, with each number below n, the next, has all up to n.
LEMMA CountingUp ==
    ASSUME NEW n \in Nat, NEW T, 0 \in T, \A i \in 0 .. n - 1 : i \in T => i + 1 \in T
    PROVE  0 .. n \subseteq T
<1> SUFFICES ASSUME ~(0 .. n \subseteq T)
             PROVE  FALSE
  OBVIOUS
<1> DEFINE Missing == (0 .. n) \ T
<1>1. Missing \in SUBSET Nat /\ Missing # {}
  OBVIOUS
<1>2. PICK i \in Missing : \A j \in Missing : i <= j
  BY <1>1, LeastNumber
<1>3. i \in 1 .. n
  BY <1>2
<1>4. i - 1 \in T
  BY <1>2, <1>3
<1> QED  BY <1>2, <1>3, <1>4

\* Of subsets of a finite set, one has no other with an element less.
LEMMA LeastSubset ==
    ASSUME NEW S, IsFiniteSet(S), NEW B \in SUBSET (SUBSET S), B # {}
    PROVE  \E s \in B : \A x \in s : s \ {x} \notin B
<1> DEFINE Sizes == {Cardinality(s) : s \in B}
<1>1. \A s \in B : IsFiniteSet(s) /\ Cardinality(s) \in Nat
  BY FS_Subset, FS_CardinalityType
<1>2. Sizes \in SUBSET Nat /\ Sizes # {}
  BY <1>1
<1>3. PICK n \in Sizes : \A m \in Sizes : n <= m
  BY <1>2, LeastNumber
<1>4. PICK s \in B : Cardinality(s) = n
  BY <1>3
<1>5. \A x \in s : Cardinality(s \ {x}) = n - 1
  BY <1>1, <1>4, FS_RemoveElement
<1>6. n \in Nat
  BY <1>2, <1>3
<1>7. \A x \in s : s \ {x} \notin B
  BY <1>3, <1>5, <1>6
<1> QED  BY <1>4, <1>7

-----------------------------------------------------------------------------
(* What is defined by recursion exists.                                    *)

\* The places below x, and a function there.
Lower(rank, x) == {y \in DOMAIN rank : rank[y] < rank[x]}

Told(f, rank, x) == [y \in Lower(rank, x) |-> f[y]]

\* A step makes a value from those at the places below.
Steps(rank, A, step) == \A x \in DOMAIN rank : \A h \in [Lower(rank, x) -> A] : step[x][h] \in A

\* A function whose value at each place is made from those at lower places.
Recurs(f, rank, step) == \A x \in DOMAIN rank : f[x] = step[x][Told(f, rank, x)]

LEMMA RecursionExists ==
    ASSUME NEW S, NEW A, NEW n \in Nat, NEW rank \in [S -> 0 .. n],
           NEW step, Steps(rank, A, step)
    PROVE  \E f \in [S -> A] : Recurs(f, rank, step)
<1> USE DEF Lower, Told, Steps
<1> DEFINE Below(m) == {x \in S : rank[x] < m}
           Defines(m, f) == \A x \in Below(m) : f[x] = step[x][Told(f, rank, x)]
           T == {m \in 0 .. n + 1 : \E f \in [Below(m) -> A] : Defines(m, f)}
<1>1. 0 \in T
  <2> DEFINE f == [x \in {} |-> {}]
  <2>1. Below(0) = {}
    OBVIOUS
  <2>2. f \in [Below(0) -> A] /\ Defines(0, f)
    BY <2>1
  <2> HIDE DEF f, Below, Defines
  <2> QED  BY <2>2
<1>2. ASSUME NEW m \in 0 .. n, m \in T
      PROVE  m + 1 \in T
  <2>1. PICK f \in [Below(m) -> A] : Defines(m, f)
    BY <1>2
  <2> DEFINE Tell(x) == Told(f, rank, x)
             g == [x \in Below(m + 1) |-> IF x \in Below(m) THEN f[x] ELSE step[x][Tell(x)]]
  <2>2. \A x \in Below(m + 1) : Lower(rank, x) \subseteq Below(m)
    OBVIOUS
  <2>3. \A x \in Below(m + 1) : Tell(x) \in [Lower(rank, x) -> A]
    BY <2>2
  <2>4. g \in [Below(m + 1) -> A]
    <3>1. \A x \in Below(m + 1) : step[x][Tell(x)] \in A
      BY <2>3
    <3> HIDE DEF Tell
    <3> QED  BY <3>1
  <2>5. \A x \in Below(m) : x \in Below(m + 1) /\ g[x] = f[x]
    OBVIOUS
  <2>6. \A x \in Below(m + 1) : Told(g, rank, x) = Tell(x)
    <3> HIDE DEF g
    <3> QED  BY <2>2, <2>5
  <2>7. \A x \in Below(m + 1) : g[x] = step[x][Tell(x)]
    <3>1. \A x \in Below(m) : f[x] = step[x][Tell(x)]
      BY <2>1
    <3> HIDE DEF Tell
    <3> QED  BY <3>1
  <2>8. Defines(m + 1, g)
    BY <2>6, <2>7
  <2> HIDE DEF g, Below, Defines
  <2>9. \E h \in [Below(m + 1) -> A] : Defines(m + 1, h)
    BY <2>4, <2>8
  <2> QED  BY <2>9
<1>3. n + 1 \in T
  <2> HIDE DEF T
  <2>1. 0 .. n + 1 \subseteq T
    BY <1>1, <1>2, CountingUp
  <2> QED  BY <2>1
<1>4. Below(n + 1) = S
  OBVIOUS
<1>5. PICK f \in [S -> A] : \A x \in S : f[x] = step[x][Told(f, rank, x)]
  BY <1>3, <1>4
<1>6. Recurs(f, rank, step)
  BY <1>5 DEF Recurs
<1> QED  BY <1>6

\* A fold over the subsets of a set: the first element of each is taken last.
Picks(first, S) == \A s \in (SUBSET S) \ {{}} : first[s] \in s

IsFold(iter, base, step, first, S) ==
    \A s \in SUBSET S :
        iter[s] = IF s = {} THEN base ELSE step[first[s]][iter[s \ {first[s]}]]

LEMMA FoldExists ==
    ASSUME NEW S, IsFiniteSet(S), NEW A, NEW base \in A,
           NEW first, Picks(first, S),
           NEW step, \A x \in S, a \in A : step[x][a] \in A
    PROVE  \E iter : /\ iter \in [SUBSET S -> A]
                     /\ IsFold(iter, base, step, first, S)
<1> USE DEF Picks
<1> DEFINE n == Cardinality(S)
           rank == [s \in SUBSET S |-> Cardinality(s)]
           rest == [s \in SUBSET S |-> s \ {first[s]}]
           fold == [s \in SUBSET S |-> [h \in [Lower(rank, s) -> A] |->
                      IF s = {} THEN base ELSE step[first[s]][h[rest[s]]]]]
<1>1. \A s \in SUBSET S : IsFiniteSet(s) /\ Cardinality(s) \in 0 .. n
  BY FS_Subset, FS_CardinalityType
<1>2. n \in Nat /\ rank \in [SUBSET S -> 0 .. n]
  BY <1>1
<1>3. ASSUME NEW s \in (SUBSET S) \ {{}}
      PROVE  first[s] \in S /\ rest[s] \in Lower(rank, s)
  <2>1. Cardinality(rest[s]) = Cardinality(s) - 1
    BY <1>1, FS_RemoveElement
  <2> QED  BY <1>1, <2>1 DEF Lower
<1> HIDE DEF n, rank, rest
<1>4. Steps(rank, A, fold)
  <2>1. \A s \in SUBSET S : \A h \in [Lower(rank, s) -> A] : fold[s][h] \in A
    BY <1>3
  <2> HIDE DEF fold
  <2> QED  BY <1>2, <2>1 DEF Steps
<1>5. PICK iter \in [SUBSET S -> A] : Recurs(iter, rank, fold)
  <2> DEFINE P == SUBSET S
  <2>1. rank \in [P -> 0 .. n]
    BY <1>2
  <2> HIDE DEF fold, P
  <2>2. \E iter \in [P -> A] : Recurs(iter, rank, fold)
    BY <1>2, <1>4, <2>1, RecursionExists
  <2> QED  BY <2>2 DEF P
<1>6. ASSUME NEW s \in SUBSET S
      PROVE  iter[s] = IF s = {} THEN base ELSE step[first[s]][iter[s \ {first[s]}]]
  <2> DEFINE h == Told(iter, rank, s)
  <2>1. h \in [Lower(rank, s) -> A] /\ iter[s] = fold[s][h]
    BY <1>2, <1>5 DEF Recurs, Told, Lower
  <2>2. s # {} => h[rest[s]] = iter[s \ {first[s]}]
    BY <1>3 DEF rest, Told
  <2> HIDE DEF h
  <2> QED  BY <2>1, <2>2
<1>7. IsFold(iter, base, step, first, S)
  BY <1>6, Zenon DEF IsFold
<1> QED  BY <1>7

-----------------------------------------------------------------------------
(* The folds of the library, one element after the other.                  *)

\* The greatest of some of the numbers from 1 to n.
LEMMA MaxIsGreatest ==
    ASSUME NEW n \in Nat, NEW s \in SUBSET (1 .. n), s # {}
    PROVE  Max(s) \in s /\ \A i \in s : i <= Max(s)
<1> DEFINE T == {n - i : i \in s}
<1>1. T \in SUBSET Nat /\ T # {}
  <2>1. PICK i \in s : n - i \in T
    OBVIOUS
  <2> QED  BY <2>1
<1>2. PICK m \in T : \A k \in T : m <= k
  BY <1>1, LeastNumber
<1>3. PICK i \in s : m = n - i
  BY <1>2
<1>4. \A j \in s : i >= j
  <2>1. \A j \in s : n - j \in T /\ j \in Int
    OBVIOUS
  <2> HIDE DEF T
  <2> QED  BY <1>2, <1>3, <2>1
<1> QED  BY <1>4 DEF Max

\* FlattenSeq() concatenates from the left.
LEMMA FlattenIsStepwise ==
    ASSUME NEW V, NEW seqs \in Seq(Seq(V))
    PROVE  \E flat \in [0 .. Len(seqs) -> Seq(V)] :
              /\ flat[0] = <<>>
              /\ \A i \in 1 .. Len(seqs) : flat[i] = flat[i - 1] \o seqs[i]
              /\ FlattenSeq(seqs) = flat[Len(seqs)]
<1> DEFINE n == Len(seqs)
           A == Seq(V)
           rank == [i \in 0 .. n |-> i]
           join == [i \in 0 .. n |-> [h \in [Lower(rank, i) -> A] |->
                      IF i = 0 THEN <<>> ELSE h[i - 1] \o seqs[i]]]
<1>1. n \in Nat /\ \A i \in 1 .. n : seqs[i] \in A
  BY LenProperties, ElementOfSeq
<1>2. rank \in [0 .. n -> 0 .. n] /\ \A i \in 1 .. n : i - 1 \in Lower(rank, i)
  BY <1>1 DEF Lower
<1> HIDE DEF n, rank
<1>3. Steps(rank, A, join)
  <2>1. \A i \in 0 .. n : \A h \in [Lower(rank, i) -> A] : join[i][h] \in A
    <3> SUFFICES ASSUME NEW i \in 0 .. n, NEW h \in [Lower(rank, i) -> A]
                 PROVE  (IF i = 0 THEN <<>> ELSE h[i - 1] \o seqs[i]) \in A
      OBVIOUS
    <3>1. CASE i = 0
      BY <3>1, EmptySeq
    <3>2. CASE i # 0
      <4>1. h[i - 1] \in Seq(V) /\ seqs[i] \in Seq(V)
        BY <1>1, <1>2, <3>2
      <4> QED  BY <3>2, <4>1, ConcatProperties
    <3> QED  BY <3>1, <3>2
  <2> HIDE DEF join, A
  <2> QED  BY <1>2, <2>1 DEF Steps
<1>4. PICK flat \in [0 .. n -> A] : Recurs(flat, rank, join)
  <2> DEFINE P == 0 .. n
  <2>1. n \in Nat /\ rank \in [P -> 0 .. n]
    BY <1>1, <1>2
  <2> HIDE DEF join, A, P
  <2>2. \E f \in [P -> A] : Recurs(f, rank, join)
    BY <1>3, <2>1, RecursionExists
  <2> QED  BY <2>2 DEF P
<1>5. ASSUME NEW i \in 0 .. n
      PROVE  flat[i] = IF i = 0 THEN <<>> ELSE flat[i - 1] \o seqs[i]
  <2> DEFINE h == Told(flat, rank, i)
  <2>1. h \in [Lower(rank, i) -> A] /\ flat[i] = join[i][h]
    BY <1>2, <1>4 DEF Recurs, Told, Lower
  <2>2. i # 0 => h[i - 1] = flat[i - 1]
    BY <1>2 DEF Told
  <2> HIDE DEF h, A
  <2> QED  BY <2>1, <2>2
<1> HIDE DEF join, A
<1>6. flat[0] = <<>> /\ \A i \in 1 .. n : flat[i] = flat[i - 1] \o seqs[i]
  BY <1>1, <1>5
<1>7. FlattenSeq(seqs) = flat[n]
  <2>1. CASE n = 0
    <3>1. seqs = <<>>
      BY <2>1, EmptySeq DEF n
    <3> QED  BY <1>6, <2>1, <3>1 DEF FlattenSeq
  <2>2. CASE n # 0
    <3> DEFINE Joins(g) == g = [i \in 1 .. n |-> IF i = 1 THEN seqs[i] ELSE g[i - 1] \o seqs[i]]
               f == [i \in 1 .. n |-> flat[i]]
               g == CHOOSE g : Joins(g)
    <3>1. FlattenSeq(seqs) = g[n]
      BY <2>2 DEF FlattenSeq, n
    <3>2. 1 \in 1 .. n /\ flat[1] = seqs[1]
      <4>1. 1 \in 1 .. n /\ 1 - 1 = 0
        BY <1>1, <2>2
      <4>2. flat[1] = flat[0] \o seqs[1] /\ seqs[1] \in Seq(V)
        BY <1>1, <1>6, <4>1 DEF A
      <4> QED  BY <1>6, <4>1, <4>2, ConcatEmptySeq
    <3>3. Joins(f)
      <4>1. \A i \in 1 .. n : f[i] = IF i = 1 THEN seqs[i] ELSE flat[i - 1] \o seqs[i]
        BY <1>6, <3>2
      <4>2. \A i \in 1 .. n : i # 1 => f[i - 1] = flat[i - 1]
        BY <1>1
      <4> QED  BY <4>1, <4>2
    <3>4. Joins(g)
      <4> HIDE DEF Joins, f
      <4> QED  BY <3>3
    <3> HIDE DEF g
    <3>5. \A i \in 1 .. n : g[i] = IF i = 1 THEN seqs[i] ELSE g[i - 1] \o seqs[i]
      BY <3>4
    <3> DEFINE T == {i \in 0 .. n : i # 0 => g[i] = flat[i]}
    <3>6. 0 \in T
      BY <1>1
    <3>7. ASSUME NEW i \in 0 .. n - 1, i \in T
          PROVE  i + 1 \in T
      <4> DEFINE k == i + 1
      <4>1. k \in 1 .. n /\ k - 1 = i /\ k \in 0 .. n
        BY <1>1
      <4>2. flat[k] = flat[i] \o seqs[k]
        BY <1>6, <4>1
      <4>3. g[k] = IF k = 1 THEN seqs[k] ELSE g[i] \o seqs[k]
        BY <3>5, <4>1
      <4>4. k # 1 => g[i] = flat[i]
        BY <3>7, <4>1
      <4> HIDE DEF k
      <4>5. g[k] = flat[k]
        BY <3>2, <4>2, <4>3, <4>4
      <4> QED  BY <4>1, <4>5 DEF k
    <3>8. n \in T
      <4> HIDE DEF T
      <4>1. 0 .. n \subseteq T
        BY <1>1, <3>6, <3>7, CountingUp
      <4> QED  BY <1>1, <4>1
    <3> QED  BY <2>2, <3>1, <3>8
  <2> QED  BY <2>1, <2>2
<1> QED  BY <1>6, <1>7 DEF n, A

\* What is concatenated later leaves the beginning as it is.
Begins(s, t) == Len(s) <= Len(t) /\ \A k \in 1 .. Len(s) : t[k] = s[k]

Joined(flat, parts, n) == \A i \in 1 .. n : flat[i] = flat[i - 1] \o parts[i]

LEMMA FlatGrows ==
    ASSUME NEW V, NEW n \in Nat, NEW parts \in [1 .. n -> Seq(V)],
           NEW flat \in [0 .. n -> Seq(V)], Joined(flat, parts, n),
           NEW i \in 0 .. n
    PROVE  Begins(flat[i], flat[n])
<1> USE DEF Begins
<1> DEFINE Keeps(j) == Begins(flat[i], flat[j])
           T == {j \in 0 .. n : i <= j => Keeps(j)}
<1>1. \A j \in 0 .. n : flat[j] \in Seq(V) /\ Len(flat[j]) \in Nat
  BY LenProperties
<1>2. 0 \in T
  BY <1>1
<1>3. ASSUME NEW j \in 0 .. n - 1, j \in T
      PROVE  j + 1 \in T
  <2> SUFFICES ASSUME i <= j + 1
               PROVE  Keeps(j + 1)
    OBVIOUS
  <2>1. CASE i = j + 1
    BY <1>1, <2>1
  <2>2. CASE i # j + 1
    <3>1. Keeps(j) /\ j + 1 \in 1 .. n /\ j \in 0 .. n
      BY <1>3, <2>2
    <3>2. flat[j + 1] = flat[j] \o parts[j + 1] /\ parts[j + 1] \in Seq(V)
      BY <3>1 DEF Joined
    <3>3. /\ Len(flat[j + 1]) = Len(flat[j]) + Len(parts[j + 1])
          /\ Len(parts[j + 1]) \in Nat
          /\ \A k \in 1 .. Len(flat[j]) : flat[j + 1][k] = flat[j][k]
      BY <1>1, <3>1, <3>2, ConcatProperties, LenProperties
    <3> QED  BY <1>1, <3>1, <3>3
  <2> QED  BY <2>1, <2>2
<1>4. n \in T
  <2> HIDE DEF T
  <2>1. 0 .. n \subseteq T
    BY <1>2, <1>3, CountingUp
  <2> QED  BY <2>1
<1> QED  BY <1>4

\* Parts of one line each are joined to these lines.
Singly(parts, lines, i) == i <= Len(lines) /\ \A j \in 1 .. i : parts[j] = <<lines[j]>>

Reads(f, lines, i) == f[i] = SubSeq(lines, 1, i)

LEMMA LinesJoined ==
    ASSUME NEW V, NEW n \in Nat, NEW i \in 0 .. n,
           NEW lines \in Seq(V), NEW parts, Singly(parts, lines, i),
           NEW f \in [0 .. n -> Seq(V)], f[0] = <<>>, Joined(f, parts, n)
    PROVE  Reads(f, lines, i)
<1> DEFINE Low(j) == SubSeq(lines, 1, j)
           T == {j \in 0 .. i : f[j] = Low(j)}
<1>1. Len(lines) \in Nat
  BY LenProperties
<1>2. 0 \in T
  <2>1. Low(0) = <<>>
    BY SubSeqEmpty
  <2> QED  BY <2>1
<1>3. ASSUME NEW j \in 0 .. i - 1, j \in T
      PROVE  j + 1 \in T
  <2> DEFINE k == j + 1
  <2>1. k \in 1 .. n /\ k \in 1 .. i /\ k - 1 = j /\ k \in 1 .. Len(lines)
    BY <1>1 DEF Singly
  <2>2. Low(k) = Low(j) \o <<lines[k]>>
    <3>1. \A m \in 1 .. k : lines[m] \in V
      BY <1>1, <2>1, ElementOfSeq
    <3> QED  BY <2>1, <3>1
  <2>3. f[k] = f[j] \o <<lines[k]>>
    BY <2>1 DEF Joined, Singly
  <2>4. f[j] = Low(j)
    BY <1>3
  <2> HIDE DEF k, Low
  <2>5. f[k] = Low(k)
    BY <2>2, <2>3, <2>4
  <2> QED  BY <2>1, <2>5 DEF k
<1>4. i \in T
  <2>1. i \in Nat
    OBVIOUS
  <2> HIDE DEF T
  <2>2. 0 .. i \subseteq T
    BY <1>2, <1>3, <2>1, CountingUp
  <2> QED  BY <2>1, <2>2
<1> QED  BY <1>4 DEF Reads

\* Lines that each end before the next are split as they were joined.
LEMMA ResplitKeeps ==
    ASSUME NEW V, NEW diff \in Seq(V), \A i \in 1 .. Len(diff) - 1 : ~Unfinished(diff[i])
    PROVE  Resplit(diff) = diff
<1> DEFINE n == Len(diff)
           part(i) == IF i > 1 /\ Unfinished(diff[i - 1]) THEN <<>> ELSE <<diff[i]>>
           parts == [i \in 1 .. n |-> <<diff[i]>>]
<1>1. n \in Nat /\ DOMAIN diff = 1 .. n /\ \A i \in 1 .. n : diff[i] \in V
  BY LenProperties, ElementOfSeq
<1>2. \A i \in 1 .. n : part(i) = <<diff[i]>>
  BY <1>1
<1>3. Resplit(diff) = FlattenSeq(parts)
  <2>1. [i \in DOMAIN diff |-> part(i)] = parts
    BY <1>1, <1>2
  <2> HIDE DEF parts
  <2> QED  BY <2>1 DEF Resplit
<1> HIDE DEF part
<1>4. parts \in Seq(Seq(V)) /\ Len(parts) = n
  BY <1>1
<1>5. Singly(parts, diff, n)
  BY <1>1 DEF Singly
<1> HIDE DEF parts
<1>6. PICK flat \in [0 .. Len(parts) -> Seq(V)] :
          /\ flat[0] = <<>>
          /\ \A i \in 1 .. Len(parts) : flat[i] = flat[i - 1] \o parts[i]
          /\ FlattenSeq(parts) = flat[Len(parts)]
  BY <1>4, FlattenIsStepwise
<1>7. flat \in [0 .. n -> Seq(V)] /\ Joined(flat, parts, n) /\ n \in 0 .. n
  BY <1>1, <1>4, <1>6 DEF Joined
<1> HIDE DEF n
<1>8. flat[n] = SubSeq(diff, 1, n)
  <2>1. Reads(flat, diff, n)
    BY <1>1, <1>5, <1>6, <1>7, LinesJoined
  <2> QED  BY <2>1 DEF Reads
<1>9. SubSeq(diff, 1, n) = diff
  BY SubSeqFull DEF n
<1> QED  BY <1>3, <1>4, <1>6, <1>8, <1>9

-----------------------------------------------------------------------------
(* Where readlines() ends the lines of a text.                             *)

\* A text that readlines() and splitlines() take apart in the same places.
Unpaged(text) == Range(text) \cap Paged = {}

LEMMA UnpagedEnds ==
    ASSUME NEW V, NEW a \in Seq(V), Unpaged(a)
    PROVE  /\ Cardinality(Ends(a)) = Len(a)
           /\ \A n \in 0 .. Len(a) : EndOf(a, n) = n
<1>1. Len(a) \in Nat /\ DOMAIN a = 1 .. Len(a)
  BY LenProperties
<1>2. Ends(a) = 1 .. Len(a)
  BY <1>1 DEF Ends, Unpaged, Range
<1>3. \A n \in Nat : Cardinality(1 .. n) = n
  BY FS_Interval
<1> DEFINE m == Len(a)
<1> HIDE DEF m
<1>4. m \in Nat /\ Ends(a) = 1 .. m
  BY <1>1, <1>2 DEF m
<1>5. ASSUME NEW n \in 0 .. m
      PROVE  EndOf(a, n) = n
  <2>1. \A e \in {0} \cup Ends(a) : Cardinality(Ends(a) \cap 1 .. e) = e
    <3> SUFFICES ASSUME NEW e \in 0 .. m
                 PROVE  Cardinality((1 .. m) \cap 1 .. e) = e
      BY <1>4
    <3>1. (1 .. m) \cap 1 .. e = 1 .. e /\ e \in Nat
      BY <1>4
    <3> QED  BY <1>3, <3>1
  <2>2. n \in {0} \cup Ends(a)
    BY <1>4
  <2> QED  BY <2>1, <2>2 DEF EndOf
<1> QED  BY <1>3, <1>4, <1>5 DEF m

LEMMA NothingToCopy ==
    ASSUME NEW a, NEW s, s.next \in Int, NEW n \in Int, s.next > n
    PROVE  CopyTo(a, s, n) = s
BY DEF CopyTo

\* Of such a text, as many lines are copied as are counted.
LEMMA UnpagedCopy ==
    ASSUME NEW V, NEW a \in Seq(V), Unpaged(a), NEW s, s.next \in Nat \ {0},
           NEW n \in Int, n <= Len(a), ~(s.next > n)
    PROVE  CopyTo(a, s, n) = [next |-> n + 1, result |-> s.result \o SubSeq(a, s.next, n)]
<1>1. Len(a) \in Nat /\ Cardinality(Ends(a)) = Len(a)
  BY LenProperties, UnpagedEnds
<1>2. n \in 0 .. Len(a) /\ s.next - 1 \in 0 .. Len(a) /\ (s.next - 1) + 1 = s.next
  BY <1>1
<1>3. EndOf(a, n) = n /\ EndOf(a, s.next - 1) = s.next - 1
  BY <1>2, UnpagedEnds
<1>4. s.next <= n /\ n <= Cardinality(Ends(a))
  BY <1>1
<1> QED  BY <1>2, <1>3, <1>4 DEF CopyTo

-----------------------------------------------------------------------------
(* Replaying a diff, one line after the other.                             *)

ScriptLines(V) == [op : {" ", "+", "-"}, line : V]

DiffLines(V) == ScriptLines(V) \cup [op : {"@"}, start : Nat]

\* _apply_unified_diff() before the first line of the diff.
Start == [next |-> 1, result |-> <<>>]

Results(V) == [next : Nat \ {0}, result : Seq(V \cup {"IndexError"})]

LEMMA SeqOfMore ==
    ASSUME NEW V, NEW W, V \subseteq W, NEW a \in Seq(V)
    PROVE  a \in Seq(W)
OBVIOUS

\* Whatever the diff, its replay appends lines to a result.
LEMMA ReplayAppends ==
    ASSUME NEW V, NEW original \in Seq(V), Unpaged(original),
           NEW s \in Results(V), NEW d \in DiffLines(V)
    PROVE  Replay(original, s, d) \in Results(V)
<1> DEFINE W == V \cup {"IndexError"}
<1>0. s \in [next : Nat \ {0}, result : Seq(W)] /\ V \subseteq W
  BY DEF Results
<1>1. CASE d \in ScriptLines(V)
  <2>1. d.op \in {" ", "+", "-"} /\ d.line \in W
    BY <1>0, <1>1 DEF ScriptLines
  <2> HIDE DEF W
  <2>2. Append(s.result, d.line) \in Seq(W)
    BY <1>0, <2>1, AppendProperties
  <2>3. CASE d.op = " "
    <3>1. Replay(original, s, d) = [next |-> s.next + 1, result |-> Append(s.result, d.line)]
      BY <2>3 DEF Replay
    <3>2. s.next + 1 \in Nat \ {0}
      BY <1>0
    <3> QED  BY <2>2, <3>1, <3>2 DEF Results, W
  <2>4. CASE d.op = "+"
    BY <1>0, <2>2, <2>4 DEF Replay, Results, W
  <2>5. CASE d.op = "-"
    BY <1>0, <2>5 DEF Replay, Results, W
  <2> QED  BY <2>1, <2>3, <2>4, <2>5
<1>2. CASE d \notin ScriptLines(V)
  <2>1. d.op = "@" /\ d.start \in Nat
    BY <1>2 DEF DiffLines
  <2> DEFINE n == d.start - 1
  <2>2. Replay(original, s, d) = CopyTo(original, s, n) /\ n \in Int
    BY <2>1 DEF Replay
  <2>3. original \in Seq(W) /\ Len(original) \in Nat /\ Cardinality(Ends(original)) = Len(original)
    BY <1>0, LenProperties, UnpagedEnds, SeqOfMore
  <2> HIDE DEF n, W
  <2>4. CASE s.next > n
    <3>1. CopyTo(original, s, n) = s
      BY <1>0, <2>2, <2>4, NothingToCopy
    <3> QED  BY <2>2, <3>1
  <2>5. CASE ~(s.next > n) /\ n <= Len(original)
    <3>1. CopyTo(original, s, n)
             = [next |-> n + 1, result |-> s.result \o SubSeq(original, s.next, n)]
      BY <1>0, <2>2, <2>5, UnpagedCopy
    <3>2. \A i \in s.next .. n : original[i] \in W
      BY <1>0, <2>2, <2>3, <2>5, ElementOfSeq
    <3>3. SubSeq(original, s.next, n) \in Seq(W)
      BY <1>0, <2>2, <3>2, SubSeqProperties
    <3>4. s.result \o SubSeq(original, s.next, n) \in Seq(W)
      BY <1>0, <3>3, ConcatProperties
    <3>5. n + 1 \in Nat \ {0}
      BY <1>0, <2>2, <2>5
    <3> QED  BY <2>2, <3>1, <3>4, <3>5 DEF Results, W
  <2>6. CASE ~(s.next > n) /\ ~(n <= Len(original))
    <3>1. CopyTo(original, s, n) = [s EXCEPT !.result = Append(@, "IndexError")]
      BY <1>0, <2>2, <2>3, <2>6 DEF CopyTo
    <3>2. Append(s.result, "IndexError") \in Seq(W)
      <4>1. "IndexError" \in W
        BY DEF W
      <4> QED  BY <1>0, <4>1, AppendProperties
    <3> QED  BY <1>0, <2>2, <3>1, <3>2 DEF Results, W
  <2> QED  BY <2>4, <2>5, <2>6
<1> QED  BY <1>1, <1>2

LEMMA ReplayIsStepwise ==
    ASSUME NEW V, NEW original \in Seq(V), Unpaged(original),
           NEW diff \in Seq(DiffLines(V)), Resplit(diff) = diff
    PROVE  \E st : /\ st[0] = Start
                   /\ \A i \in 1 .. Len(diff) : st[i] = Replay(original, st[i - 1], diff[i])
                   /\ ApplyDiff(original, diff)
                         = CopyTo(original, st[Len(diff)], Len(original)).result
<1> DEFINE n == Len(diff)
           S == 1 .. n
           A == Results(V)
           first == [s \in SUBSET S |-> Max(s)]
           step == [i \in S |-> [a \in A |-> Replay(original, a, diff[i])]]
           Folds(g) == g = [s \in SUBSET S |->
                              IF s = {} THEN Start
                              ELSE Replay(original, g[s \ {Max(s)}], diff[Max(s)])]
           fold == CHOOSE g : Folds(g)
<1>1. n \in Nat /\ DOMAIN diff = S /\ \A i \in S : diff[i] \in DiffLines(V)
  BY LenProperties, ElementOfSeq
<1> HIDE DEF n
<1>2. \A s \in (SUBSET S) \ {{}} : Max(s) \in s
  BY <1>1, MaxIsGreatest
<1>3. Start \in A
  BY EmptySeq DEF Start, Results
<1>4. \A i \in S, a \in A : Replay(original, a, diff[i]) \in A
  <2> HIDE DEF S
  <2> QED  BY <1>1, ReplayAppends
<1>5. IsFiniteSet(S)
  BY <1>1, FS_Interval
<1>6. \E g : Folds(g)
  <2> HIDE DEF S, A
  <2>1. \A i \in S, a \in A : step[i][a] \in A
    BY <1>4
  <2>2. Picks(first, S)
    BY <1>2 DEF Picks
  <2>3. PICK g \in [SUBSET S -> A] : IsFold(g, Start, step, first, S)
    <3> HIDE DEF step, first
    <3> QED  BY <1>3, <1>5, <2>1, <2>2, FoldExists
  <2>4. ASSUME NEW s \in SUBSET S, s # {}
        PROVE  g[s] = Replay(original, g[s \ {Max(s)}], diff[Max(s)])
    <3>1. first[s] = Max(s) /\ Max(s) \in S /\ g[s \ {Max(s)}] \in A
      BY <1>2, <2>4
    <3>2. g[s] = step[Max(s)][g[s \ {Max(s)}]]
      BY <2>3, <2>4, <3>1 DEF IsFold
    <3> QED  BY <3>1, <3>2
  <2>5. g[{}] = Start
    BY <2>3 DEF IsFold
  <2>6. Folds(g)
    BY <2>4, <2>5
  <2> HIDE DEF Folds
  <2> QED  BY <2>6
<1>7. Folds(fold)
  <2> HIDE DEF Folds
  <2> QED  BY <1>6
<1>8. FoldLeft(LAMBDA s, d : Replay(original, s, d), Start, diff) = fold[S]
  BY <1>1 DEF FoldLeft, MapThenFoldSet
<1> HIDE DEF fold
<1> DEFINE st == [i \in 0 .. n |-> fold[1 .. i]]
<1>9. st[0] = Start
  BY <1>1, <1>7
<1>10. ASSUME NEW i \in 1 .. n
       PROVE  st[i] = Replay(original, st[i - 1], diff[i])
  <2>1. 1 .. i \in SUBSET S /\ i \in 1 .. i
    BY <1>1
  <2>2. Max(1 .. i) = i
    <3>1. Max(1 .. i) \in 1 .. i /\ \A j \in 1 .. i : j <= Max(1 .. i)
      BY <1>1, <2>1, MaxIsGreatest
    <3> QED  BY <3>1
  <2>3. (1 .. i) \ {i} = 1 .. i - 1
    BY <1>1
  <2>4. fold[1 .. i] = Replay(original, fold[(1 .. i) \ {Max(1 .. i)}], diff[Max(1 .. i)])
    BY <1>7, <2>1
  <2>5. st[i] = fold[1 .. i] /\ st[i - 1] = fold[1 .. i - 1]
    BY <1>1
  <2> HIDE DEF st
  <2> QED  BY <2>2, <2>3, <2>4, <2>5
<1>11. st[n] = fold[S]
  BY <1>1
<1>12. ApplyDiff(original, diff) = CopyTo(original, fold[S], Len(original)).result
  <2>1. Cardinality(Ends(original)) = Len(original)
    BY UnpagedEnds
  <2>2. ApplyDiff(original, diff)
           = CopyTo(original, FoldLeft(LAMBDA s, d : Replay(original, s, d), Start, diff),
                    Cardinality(Ends(original))).result
    BY Zenon DEF ApplyDiff, Start
  <2> QED  BY <1>8, <2>1, <2>2, Zenon
<1> HIDE DEF st, S
<1> QED  BY <1>9, <1>10, <1>11, <1>12 DEF n

-----------------------------------------------------------------------------
(* Edit scripts.                                                           *)

\* The old and the new lines among the first k of a script.
OldUpTo(script, k) == Cardinality({j \in 1 .. k : script[j].op # "+"})

NewUpTo(script, k) == Cardinality({j \in 1 .. k : script[j].op # "-"})

\* A script that turns a into b: the lines it keeps or removes are those of a,
\* the lines it keeps or adds those of b.
Turns(script, a, b) ==
    /\ OldUpTo(script, Len(script)) = Len(a)
    /\ NewUpTo(script, Len(script)) = Len(b)
    /\ \A k \in 1 .. Len(script) :
          /\ script[k].op # "+" => script[k].line = a[OldUpTo(script, k)]
          /\ script[k].op # "-" => script[k].line = b[NewUpTo(script, k)]

\* Counting one by one.
CountUpTo(M, k) == Cardinality({j \in 1 .. k : j \in M})

LEMMA Counting ==
    ASSUME NEW M
    PROVE  /\ CountUpTo(M, 0) = 0
           /\ \A k \in Nat : CountUpTo(M, k) \in Nat
           /\ \A k \in Nat \ {0} :
                 CountUpTo(M, k) = CountUpTo(M, k - 1) + (IF k \in M THEN 1 ELSE 0)
<1> DEFINE Up(k) == {j \in 1 .. k : j \in M}
<1>1. \A k \in Nat : IsFiniteSet(Up(k)) /\ Cardinality(Up(k)) \in Nat
  <2> SUFFICES ASSUME NEW k \in Nat
               PROVE  IsFiniteSet(Up(k)) /\ Cardinality(Up(k)) \in Nat
    OBVIOUS
  <2>1. IsFiniteSet(1 .. k)
    BY FS_Interval
  <2>2. Up(k) \in SUBSET (1 .. k)
    OBVIOUS
  <2>3. IsFiniteSet(Up(k))
    BY <2>1, <2>2, FS_Subset
  <2> QED  BY <2>3, FS_CardinalityType
<1>2. Up(0) = {}
  OBVIOUS
<1>3. ASSUME NEW k \in Nat \ {0}
      PROVE  Cardinality(Up(k)) = Cardinality(Up(k - 1)) + (IF k \in M THEN 1 ELSE 0)
  <2>1. IsFiniteSet(Up(k - 1)) /\ k \notin Up(k - 1)
    BY <1>1
  <2>2. CASE k \in M
    <3>1. Up(k) = Up(k - 1) \cup {k}
      BY <2>2
    <3> QED  BY <2>1, <2>2, <3>1, FS_AddElement
  <2>3. CASE k \notin M
    <3>1. Up(k) = Up(k - 1)
      BY <2>3
    <3>2. Cardinality(Up(k - 1)) \in Nat
      BY <1>1
    <3> HIDE DEF Up
    <3> QED  BY <2>3, <3>1, <3>2
  <2> QED  BY <2>2, <2>3
<1> QED  BY <1>1, <1>2, <1>3, FS_EmptySet DEF CountUpTo

LEMMA ScriptCounts ==
    ASSUME NEW script
    PROVE  /\ OldUpTo(script, 0) = 0
           /\ NewUpTo(script, 0) = 0
           /\ \A k \in Nat : OldUpTo(script, k) \in Nat /\ NewUpTo(script, k) \in Nat
           /\ \A k \in Nat \ {0} :
                 /\ OldUpTo(script, k)
                       = OldUpTo(script, k - 1) + (IF script[k].op # "+" THEN 1 ELSE 0)
                 /\ NewUpTo(script, k)
                       = NewUpTo(script, k - 1) + (IF script[k].op # "-" THEN 1 ELSE 0)
<1> DEFINE Old == {j \in Nat : script[j].op # "+"}
           New == {j \in Nat : script[j].op # "-"}
<1>1. \A k \in Nat : OldUpTo(script, k) = CountUpTo(Old, k)
  <2>1. \A k \in Nat : {j \in 1 .. k : j \in Old} = {j \in 1 .. k : script[j].op # "+"}
    OBVIOUS
  <2> QED  BY <2>1 DEF OldUpTo, CountUpTo
<1>2. \A k \in Nat : NewUpTo(script, k) = CountUpTo(New, k)
  <2>1. \A k \in Nat : {j \in 1 .. k : j \in New} = {j \in 1 .. k : script[j].op # "-"}
    OBVIOUS
  <2> QED  BY <2>1 DEF NewUpTo, CountUpTo
<1>3. \A k \in Nat : (k \in Old <=> script[k].op # "+") /\ (k \in New <=> script[k].op # "-")
  OBVIOUS
<1> HIDE DEF Old, New
<1>4. \A k \in Nat \ {0} : k - 1 \in Nat
  OBVIOUS
<1>5. OldUpTo(script, 0) = 0 /\ NewUpTo(script, 0) = 0
  BY <1>1, <1>2, Counting
<1>6. \A k \in Nat : OldUpTo(script, k) \in Nat /\ NewUpTo(script, k) \in Nat
  BY <1>1, <1>2, Counting
<1>7. ASSUME NEW k \in Nat \ {0}
      PROVE  /\ OldUpTo(script, k)
                   = OldUpTo(script, k - 1) + (IF script[k].op # "+" THEN 1 ELSE 0)
             /\ NewUpTo(script, k)
                   = NewUpTo(script, k - 1) + (IF script[k].op # "-" THEN 1 ELSE 0)
  <2>1. CountUpTo(Old, k) = CountUpTo(Old, k - 1) + (IF k \in Old THEN 1 ELSE 0)
    BY Counting
  <2>2. CountUpTo(New, k) = CountUpTo(New, k - 1) + (IF k \in New THEN 1 ELSE 0)
    BY Counting
  <2> QED  BY <1>1, <1>2, <1>3, <1>4, <2>1, <2>2
<1> QED  BY <1>5, <1>6, <1>7

\* The first lines of a script have no more old or new lines than all.
LEMMA ScriptGrows ==
    ASSUME NEW script, NEW n \in Nat, NEW k \in 0 .. n
    PROVE  OldUpTo(script, k) <= OldUpTo(script, n) /\ NewUpTo(script, k) <= NewUpTo(script, n)
<1>1. IsFiniteSet(1 .. n)
  BY FS_Interval
<1> DEFINE Old(m) == {j \in 1 .. m : script[j].op # "+"}
           New(m) == {j \in 1 .. m : script[j].op # "-"}
<1>2. /\ Old(n) \in SUBSET (1 .. n) /\ Old(k) \in SUBSET Old(n)
      /\ New(n) \in SUBSET (1 .. n) /\ New(k) \in SUBSET New(n)
  OBVIOUS
<1>3. IsFiniteSet(Old(n)) /\ IsFiniteSet(New(n))
  BY <1>1, <1>2, FS_Subset
<1>4. Cardinality(Old(k)) <= Cardinality(Old(n)) /\ Cardinality(New(k)) <= Cardinality(New(n))
  BY <1>2, <1>3, FS_Subset
<1> QED  BY <1>4 DEF OldUpTo, NewUpTo

-----------------------------------------------------------------------------
(* A diff replays to what it was made from.                                *)

\* The state between two lines of a diff: o old lines and n new ones are done,
\* of which the last may have been left for the next hunk to copy.
InStep(s, a, b, o, n) ==
    /\ s.next \in 1 .. o + 1
    /\ s.result \o SubSeq(a, s.next, o) = SubSeq(b, 1, n)

\* None is left.
CaughtUp(s, b, o, n) ==
    /\ s.next = o + 1
    /\ s.result = SubSeq(b, 1, n)

States(V) == [next : Nat, result : Seq(V)]

LEMMA CaughtUpIsInStep ==
    ASSUME NEW V, NEW s \in States(V), NEW a \in Seq(V), NEW b, NEW o \in Nat, NEW n,
           CaughtUp(s, b, o, n)
    PROVE  InStep(s, a, b, o, n)
<1>1. s.next \in 1 .. o + 1 /\ SubSeq(a, s.next, o) = <<>>
  BY SubSeqEmpty DEF CaughtUp
<1>2. s.result \o <<>> = s.result
  BY ConcatEmptySeq DEF States
<1> QED  BY <1>1, <1>2 DEF CaughtUp, InStep

\* Copying up to old line o leaves none.
LEMMA CopyCatchesUp ==
    ASSUME NEW V, NEW s \in States(V), NEW a \in Seq(V), Unpaged(a), NEW b,
           NEW o \in 0 .. Len(a), NEW n, InStep(s, a, b, o, n)
    PROVE  CopyTo(a, s, o) \in States(V) /\ CaughtUp(CopyTo(a, s, o), b, o, n)
<1>1. s.next \in Nat /\ s.result \in Seq(V) /\ s.next \in 1 .. o + 1 /\ o \in Nat
  BY LenProperties DEF States, InStep
<1>2. CASE s.next > o
  <2>1. s.next = o + 1 /\ SubSeq(a, s.next, o) = <<>>
    BY <1>1, <1>2, SubSeqEmpty
  <2>2. s.result = SubSeq(b, 1, n)
    BY <1>1, <2>1, ConcatEmptySeq DEF InStep
  <2>3. CopyTo(a, s, o) = s
    BY <1>1, <1>2, NothingToCopy
  <2> QED  BY <2>1, <2>2, <2>3 DEF CaughtUp
<1>3. CASE ~(s.next > o)
  <2>1. CopyTo(a, s, o) = [next |-> o + 1, result |-> s.result \o SubSeq(a, s.next, o)]
    <3>1. s.next \in Nat \ {0} /\ o \in Int /\ o <= Len(a)
      BY <1>1, LenProperties
    <3> QED  BY <1>3, <3>1, UnpagedCopy
  <2>2. \A i \in s.next .. o : a[i] \in V
    BY <1>1, ElementOfSeq
  <2>3. SubSeq(a, s.next, o) \in Seq(V)
    BY <1>1, <2>2, SubSeqProperties
  <2>4. s.result \o SubSeq(a, s.next, o) \in Seq(V)
    BY <1>1, <2>3, ConcatProperties
  <2> QED  BY <1>1, <2>1, <2>4 DEF CaughtUp, InStep, States
<1> QED  BY <1>2, <1>3

\* A line of a script that is replayed keeps up.
LEMMA LineCatchesUp ==
    ASSUME NEW V, NEW s \in States(V), NEW a \in Seq(V), NEW b \in Seq(V),
           NEW o \in Nat, NEW n \in Nat, NEW d \in ScriptLines(V), ~Header(d),
           CaughtUp(s, b, o, n),
           d.op # "-" => n < Len(b) /\ d.line = b[n + 1]
    PROVE  LET t == Replay(a, s, d)
           IN /\ t \in States(V)
              /\ CaughtUp(t, b, o + (IF d.op # "+" THEN 1 ELSE 0),
                                n + (IF d.op # "-" THEN 1 ELSE 0))
<1>1. /\ d.op \in {" ", "+", "-"} /\ d.line \in V
      /\ s.next = o + 1 /\ s.next \in Nat
      /\ s.result \in Seq(V) /\ s.result = SubSeq(b, 1, n)
  BY DEF ScriptLines, States, CaughtUp
<1>6. s = [next |-> s.next, result |-> s.result]
  BY DEF States
<1>2. ASSUME d.op # "-"
      PROVE  /\ Append(s.result, d.line) \in Seq(V)
             /\ Append(s.result, d.line) = SubSeq(b, 1, n + 1)
  <2>1. n + 1 \in 1 .. Len(b) /\ 1 \in 1 .. Len(b)
    BY <1>2, LenProperties
  <2>2. SubSeq(b, 1, n + 1) = SubSeq(b, 1, n) \o <<b[n + 1]>>
    <3>1. n + 1 \in 1 .. Len(b) /\ (n + 1) - 1 = n
      BY <2>1
    <3> QED  BY <2>1, <3>1, SubSeqRecursiveSecond
  <2>3. Append(s.result, d.line) = s.result \o <<d.line>>
    BY <1>1, AppendIsConcat
  <2>4. d.line = b[n + 1]
    BY <1>2
  <2> QED  BY <1>1, <2>2, <2>3, <2>4, AppendProperties
<1>3. CASE d.op = " "
  <2>1. Replay(a, s, d) = [next |-> s.next + 1, result |-> Append(s.result, d.line)]
    BY <1>3 DEF Replay
  <2> DEFINE more == Append(s.result, d.line)
  <2>2. more \in Seq(V) /\ more = SubSeq(b, 1, n + 1)
    BY <1>2, <1>3
  <2>3. s.next + 1 \in Nat /\ s.next + 1 = o + 1 + 1
    <3> DEFINE m == s.next
    <3>1. m \in Nat /\ m = o + 1
      BY <1>1
    <3> HIDE DEF m
    <3>2. m + 1 \in Nat /\ m + 1 = o + 1 + 1
      BY <3>1
    <3> QED  BY <3>2 DEF m
  <2> HIDE DEF more
  <2>4. Replay(a, s, d) \in States(V) /\ CaughtUp(Replay(a, s, d), b, o + 1, n + 1)
    BY <2>1, <2>2, <2>3 DEF States, CaughtUp, more
  <2> QED  BY <1>3, <2>4
<1>4. CASE d.op = "+"
  <2>1. Replay(a, s, d) = [s EXCEPT !.result = Append(@, d.line)]
    BY <1>4 DEF Replay
  <2>2. Replay(a, s, d) = [next |-> s.next, result |-> Append(s.result, d.line)]
    BY <1>6, <2>1
  <2> QED  BY <1>1, <1>2, <1>4, <2>2 DEF States, CaughtUp
<1>5. CASE d.op = "-"
  <2>1. Replay(a, s, d) = [s EXCEPT !.next = @ + 1]
    BY <1>5 DEF Replay
  <2>2. Replay(a, s, d) = [next |-> s.next + 1, result |-> s.result]
    BY <1>6, <2>1
  <2> QED  BY <1>1, <1>5, <2>2 DEF States, CaughtUp
<1> QED  BY <1>1, <1>3, <1>4, <1>5

LEMMA SkippedIsLonger ==
    ASSUME NEW V, NEW a \in Seq(V), NEW r \in Seq(V),
           NEW o \in Nat, o < Len(a), NEW m \in 1 .. o + 1
    PROVE  r \o SubSeq(a, m, o + 1) = (r \o SubSeq(a, m, o)) \o <<a[o + 1]>>
<1>1. m \in 1 .. Len(a) /\ o + 1 \in m .. Len(a) /\ (o + 1) - 1 = o /\ m \in Int
  BY LenProperties
<1>2. \A i \in 1 .. Len(a) : a[i] \in V
  BY ElementOfSeq
<1> DEFINE u == SubSeq(a, m, o)
           l == <<a[o + 1]>>
<1>3. SubSeq(a, m, o + 1) = u \o l
  BY <1>1, SubSeqRecursiveSecond
<1>4. u \in Seq(V)
  <2>1. \A i \in m .. o : a[i] \in V
    BY <1>1, <1>2
  <2> QED  BY <1>1, <2>1, SubSeqProperties
<1>5. l \in Seq(V)
  <2>1. a[o + 1] \in V
    BY <1>1, <1>2
  <2> QED  BY <2>1
<1> HIDE DEF u, l
<1>6. (r \o u) \o l = r \o (u \o l)
  BY <1>4, <1>5, ConcatAssociative
<1> QED  BY <1>3, <1>6 DEF u, l

\* A line that no hunk shows is kept, and left for the next hunk to copy.
LEMMA SkippedStaysInStep ==
    ASSUME NEW V, NEW s \in States(V), NEW a \in Seq(V), NEW b \in Seq(V),
           NEW o \in Nat, NEW n \in Nat, InStep(s, a, b, o, n),
           o < Len(a), n < Len(b), a[o + 1] = b[n + 1]
    PROVE  InStep(s, a, b, o + 1, n + 1)
<1> DEFINE r == s.result
           m == s.next
<1>1. /\ m \in 1 .. o + 1 /\ r \in Seq(V)
      /\ r \o SubSeq(a, m, o) = SubSeq(b, 1, n)
  BY DEF InStep, States
<1> HIDE DEF r, m
<1>2. SubSeq(b, 1, n + 1) = SubSeq(b, 1, n) \o <<b[n + 1]>>
  <2>1. n + 1 \in 1 .. Len(b) /\ 1 \in 1 .. Len(b) /\ (n + 1) - 1 = n
    BY LenProperties
  <2> QED  BY <2>1, SubSeqRecursiveSecond
<1>3. r \o SubSeq(a, m, o + 1) = (r \o SubSeq(a, m, o)) \o <<a[o + 1]>>
  BY <1>1, SkippedIsLonger
<1>4. r \o SubSeq(a, m, o + 1) = SubSeq(b, 1, n + 1)
  BY <1>1, <1>2, <1>3
<1>5. m \in 1 .. o + 1 + 1
  BY <1>1
<1> QED  BY <1>4, <1>5 DEF InStep, r, m

\* A change is shown, and so is the line above it: a hunk that starts with an
\* added line starts the script.
LEMMA HunkStart ==
    ASSUME NEW V, NEW script \in Seq(ScriptLines(V)),
           NEW i \in Opening(script)
    PROVE  /\ OldStart(script, i) \in Nat
           /\ \/ OldStart(script, i) = OldUpTo(script, i - 1) + 1
              \/ i = 1 /\ OldStart(script, i) = 0
<1> DEFINE hunk == {j \in i .. Len(script) : i .. j \subseteq Near(script)}
           above == OldUpTo(script, i - 1)
<1>1. DOMAIN script = 1 .. Len(script) /\ Len(script) \in Nat /\ Context \in Nat \ {0}
  BY LenProperties, ContextAssumption
<1>2. i \in 1 .. Len(script) /\ i \in Near(script) /\ i - 1 \notin Near(script)
  BY <1>1 DEF Opening, Near
<1>3. i \in hunk
  BY <1>2
<1>4. above \in Nat
  <2>1. i - 1 \in Nat
    BY <1>1, <1>2
  <2> QED  BY <2>1, ScriptCounts
<1>5. OldStart(script, i) = IF \A j \in hunk : script[j].op = "+" THEN above ELSE above + 1
  BY DEF OldStart, OldUpTo
<1> HIDE DEF hunk, above
<1>6. ASSUME \A j \in hunk : script[j].op = "+"
      PROVE  i = 1
  <2> SUFFICES ASSUME i # 1
               PROVE  FALSE
    OBVIOUS
  <2>1. i \in Changes(script)
    BY <1>1, <1>2, <1>3, <1>6 DEF Changes
  <2>2. i - 1 \in 1 .. Len(script) /\ i - 1 \in i - Context .. i + Context
    BY <1>1, <1>2
  <2>3. i - 1 \in Near(script)
    BY <1>1, <2>1, <2>2 DEF Near
  <2> QED  BY <1>2, <2>3
<1>7. i = 1 => above = 0
  BY ScriptCounts DEF above
<1> QED  BY <1>4, <1>5, <1>6, <1>7 DEF above

\* What no hunk shows is no change.
LEMMA UnshownIsKept ==
    ASSUME NEW V, NEW script \in Seq(ScriptLines(V)),
           NEW i \in 1 .. Len(script), i \notin Near(script)
    PROVE  script[i].op = " "
<1>1. DOMAIN script = 1 .. Len(script) /\ Len(script) \in Nat /\ Context \in Nat
  BY LenProperties, ContextAssumption
<1>2. i \in i - Context .. i + Context
  BY <1>1
<1>3. i \notin Changes(script)
  BY <1>1, <1>2 DEF Near
<1> QED  BY <1>1, <1>3 DEF Changes

\* The first k lines of a script are replayed.
Replayed(V, s, script, a, b, k) ==
    /\ s \in States(V)
    /\ InStep(s, a, b, OldUpTo(script, k), NewUpTo(script, k))
    /\ k \in Near(script) => CaughtUp(s, b, OldUpTo(script, k), NewUpTo(script, k))

LEMMA TurnsWithin ==
    ASSUME NEW V, NEW a \in Seq(V), NEW b \in Seq(V),
           NEW script \in Seq(ScriptLines(V)), Turns(script, a, b),
           NEW k \in 0 .. Len(script)
    PROVE  OldUpTo(script, k) \in 0 .. Len(a) /\ NewUpTo(script, k) \in 0 .. Len(b)
<1>1. Len(script) \in Nat /\ k \in Nat
  BY LenProperties
<1>2. OldUpTo(script, k) \in Nat /\ NewUpTo(script, k) \in Nat
  BY <1>1, ScriptCounts
<1>3. OldUpTo(script, k) <= Len(a) /\ NewUpTo(script, k) <= Len(b)
  BY <1>1, ScriptGrows DEF Turns
<1>4. Len(a) \in Nat /\ Len(b) \in Nat
  BY LenProperties
<1> QED  BY <1>2, <1>3, <1>4

\* The hunk that opens at line i brings the replay up to it.
LEMMA HunkCatchesUp ==
    ASSUME NEW V, NEW a \in Seq(V), Unpaged(a), NEW b \in Seq(V),
           NEW script \in Seq(ScriptLines(V)), Turns(script, a, b),
           NEW i \in Opening(script), i \in 1 .. Len(script),
           NEW s, Replayed(V, s, script, a, b, i - 1)
    PROVE  LET t == Replay(a, s, Hunk(OldStart(script, i)))
           IN /\ t \in States(V)
              /\ CaughtUp(t, b, OldUpTo(script, i - 1), NewUpTo(script, i - 1))
<1> DEFINE o == OldUpTo(script, i - 1)
           m == NewUpTo(script, i - 1)
           start == OldStart(script, i)
           h == Hunk(start)
           t == Replay(a, s, h)
<1>1. s \in States(V) /\ InStep(s, a, b, o, m)
  BY DEF Replayed
<1>2. i - 1 \in 0 .. Len(script) /\ i \in Nat
  BY LenProperties
<1>3. o \in 0 .. Len(a)
  BY <1>2, TurnsWithin
<1>4. start \in Nat /\ (start = o + 1 \/ (i = 1 /\ start = 0))
  BY HunkStart
<1>5. h.op = "@" /\ h.start = start
  BY DEF Hunk
<1> HIDE DEF h
<1>6. t = CopyTo(a, s, start - 1)
  BY <1>5 DEF Replay
<1>7. i = 1 => o = 0
  BY ScriptCounts
<1> HIDE DEF start, o, m
<1>8. CopyTo(a, s, start - 1) = CopyTo(a, s, o)
  <2>1. CASE start = o + 1
    <3>1. start - 1 = o
      BY <1>3, <2>1
    <3> QED  BY <3>1
  <2>2. CASE i = 1 /\ start = 0
    <3>1. s.next = 1 /\ o = 0 /\ start - 1 = -1
      BY <1>1, <1>7, <2>2 DEF InStep
    <3>2. CopyTo(a, s, o) = s
      <4>1. s.next \in Int /\ o \in Int /\ s.next > o
        BY <3>1
      <4> QED  BY <4>1, NothingToCopy
    <3>3. CopyTo(a, s, start - 1) = s
      <4>1. s.next \in Int /\ start - 1 \in Int /\ s.next > start - 1
        BY <3>1
      <4> QED  BY <4>1, NothingToCopy
    <3> QED  BY <3>2, <3>3
  <2> QED  BY <1>4, <2>1, <2>2
<1>9. CopyTo(a, s, o) \in States(V) /\ CaughtUp(CopyTo(a, s, o), b, o, m)
  BY <1>1, <1>3, CopyCatchesUp
<1>10. t \in States(V) /\ CaughtUp(t, b, o, m)
  BY <1>6, <1>8, <1>9
<1> QED  BY <1>10 DEF t, h, start, o, m

\* The next line of the script, once the replay is up to it.
LEMMA ShownLineIsReplayed ==
    ASSUME NEW V, NEW a \in Seq(V), NEW b \in Seq(V),
           NEW script \in Seq(ScriptLines(V)), Turns(script, a, b),
           NEW i \in 1 .. Len(script), ~Header(script[i]),
           NEW s \in States(V),
           CaughtUp(s, b, OldUpTo(script, i - 1), NewUpTo(script, i - 1))
    PROVE  Replayed(V, Replay(a, s, script[i]), script, a, b, i)
<1> DEFINE o == OldUpTo(script, i - 1)
           m == NewUpTo(script, i - 1)
           d == script[i]
           t == Replay(a, s, d)
<1>1. d \in ScriptLines(V) /\ i - 1 \in 0 .. Len(script) /\ i \in 0 .. Len(script) /\ i \in Nat \ {0}
  BY LenProperties, ElementOfSeq
<1>2. o \in Nat /\ m \in Nat
  BY <1>1, ScriptCounts
<1>3. /\ OldUpTo(script, i) = o + (IF d.op # "+" THEN 1 ELSE 0)
      /\ NewUpTo(script, i) = m + (IF d.op # "-" THEN 1 ELSE 0)
  BY <1>1, ScriptCounts
<1>4. OldUpTo(script, i) \in Nat /\ NewUpTo(script, i) \in 0 .. Len(b)
  BY <1>1, TurnsWithin
<1>5. d.op # "-" => d.line = b[NewUpTo(script, i)]
  BY DEF Turns
<1> HIDE DEF o, m, d
<1>6. ASSUME d.op # "-"
      PROVE  m < Len(b) /\ d.line = b[m + 1]
  <2>1. NewUpTo(script, i) = m + 1
    BY <1>3, <1>6
  <2>2. Len(b) \in Nat
    BY LenProperties
  <2> QED  BY <1>2, <1>4, <1>5, <1>6, <2>1, <2>2
<1>7. ~Header(d) /\ CaughtUp(s, b, o, m)
  BY DEF d, o, m
<1>8. t \in States(V) /\ CaughtUp(t, b, OldUpTo(script, i), NewUpTo(script, i))
  BY <1>1, <1>2, <1>3, <1>6, <1>7, LineCatchesUp
<1> HIDE DEF t
<1>9. InStep(t, a, b, OldUpTo(script, i), NewUpTo(script, i))
  BY <1>4, <1>8, CaughtUpIsInStep
<1>10. Replayed(V, t, script, a, b, i)
  BY <1>8, <1>9 DEF Replayed
<1> QED  BY <1>10 DEF t, d

\* A line of the script that no hunk shows.
LEMMA UnshownLineIsLeft ==
    ASSUME NEW V, NEW a \in Seq(V), NEW b \in Seq(V),
           NEW script \in Seq(ScriptLines(V)), Turns(script, a, b),
           NEW i \in 1 .. Len(script), i \notin Near(script),
           NEW s, Replayed(V, s, script, a, b, i - 1)
    PROVE  Replayed(V, s, script, a, b, i)
<1> DEFINE o == OldUpTo(script, i - 1)
           m == NewUpTo(script, i - 1)
<1>1. i - 1 \in 0 .. Len(script) /\ i \in 0 .. Len(script) /\ i \in Nat \ {0}
  BY LenProperties
<1>2. script[i].op = " "
  BY UnshownIsKept
<1>3. o \in Nat /\ m \in Nat
  BY <1>1, ScriptCounts
<1>4. OldUpTo(script, i) = o + 1 /\ NewUpTo(script, i) = m + 1
  BY <1>1, <1>2, ScriptCounts
<1>5. OldUpTo(script, i) \in 0 .. Len(a) /\ NewUpTo(script, i) \in 0 .. Len(b)
  BY <1>1, TurnsWithin
<1>6. a[OldUpTo(script, i)] = b[NewUpTo(script, i)]
  BY <1>2 DEF Turns
<1>7. s \in States(V) /\ InStep(s, a, b, o, m)
  BY DEF Replayed
<1> HIDE DEF o, m
<1>8. o < Len(a) /\ m < Len(b) /\ a[o + 1] = b[m + 1]
  BY <1>3, <1>4, <1>5, <1>6, LenProperties
<1>9. InStep(s, a, b, o + 1, m + 1)
  BY <1>3, <1>7, <1>8, SkippedStaysInStep
<1> QED  BY <1>4, <1>7, <1>9 DEF Replayed

\* Whatever script turns a into b, its hunks joined, split again and replayed
\* on a give b, if none of their lines is mistaken on the way.
THEOREM ReplayGivesNew ==
    ASSUME NEW V, NEW a \in Seq(V), NEW b \in Seq(V),
           NEW script \in Seq(ScriptLines(V)), Turns(script, a, b),
           Unmistakable(a, Unified(script))
    PROVE  ApplyDiff(a, Unified(script)) = b
<1> DEFINE n == Len(script)
           D == DiffLines(V)
           Old(k) == OldUpTo(script, k)
           New(k) == NewUpTo(script, k)
           part(i) == CASE i \in Opening(script) -> <<Hunk(OldStart(script, i)), script[i]>>
                        [] i \in Near(script) \ Opening(script) -> <<script[i]>>
                        [] OTHER -> <<>>
           parts == [i \in 1 .. n |-> part(i)]
<1>1. n \in Nat /\ DOMAIN script = 1 .. n /\ \A i \in 1 .. n : script[i] \in ScriptLines(V)
  BY LenProperties, ElementOfSeq
<1>2. \A i \in 1 .. n : part(i) \in Seq(D)
  <2> SUFFICES ASSUME NEW i \in 1 .. n
               PROVE  part(i) \in Seq(D)
    OBVIOUS
  <2>1. script[i] \in D
    BY <1>1 DEF DiffLines
  <2>2. CASE i \in Opening(script)
    <3>1. Hunk(OldStart(script, i)) \in D
      BY <2>2, HunkStart DEF Hunk, DiffLines
    <3>2. part(i) = <<Hunk(OldStart(script, i)), script[i]>>
      BY <2>2
    <3> HIDE DEF D
    <3> QED  BY <2>1, <3>1, <3>2
  <2>3. CASE i \in Near(script) \ Opening(script)
    <3>1. part(i) = <<script[i]>>
      BY <2>3
    <3> HIDE DEF D
    <3> QED  BY <2>1, <3>1
  <2>4. CASE i \notin Near(script) /\ i \notin Opening(script)
    BY <2>4, EmptySeq
  <2> QED  BY <2>2, <2>3, <2>4
<1> HIDE DEF D, part
<1>3. parts \in Seq(Seq(D)) /\ Len(parts) = n /\ parts \in [1 .. n -> Seq(D)]
  BY <1>1, <1>2
<1>4. FlattenSeq(parts) = Unified(script)
  BY <1>1 DEF Unified, part
<1>5. PICK flat \in [0 .. n -> Seq(D)] :
          /\ flat[0] = <<>>
          /\ \A i \in 1 .. n : flat[i] = flat[i - 1] \o parts[i]
          /\ FlattenSeq(parts) = flat[n]
  <2> HIDE DEF parts, n
  <2>1. \E flat \in [0 .. Len(parts) -> Seq(D)] :
           /\ flat[0] = <<>>
           /\ \A i \in 1 .. Len(parts) : flat[i] = flat[i - 1] \o parts[i]
           /\ FlattenSeq(parts) = flat[Len(parts)]
    BY <1>3, FlattenIsStepwise
  <2> QED  BY <1>3, <2>1
<1> DEFINE diff == flat[n]
<1>6. diff \in Seq(D) /\ Unified(script) = diff
  <2>1. n \in 0 .. n
    BY <1>1
  <2> QED  BY <1>4, <1>5, <2>1
<1>7. PICK st : /\ st[0] = Start
                /\ \A i \in 1 .. Len(diff) : st[i] = Replay(a, st[i - 1], diff[i])
                /\ ApplyDiff(a, diff) = CopyTo(a, st[Len(diff)], Len(a)).result
  <2> HIDE DEF diff
  <2>1. Unpaged(a) /\ \A i \in 1 .. Len(diff) - 1 : ~Unfinished(diff[i])
    <3>1. Len(diff) \in Nat /\ DOMAIN diff = 1 .. Len(diff)
      BY <1>6, LenProperties
    <3> QED  BY <1>6, <3>1 DEF Unmistakable, Unpaged
  <2>2. Resplit(diff) = diff
    BY <1>6, <2>1, ResplitKeeps
  <2> QED  BY <1>6, <2>1, <2>2, ReplayIsStepwise DEF D
<1>8. \A i \in 1 .. Len(diff) : ~Header(diff[i])
  <2> HIDE DEF diff
  <2>1. DOMAIN diff = 1 .. Len(diff)
    BY <1>6, LenProperties
  <2> QED  BY <1>6, <2>1 DEF Unmistakable
<1>9. \A i \in 0 .. n : /\ flat[i] \in Seq(D) /\ Len(flat[i]) \in 0 .. Len(diff)
                        /\ \A k \in 1 .. Len(flat[i]) : diff[k] = flat[i][k]
  <2> HIDE DEF parts, n
  <2> SUFFICES ASSUME NEW i \in 0 .. n
               PROVE  /\ flat[i] \in Seq(D) /\ Len(flat[i]) \in 0 .. Len(diff)
                      /\ \A k \in 1 .. Len(flat[i]) : diff[k] = flat[i][k]
    OBVIOUS
  <2>1. Len(flat[i]) <= Len(flat[n]) /\ \A k \in 1 .. Len(flat[i]) : flat[n][k] = flat[i][k]
    <3>1. Joined(flat, parts, n)
      BY <1>5 DEF Joined
    <3>2. Begins(flat[i], flat[n])
      BY <1>1, <1>3, <3>1, FlatGrows
    <3> QED  BY <3>2 DEF Begins
  <2>2. flat[i] \in Seq(D) /\ Len(flat[i]) \in Nat /\ Len(diff) \in Nat
    BY <1>6, LenProperties
  <2> QED  BY <2>1, <2>2
<1> DEFINE at(k) == st[Len(flat[k])]
           Done(k) == Replayed(V, at(k), script, a, b, k)
           T == {k \in 0 .. n : Done(k)}
<1>10. 0 \in T
  <2>1. Len(flat[0]) = 0
    BY <1>5
  <2>2. at(0) = Start
    BY <1>7, <2>1
  <2>3. OldUpTo(script, 0) = 0 /\ NewUpTo(script, 0) = 0 /\ 0 \notin Near(script)
    BY <1>1, ScriptCounts DEF Near
  <2>4. Start \in States(V) /\ CaughtUp(Start, b, 0, 0)
    BY EmptySeq, SubSeqEmpty DEF Start, States, CaughtUp
  <2>5. InStep(Start, a, b, 0, 0)
    BY <2>4, CaughtUpIsInStep
  <2> HIDE DEF at
  <2> QED  BY <1>1, <2>2, <2>3, <2>4, <2>5 DEF Replayed
<1>11. ASSUME NEW k \in 0 .. n - 1, k \in T
       PROVE  k + 1 \in T
  <2> DEFINE i == k + 1
             p == Len(flat[k])
  <2>1. k \in 0 .. n /\ i \in 1 .. n /\ i \in 0 .. n /\ i - 1 = k /\ k = i - 1
    BY <1>1
  <2>2. flat[i] = flat[k] \o part(i)
    BY <1>5, <2>1
  <2>3. flat[k] \in Seq(D) /\ p \in Nat /\ part(i) \in Seq(D)
    BY <1>2, <1>9, <2>1
  <2>4. /\ Len(flat[i]) = p + Len(part(i)) /\ Len(part(i)) \in Nat
        /\ \A j \in 1 .. Len(part(i)) : flat[i][p + j] = part(i)[j]
    <3> DEFINE q == part(i)
    <3>1. /\ Len(flat[k] \o q) = p + Len(q) /\ Len(q) \in Nat
          /\ \A j \in 1 .. p + Len(q) : (flat[k] \o q)[j] = IF j <= p THEN flat[k][j] ELSE q[j - p]
      BY <2>3, ConcatProperties, LenProperties
    <3> HIDE DEF q, p
    <3>2. \A j \in 1 .. Len(q) : p + j \in 1 .. p + Len(q) /\ ~(p + j <= p) /\ (p + j) - p = j
      BY <2>3, <3>1
    <3>3. \A j \in 1 .. Len(q) : (flat[k] \o q)[p + j] = q[j]
      BY <3>1, <3>2
    <3> QED  BY <2>2, <3>1, <3>3 DEF q
  <2>5. \A j \in 1 .. Len(part(i)) :
           /\ diff[p + j] = part(i)[j] /\ ~Header(part(i)[j])
           /\ st[p + j] = Replay(a, st[p + (j - 1)], part(i)[j])
    <3> SUFFICES ASSUME NEW j \in 1 .. Len(part(i))
                 PROVE  /\ diff[p + j] = part(i)[j] /\ ~Header(part(i)[j])
                        /\ st[p + j] = Replay(a, st[p + (j - 1)], part(i)[j])
      OBVIOUS
    <3>1. Len(flat[i]) \in 0 .. Len(diff) /\ \A x \in 1 .. Len(flat[i]) : diff[x] = flat[i][x]
      BY <1>9, <2>1
    <3> HIDE DEF diff, p
    <3>2. p + j \in 1 .. Len(flat[i]) /\ p + j \in 1 .. Len(diff) /\ (p + j) - 1 = p + (j - 1)
      BY <1>6, <2>3, <2>4, <3>1, LenProperties
    <3>3. diff[p + j] = part(i)[j]
      BY <2>4, <3>1, <3>2
    <3>4. ~Header(diff[p + j])
      BY <1>8, <3>2
    <3>5. st[p + j] = Replay(a, st[(p + j) - 1], diff[p + j])
      BY <1>7, <3>2
    <3> QED  BY <3>2, <3>3, <3>4, <3>5
  <2>6. Replayed(V, st[p], script, a, b, i - 1)
    BY <1>11, <2>1
  <2> SUFFICES Replayed(V, st[Len(flat[i])], script, a, b, i)
    BY <2>1
  <2> HIDE DEF i, p, diff, T, n
  <2>7. CASE i \in Opening(script)
    <3> DEFINE h == Hunk(OldStart(script, i))
    <3>1. part(i) = <<h, script[i]>>
      BY <2>7 DEF part
    <3> HIDE DEF h
    <3>2. Len(part(i)) = 2 /\ part(i)[1] = h /\ part(i)[2] = script[i]
      BY <3>1
    <3> HIDE DEF part
    <3>3. st[p + 1] = Replay(a, st[p + 0], h)
      BY <2>5, <3>2
    <3>4. st[p + 2] = Replay(a, st[p + 1], script[i]) /\ ~Header(script[i])
      BY <2>5, <3>2
    <3>5. p + 0 = p /\ Len(flat[i]) = p + 2
      BY <2>3, <2>4, <3>2
    <3>6. i \in 1 .. Len(script)
      BY <2>1 DEF n
    <3>9. Unpaged(a)
      BY DEF Unmistakable, Unpaged
    <3>7. /\ st[p + 1] \in States(V)
          /\ CaughtUp(st[p + 1], b, OldUpTo(script, i - 1), NewUpTo(script, i - 1))
      BY <2>6, <2>7, <3>3, <3>5, <3>6, <3>9, HunkCatchesUp DEF h
    <3>8. Replayed(V, Replay(a, st[p + 1], script[i]), script, a, b, i)
      BY <3>4, <3>6, <3>7, ShownLineIsReplayed
    <3> QED  BY <3>4, <3>5, <3>8
  <2>8. CASE i \in Near(script) \ Opening(script)
    <3>1. part(i) = <<script[i]>>
      BY <2>8 DEF part
    <3>2. Len(part(i)) = 1 /\ part(i)[1] = script[i]
      BY <3>1
    <3> HIDE DEF part
    <3>3. st[p + 1] = Replay(a, st[p + 0], script[i]) /\ ~Header(script[i])
      BY <2>5, <3>2
    <3>4. p + 0 = p /\ Len(flat[i]) = p + 1
      BY <2>3, <2>4, <3>2
    <3>5. i \in 1 .. Len(script)
      BY <2>1 DEF n
    <3>6. i - 1 \in Near(script)
      BY <2>8 DEF Opening
    <3>7. /\ st[p] \in States(V)
          /\ CaughtUp(st[p], b, OldUpTo(script, i - 1), NewUpTo(script, i - 1))
      BY <2>6, <3>6 DEF Replayed
    <3>8. Replayed(V, Replay(a, st[p], script[i]), script, a, b, i)
      BY <3>3, <3>5, <3>7, ShownLineIsReplayed
    <3> QED  BY <3>3, <3>4, <3>8
  <2>9. CASE i \notin Near(script)
    <3>1. i \notin Opening(script)
      BY <2>9 DEF Opening
    <3>2. part(i) = <<>>
      BY <2>9, <3>1 DEF part
    <3>3. Len(part(i)) = 0
      BY <3>2
    <3> HIDE DEF part
    <3>4. Len(flat[i]) = p
      BY <2>3, <2>4, <3>3
    <3>5. i \in 1 .. Len(script)
      BY <2>1 DEF n
    <3>6. Replayed(V, st[p], script, a, b, i)
      BY <2>6, <2>9, <3>5, UnshownLineIsLeft
    <3> QED  BY <3>4, <3>6
  <2> QED  BY <2>7, <2>8, <2>9
<1>12. n \in T
  <2> HIDE DEF T
  <2>1. 0 .. n \subseteq T
    BY <1>1, <1>10, <1>11, CountingUp
  <2> QED  BY <1>1, <2>1
<1> DEFINE last == st[Len(diff)]
<1>13. last \in States(V) /\ InStep(last, a, b, Len(a), Len(b))
  BY <1>12 DEF Replayed, Turns
<1> HIDE DEF last
<1>14. CaughtUp(CopyTo(a, last, Len(a)), b, Len(a), Len(b))
  <2>1. Len(a) \in 0 .. Len(a) /\ Unpaged(a)
    BY LenProperties DEF Unmistakable, Unpaged
  <2> QED  BY <1>13, <2>1, CopyCatchesUp
<1>15. CopyTo(a, last, Len(a)).result = b
  BY <1>14, SubSeqFull DEF CaughtUp
<1> QED  BY <1>6, <1>7, <1>15 DEF last

-----------------------------------------------------------------------------
(* The script that Script() picks.                                         *)

\* A script that turns the first i lines of a into the first j of b.
TurnsUpTo(script, a, b, i, j) ==
    /\ OldUpTo(script, Len(script)) = i
    /\ NewUpTo(script, Len(script)) = j
    /\ \A k \in 1 .. Len(script) :
          /\ script[k].op # "+" => script[k].line = a[OldUpTo(script, k)]
          /\ script[k].op # "-" => script[k].line = b[NewUpTo(script, k)]

\* One line more.
LEMMA TurnsOneMore ==
    ASSUME NEW V, NEW a, NEW b, NEW i \in Nat, NEW j \in Nat,
           NEW script \in Seq(ScriptLines(V)), TurnsUpTo(script, a, b, i, j),
           NEW d \in ScriptLines(V), NEW x \in Nat, NEW y \in Nat,
           x = i + (IF d.op # "+" THEN 1 ELSE 0),
           y = j + (IF d.op # "-" THEN 1 ELSE 0),
           d.op # "+" => d.line = a[x],
           d.op # "-" => d.line = b[y]
    PROVE  /\ Append(script, d) \in Seq(ScriptLines(V))
           /\ TurnsUpTo(Append(script, d), a, b, x, y)
<1> DEFINE more == Append(script, d)
           n == Len(script)
<1>1. /\ n \in Nat /\ more \in Seq(ScriptLines(V)) /\ Len(more) = n + 1
      /\ more[n + 1] = d /\ \A k \in 1 .. n : more[k] = script[k]
  BY AppendProperties, LenProperties
<1> HIDE DEF more, n
<1>2. \A k \in 0 .. n : OldUpTo(more, k) = OldUpTo(script, k) /\ NewUpTo(more, k) = NewUpTo(script, k)
  <2> SUFFICES ASSUME NEW k \in 0 .. n
               PROVE  OldUpTo(more, k) = OldUpTo(script, k) /\ NewUpTo(more, k) = NewUpTo(script, k)
    OBVIOUS
  <2>1. \A l \in 1 .. k : more[l] = script[l]
    BY <1>1
  <2> QED  BY <2>1 DEF OldUpTo, NewUpTo
<1>3. OldUpTo(script, n) = i /\ NewUpTo(script, n) = j
  BY DEF TurnsUpTo, n
<1>4. OldUpTo(more, n) = i /\ NewUpTo(more, n) = j
  BY <1>1, <1>2, <1>3
<1>5. n + 1 \in Nat \ {0} /\ (n + 1) - 1 = n
  BY <1>1
<1>6. OldUpTo(more, n + 1) = x /\ NewUpTo(more, n + 1) = y
  <2>1. /\ OldUpTo(more, n + 1)
              = OldUpTo(more, n) + (IF more[n + 1].op # "+" THEN 1 ELSE 0)
        /\ NewUpTo(more, n + 1)
              = NewUpTo(more, n) + (IF more[n + 1].op # "-" THEN 1 ELSE 0)
    BY <1>5, ScriptCounts
  <2> QED  BY <1>1, <1>4, <2>1
<1>7. ASSUME NEW k \in 1 .. n + 1
      PROVE  /\ more[k].op # "+" => more[k].line = a[OldUpTo(more, k)]
             /\ more[k].op # "-" => more[k].line = b[NewUpTo(more, k)]
  <2>1. CASE k = n + 1
    BY <1>1, <1>6, <2>1
  <2>2. CASE k # n + 1
    <3>1. k \in 1 .. n /\ k \in 0 .. n
      BY <1>1, <2>2
    <3>2. /\ script[k].op # "+" => script[k].line = a[OldUpTo(script, k)]
          /\ script[k].op # "-" => script[k].line = b[NewUpTo(script, k)]
      BY <3>1 DEF TurnsUpTo, n
    <3> QED  BY <1>1, <1>2, <3>1, <3>2
  <2> QED  BY <2>1, <2>2
<1>8. TurnsUpTo(more, a, b, x, y)
  BY <1>1, <1>6, <1>7 DEF TurnsUpTo
<1> QED  BY <1>1, <1>8 DEF more

\* The grid that Script() fills: from the lines dealt with so far to a script.
Places(a, b) == (0 .. Len(a)) \X (0 .. Len(b))

ScriptAt(a, b, g, p) ==
    LET i == p[1]
        j == p[2]
        added   == Append(g[<<i, j - 1>>], Added(b[j]))
        removed == Append(g[<<i - 1, j>>], Removed(a[i]))
    IN CASE i = 0 /\ j = 0 -> <<>>
         [] i = 0 /\ j > 0 -> added
         [] i > 0 /\ j = 0 -> removed
         [] i > 0 /\ j > 0 /\ a[i] = b[j] -> Append(g[<<i - 1, j - 1>>], Kept(a[i]))
         [] i > 0 /\ j > 0 /\ a[i] # b[j] -> IF Len(removed) < Len(added) THEN removed ELSE added

Place(i, j) == <<i, j>>

\* A script at a place is one at a place before, and a line more.
ComesFrom(a, b, script, g, i, j) ==
    \/ i = 0 /\ j = 0 /\ script = <<>>
    \/ j > 0 /\ script = Append(g[Place(i, j - 1)], Added(b[j]))
    \/ i > 0 /\ script = Append(g[Place(i - 1, j)], Removed(a[i]))
    \/ i > 0 /\ j > 0 /\ a[i] = b[j] /\ script = Append(g[Place(i - 1, j - 1)], Kept(a[i]))

LEMMA ScriptAtComesFrom ==
    ASSUME NEW a, NEW b, NEW g, NEW i \in Nat, NEW j \in Nat
    PROVE  ComesFrom(a, b, ScriptAt(a, b, g, Place(i, j)), g, i, j)
<1> USE DEF Place
<1> DEFINE s == ScriptAt(a, b, g, <<i, j>>)
<1>1. CASE i = 0 /\ j = 0
  <2>1. s = <<>>
    BY <1>1 DEF ScriptAt
  <2> QED  BY <1>1, <2>1 DEF ComesFrom
<1>2. CASE i = 0 /\ j > 0
  <2>1. s = Append(g[<<i, j - 1>>], Added(b[j]))
    BY <1>2 DEF ScriptAt
  <2> QED  BY <1>2, <2>1 DEF ComesFrom
<1>3. CASE i > 0 /\ j = 0
  <2>1. s = Append(g[<<i - 1, j>>], Removed(a[i]))
    BY <1>3 DEF ScriptAt
  <2> QED  BY <1>3, <2>1 DEF ComesFrom
<1>4. CASE i > 0 /\ j > 0 /\ a[i] = b[j]
  <2>1. s = Append(g[<<i - 1, j - 1>>], Kept(a[i]))
    BY <1>4 DEF ScriptAt
  <2> QED  BY <1>4, <2>1 DEF ComesFrom
<1>5. CASE i > 0 /\ j > 0 /\ a[i] # b[j]
  <2>1. s \in {Append(g[<<i, j - 1>>], Added(b[j])), Append(g[<<i - 1, j>>], Removed(a[i]))}
    BY <1>5 DEF ScriptAt
  <2> QED  BY <1>5, <2>1 DEF ComesFrom
<1> QED  BY <1>1, <1>2, <1>3, <1>4, <1>5

LEMMA ScriptTurns ==
    ASSUME NEW V, NEW a \in Seq(V), NEW b \in Seq(V)
    PROVE  /\ Script(a, b) \in Seq(ScriptLines(V))
           /\ Turns(Script(a, b), a, b)
<1> DEFINE P == Places(a, b)
           A == Seq(ScriptLines(V))
           n == Len(a) + Len(b)
           rank == [p \in P |-> p[1] + p[2]]
           step == [p \in P |-> [h \in [Lower(rank, p) -> A] |-> ScriptAt(a, b, h, p)]]
           Fills(g) == g = [p \in P |-> ScriptAt(a, b, g, p)]
           grid == CHOOSE g : Fills(g)
<1>1. Script(a, b) = grid[Place(Len(a), Len(b))]
  BY DEF Script, ScriptAt, Places, Place
<1>2. Len(a) \in Nat /\ Len(b) \in Nat /\ n \in Nat
  BY LenProperties
<1>3. \A i \in 1 .. Len(a) : Removed(a[i]) \in ScriptLines(V) /\ Kept(a[i]) \in ScriptLines(V)
  <2>1. \A i \in 1 .. Len(a) : a[i] \in V
    BY ElementOfSeq
  <2> QED  BY <2>1 DEF Removed, Kept, ScriptLines
<1>4. \A j \in 1 .. Len(b) : Added(b[j]) \in ScriptLines(V)
  <2>1. \A j \in 1 .. Len(b) : b[j] \in V
    BY ElementOfSeq
  <2> QED  BY <2>1 DEF Added, ScriptLines
<1>5. rank \in [P -> 0 .. n]
  BY <1>2 DEF Places
<1>6. ASSUME NEW i \in 0 .. Len(a), NEW j \in 0 .. Len(b)
      PROVE  /\ Place(i, j) \in P /\ rank[Place(i, j)] = i + j
             /\ j > 0 => Place(i, j - 1) \in Lower(rank, Place(i, j))
             /\ i > 0 => Place(i - 1, j) \in Lower(rank, Place(i, j))
             /\ i > 0 /\ j > 0 => Place(i - 1, j - 1) \in Lower(rank, Place(i, j))
  <2>1. \A x \in 0 .. Len(a), y \in 0 .. Len(b) : Place(x, y) \in P /\ rank[Place(x, y)] = x + y
    BY DEF Places, Place
  <2>2. DOMAIN rank = P
    OBVIOUS
  <2> HIDE DEF rank, P
  <2>3. \A x \in 0 .. Len(a), y \in 0 .. Len(b) :
           x + y < i + j => Place(x, y) \in Lower(rank, Place(i, j))
    BY <2>1, <2>2 DEF Lower
  <2>4. j > 0 => j - 1 \in 0 .. Len(b) /\ i + (j - 1) < i + j
    BY <1>2
  <2>5. i > 0 => i - 1 \in 0 .. Len(a) /\ (i - 1) + j < i + j
    BY <1>2
  <2>6. i > 0 /\ j > 0 => (i - 1) + (j - 1) < i + j
    BY <1>2
  <2> QED  BY <2>1, <2>3, <2>4, <2>5, <2>6
<1>7. \A p \in P : \E i \in 0 .. Len(a), j \in 0 .. Len(b) : p = Place(i, j)
  BY DEF Places, Place
<1> HIDE DEF P, rank, n, A
<1>8. ASSUME NEW i \in 0 .. Len(a), NEW j \in 0 .. Len(b),
             NEW h \in [Lower(rank, Place(i, j)) -> A]
      PROVE  ScriptAt(a, b, h, Place(i, j)) \in A
  <2> DEFINE s == ScriptAt(a, b, h, Place(i, j))
  <2>1. ComesFrom(a, b, s, h, i, j) /\ i \in Nat /\ j \in Nat
    BY <1>2, ScriptAtComesFrom
  <2> SUFFICES s \in A
    OBVIOUS
  <2> HIDE DEF s
  <2>2. \A x \in A, d \in ScriptLines(V) : Append(x, d) \in A
    BY AppendProperties DEF A
  <2>3. CASE s = <<>>
    BY <2>3, EmptySeq DEF A
  <2>4. CASE j > 0 /\ s = Append(h[Place(i, j - 1)], Added(b[j]))
    <3>1. h[Place(i, j - 1)] \in A /\ Added(b[j]) \in ScriptLines(V)
      BY <1>2, <1>4, <1>6, <2>4
    <3> QED  BY <2>2, <2>4, <3>1
  <2>5. CASE i > 0 /\ s = Append(h[Place(i - 1, j)], Removed(a[i]))
    <3>1. h[Place(i - 1, j)] \in A /\ Removed(a[i]) \in ScriptLines(V)
      BY <1>2, <1>3, <1>6, <2>5
    <3> QED  BY <2>2, <2>5, <3>1
  <2>6. CASE i > 0 /\ j > 0 /\ s = Append(h[Place(i - 1, j - 1)], Kept(a[i]))
    <3>1. h[Place(i - 1, j - 1)] \in A /\ Kept(a[i]) \in ScriptLines(V)
      BY <1>2, <1>3, <1>6, <2>6
    <3> QED  BY <2>2, <2>6, <3>1
  <2> QED  BY <2>1, <2>3, <2>4, <2>5, <2>6 DEF ComesFrom
<1>9. Steps(rank, A, step)
  <2>1. \A p \in P : \A h \in [Lower(rank, p) -> A] : ScriptAt(a, b, h, p) \in A
    BY <1>7, <1>8
  <2>2. \A p \in P : \A h \in [Lower(rank, p) -> A] : step[p][h] \in A
    BY <2>1
  <2> HIDE DEF step
  <2> QED  BY <1>5, <2>2 DEF Steps
<1>10. PICK f \in [P -> A] : Recurs(f, rank, step)
  <2> HIDE DEF step
  <2>1. n \in Nat /\ rank \in [P -> 0 .. n] /\ Steps(rank, A, step)
    BY <1>2, <1>5, <1>9
  <2> QED  BY <2>1, RecursionExists
<1>11. ASSUME NEW p \in P
       PROVE  f[p] = ScriptAt(a, b, f, p)
  <2>1. PICK i \in 0 .. Len(a), j \in 0 .. Len(b) : p = Place(i, j)
    BY <1>7
  <2> DEFINE h == Told(f, rank, p)
  <2>2. /\ h \in [Lower(rank, p) -> A] /\ f[p] = step[p][h]
        /\ \A q \in Lower(rank, p) : h[q] = f[q]
    BY <1>5, <1>10 DEF Recurs, Told, Lower
  <2> HIDE DEF h
  <2>3. f[p] = ScriptAt(a, b, h, p)
    BY <2>2
  <2>4. /\ j > 0 => h[Place(i, j - 1)] = f[Place(i, j - 1)]
        /\ i > 0 => h[Place(i - 1, j)] = f[Place(i - 1, j)]
        /\ i > 0 /\ j > 0 => h[Place(i - 1, j - 1)] = f[Place(i - 1, j - 1)]
    BY <1>6, <2>1, <2>2
  <2>5. ScriptAt(a, b, h, p) = ScriptAt(a, b, f, p)
    <3>1. i \in Nat /\ j \in Nat
      BY <1>2
    <3> QED  BY <2>1, <2>4, <3>1 DEF ScriptAt, Place
  <2> QED  BY <2>3, <2>5
<1>12. Fills(grid)
  <2>1. Fills(f)
    <3> HIDE DEF step
    <3> QED  BY <1>11
  <2> HIDE DEF Fills
  <2> QED  BY <2>1
<1> HIDE DEF grid, step
<1> DEFINE Good(i, j) == /\ grid[Place(i, j)] \in Seq(ScriptLines(V))
                         /\ TurnsUpTo(grid[Place(i, j)], a, b, i, j)
           T == {m \in 0 .. n : \A i \in 0 .. Len(a), j \in 0 .. Len(b) : i + j <= m => Good(i, j)}
<1>13. ASSUME NEW i \in 0 .. Len(a), NEW j \in 0 .. Len(b),
              \A x \in 0 .. Len(a), y \in 0 .. Len(b) : x + y < i + j => Good(x, y)
       PROVE  Good(i, j)
  <2> DEFINE s == grid[Place(i, j)]
  <2>1. s = ScriptAt(a, b, grid, Place(i, j))
    BY <1>6, <1>12
  <2>2. ComesFrom(a, b, s, grid, i, j) /\ i \in Nat /\ j \in Nat
    BY <1>2, <2>1, ScriptAtComesFrom
  <2> SUFFICES s \in Seq(ScriptLines(V)) /\ TurnsUpTo(s, a, b, i, j)
    OBVIOUS
  <2> HIDE DEF s
  <2>3. CASE i = 0 /\ j = 0 /\ s = <<>>
    <3>1. Len(<<>>) = 0 /\ 1 .. 0 = {}
      OBVIOUS
    <3>2. OldUpTo(<<>>, 0) = 0 /\ NewUpTo(<<>>, 0) = 0
      BY ScriptCounts
    <3>3. TurnsUpTo(<<>>, a, b, 0, 0)
      BY <3>1, <3>2 DEF TurnsUpTo
    <3> QED  BY <2>3, <3>3, EmptySeq
  <2>4. CASE j > 0 /\ s = Append(grid[Place(i, j - 1)], Added(b[j]))
    <3> DEFINE y == j - 1
               d == Added(b[j])
               g == grid[Place(i, y)]
    <3>1. y \in 0 .. Len(b) /\ i + y < i + j /\ y \in Nat /\ j = y + 1 /\ j \in 1 .. Len(b)
      BY <1>2, <2>4
    <3>2. g \in Seq(ScriptLines(V)) /\ TurnsUpTo(g, a, b, i, y)
      BY <1>13, <3>1
    <3>3. d \in ScriptLines(V) /\ d.op = "+" /\ d.line = b[j]
      BY <1>4, <3>1 DEF Added
    <3>4. s = Append(g, d)
      BY <2>4
    <3> HIDE DEF d, y, g
    <3>5. /\ i = i + (IF d.op # "+" THEN 1 ELSE 0)
          /\ j = y + (IF d.op # "-" THEN 1 ELSE 0)
      BY <2>2, <3>1, <3>3
    <3> QED  BY <2>2, <3>1, <3>2, <3>3, <3>4, <3>5, TurnsOneMore
  <2>5. CASE i > 0 /\ s = Append(grid[Place(i - 1, j)], Removed(a[i]))
    <3> DEFINE x == i - 1
               d == Removed(a[i])
               g == grid[Place(x, j)]
    <3>1. x \in 0 .. Len(a) /\ x + j < i + j /\ x \in Nat /\ i = x + 1 /\ i \in 1 .. Len(a)
      BY <1>2, <2>5
    <3>2. g \in Seq(ScriptLines(V)) /\ TurnsUpTo(g, a, b, x, j)
      BY <1>13, <3>1
    <3>3. d \in ScriptLines(V) /\ d.op = "-" /\ d.line = a[i]
      BY <1>3, <3>1 DEF Removed
    <3>4. s = Append(g, d)
      BY <2>5
    <3> HIDE DEF d, x, g
    <3>5. /\ i = x + (IF d.op # "+" THEN 1 ELSE 0)
          /\ j = j + (IF d.op # "-" THEN 1 ELSE 0)
      BY <2>2, <3>1, <3>3
    <3> QED  BY <2>2, <3>1, <3>2, <3>3, <3>4, <3>5, TurnsOneMore
  <2>6. CASE i > 0 /\ j > 0 /\ a[i] = b[j] /\ s = Append(grid[Place(i - 1, j - 1)], Kept(a[i]))
    <3> DEFINE x == i - 1
               y == j - 1
               d == Kept(a[i])
               g == grid[Place(x, y)]
    <3>1. /\ x \in 0 .. Len(a) /\ y \in 0 .. Len(b) /\ x + y < i + j
          /\ x \in Nat /\ y \in Nat /\ i = x + 1 /\ j = y + 1 /\ i \in 1 .. Len(a)
      BY <1>2, <2>6
    <3>2. g \in Seq(ScriptLines(V)) /\ TurnsUpTo(g, a, b, x, y)
      BY <1>13, <3>1
    <3>3. d \in ScriptLines(V) /\ d.op = " " /\ d.line = a[i] /\ d.line = b[j]
      BY <1>3, <2>6, <3>1 DEF Kept
    <3>4. s = Append(g, d)
      BY <2>6
    <3> HIDE DEF d, x, y, g
    <3>5. /\ i = x + (IF d.op # "+" THEN 1 ELSE 0)
          /\ j = y + (IF d.op # "-" THEN 1 ELSE 0)
      BY <2>2, <3>1, <3>3
    <3> QED  BY <2>2, <3>1, <3>2, <3>3, <3>4, <3>5, TurnsOneMore
  <2> QED  BY <2>2, <2>3, <2>4, <2>5, <2>6 DEF ComesFrom
<1>14. 0 \in T
  <2>1. \A i \in 0 .. Len(a), j \in 0 .. Len(b) : i + j <= 0 => Good(i, j)
    <3> HIDE DEF Good
    <3> SUFFICES ASSUME NEW i \in 0 .. Len(a), NEW j \in 0 .. Len(b), i + j <= 0
                 PROVE  Good(i, j)
      OBVIOUS
    <3>1. \A x \in 0 .. Len(a), y \in 0 .. Len(b) : ~(x + y < i + j)
      BY <1>2
    <3> QED  BY <1>13, <3>1
  <2> HIDE DEF Good
  <2> QED  BY <1>2, <2>1
<1>15. ASSUME NEW m \in 0 .. n - 1, m \in T
       PROVE  m + 1 \in T
  <2> HIDE DEF Good
  <2>1. m + 1 \in 0 .. n /\ m \in Nat
    BY <1>2
  <2>2. ASSUME NEW i \in 0 .. Len(a), NEW j \in 0 .. Len(b), i + j <= m + 1
        PROVE  Good(i, j)
    <3>1. \A x \in 0 .. Len(a), y \in 0 .. Len(b) : x + y < i + j => x + y <= m
      BY <1>2, <2>1, <2>2
    <3>2. \A x \in 0 .. Len(a), y \in 0 .. Len(b) : x + y < i + j => Good(x, y)
      BY <1>15, <3>1
    <3> QED  BY <1>13, <3>2
  <2> QED  BY <2>1, <2>2
<1>16. n \in T
  <2> HIDE DEF T
  <2>1. 0 .. n \subseteq T
    BY <1>2, <1>14, <1>15, CountingUp
  <2> QED  BY <1>2, <2>1
<1>17. Good(Len(a), Len(b))
  <2> HIDE DEF Good
  <2>1. Len(a) \in 0 .. Len(a) /\ Len(b) \in 0 .. Len(b) /\ Len(a) + Len(b) <= n
    BY <1>2 DEF n
  <2> QED  BY <1>16, <2>1
<1> QED  BY <1>1, <1>17 DEF TurnsUpTo, Turns

\* What a run saves as a diff of a file's lines a and the patched ones b gives
\* b when it is applied to a, whatever the lines, unless one of them is
\* mistaken: _apply_unified_diff() is the inverse of difflib.unified_diff()
\* where each line of the diff ends before the next, none reads as a header,
\* and readlines() takes the file apart where splitlines() does.
THEOREM DiffReplays ==
    ASSUME NEW V, NEW a \in Seq(V), NEW b \in Seq(V), Unmistakable(a, Diff(a, b))
    PROVE  ApplyDiff(a, Diff(a, b)) = b
BY ScriptTurns, ReplayGivesNew DEF Diff

=============================================================================
