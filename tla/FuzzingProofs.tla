---------------------------- MODULE FuzzingProofs ----------------------------
(***************************************************************************)
(* What TLC shows of Fuzzing on two sessions, proved for any number of     *)
(* sessions, iterations and seeds, and any sizes of the target's buffer.   *)
(***************************************************************************)
EXTENDS Fuzzing, ClosedLoopProofs

-----------------------------------------------------------------------------
(* Mutations.                                                              *)

\* A bit flipped in a byte leaves a byte.
LEMMA FlipIsByte ==
    ASSUME NEW x \in Byte, NEW bit \in Bits
    PROVE  Flip(x, bit) \in Byte
<1> USE DEF Byte, Flip
<1>1. CASE bit = 1
  BY <1>1
<1>2. CASE bit = 2
  BY <1>2
<1>3. CASE bit = 4
  BY <1>3
<1>4. CASE bit = 8
  BY <1>4
<1>5. CASE bit = 16
  BY <1>5
<1>6. CASE bit = 32
  BY <1>6
<1>7. CASE bit = 64
  BY <1>7
<1>8. CASE bit = 128
  BY <1>8
<1> QED  BY <1>1, <1>2, <1>3, <1>4, <1>5, <1>6, <1>7, <1>8 DEF Bits

\* The first two of some bytes.
LEMMA TwoFacts ==
    ASSUME NEW bytes \in Seq(Byte)
    PROVE  /\ Two(bytes) \in Seq(Byte)
           /\ Len(Two(bytes)) = IF Len(bytes) < 2 THEN Len(bytes) ELSE 2
<1>1. Len(bytes) \in Nat
  BY LenProperties
<1> DEFINE n == IF Len(bytes) < 2 THEN Len(bytes) ELSE 2
<1>2. /\ n \in Nat /\ n <= Len(bytes)
      /\ \A i \in 1 .. n : bytes[i] \in Byte
  BY <1>1, ElementOfSeq
<1>3. SubSeq(bytes, 1, n) \in Seq(Byte) /\ Len(SubSeq(bytes, 1, n)) = n
  BY <1>1, <1>2, SubSeqProperties
<1> QED  BY <1>3 DEF Two

\* What makes a frame.
LEMMA FrameIs ==
    /\ \A f \in Frames : /\ f = [head |-> f.head, size |-> f.size]
                         /\ f.head \in Seq(Byte) /\ f.size \in Nat
                         /\ Len(f.head) = IF f.size < 2 THEN f.size ELSE 2
    /\ \A h \in Seq(Byte), n \in Nat :
          Len(h) = (IF n < 2 THEN n ELSE 2) => [head |-> h, size |-> n] \in Frames
<1>1. \A h \in Seq(Byte), n \in Nat : /\ [head |-> h, size |-> n] \in [head : Seq(Byte), size : Nat]
                                      /\ [head |-> h, size |-> n].head = h
                                      /\ [head |-> h, size |-> n].size = n
  OBVIOUS
<1>2. ASSUME NEW f \in Frames
      PROVE  /\ f = [head |-> f.head, size |-> f.size]
             /\ f.head \in Seq(Byte) /\ f.size \in Nat
             /\ Len(f.head) = IF f.size < 2 THEN f.size ELSE 2
  <2>1. f \in [head : Seq(Byte), size : Nat] /\ Len(f.head) = IF f.size < 2 THEN f.size ELSE 2
    BY DEF Frames
  <2> QED  BY <2>1
<1>3. ASSUME NEW h \in Seq(Byte), NEW n \in Nat, Len(h) = IF n < 2 THEN n ELSE 2
      PROVE  [head |-> h, size |-> n] \in Frames
  BY <1>1, <1>3 DEF Frames
<1> QED  BY <1>2, <1>3

\* A seed is a frame of a byte at least.
LEMMA SeedIsFrame ==
    ASSUME NEW f \in Frames
    PROVE  Seed(f) \in Frames /\ Seed(f).size \in Nat \ {0}
<1>1. CASE f.size = 0
  <2> DEFINE h == <<0>>
  <2>1. h \in Seq(Byte) /\ Len(h) = 1
    BY DEF Byte
  <2>2. Seed(f) = [head |-> h, size |-> 1]
    BY <1>1 DEF Seed
  <2> HIDE DEF h
  <2>3. \A n \in Nat : Len(h) = (IF n < 2 THEN n ELSE 2) => [head |-> h, size |-> n] \in Frames
    BY <2>1, FrameIs
  <2>4. Len(h) = (IF 1 < 2 THEN 1 ELSE 2)
    BY <2>1
  <2>5. [head |-> h, size |-> 1] \in Frames
    BY <2>3, <2>4
  <2> QED  BY <2>2, <2>5
<1>2. CASE f.size # 0
  BY <1>2, FrameIs DEF Seed
<1> QED  BY <1>1, <1>2

\* A mutation of a frame is a frame, at most MaxExtension bytes longer.
LEMMA MutationsAreFrames ==
    ASSUME NEW f \in Frames, NEW g \in Mutations(f)
    PROVE  g \in Frames /\ g.size <= Seed(f).size + MaxExtension
<1> DEFINE d == Seed(f)
           h == d.head
           Goal == g \in Frames /\ g.size <= d.size + MaxExtension
<1>1. /\ d = [head |-> h, size |-> d.size]
      /\ h \in Seq(Byte)
      /\ d.size \in Nat /\ d.size >= 1
      /\ Len(h) = IF d.size < 2 THEN d.size ELSE 2
      /\ Len(h) \in {1, 2}
      /\ DOMAIN h = 1 .. Len(h)
      /\ \A i \in 1 .. Len(h) : h[i] \in Byte
  <2>1. d \in Frames /\ d.size >= 1
    BY SeedIsFrame
  <2> HIDE DEF d
  <2>2. /\ d = [head |-> h, size |-> d.size]
        /\ h \in Seq(Byte)
        /\ d.size \in Nat
        /\ Len(h) = IF d.size < 2 THEN d.size ELSE 2
    BY <2>1, FrameIs
  <2>3. Len(h) \in {1, 2}
    BY <2>1, <2>2
  <2> QED  BY <2>1, <2>2, <2>3, LenProperties, ElementOfSeq
<1>2. Interesting \subseteq Byte
  BY DEF Interesting, Byte
<1> SUFFICES Goal
  OBVIOUS
<1> HIDE DEF Goal, d
<1>3. ASSUME NEW i \in DOMAIN h, NEW v \in Byte, g = [d EXCEPT !.head[i] = v]
      PROVE  Goal
  <2>1. /\ [h EXCEPT ![i] = v] \in Seq(Byte)
        /\ Len([h EXCEPT ![i] = v]) = Len(h)
    BY <1>1, <1>3, ExceptSeq
  <2>2. g = [head |-> [h EXCEPT ![i] = v], size |-> d.size]
    BY <1>1, <1>3
  <2>3. g \in Frames
    BY <1>1, <2>1, <2>2, FrameIs
  <2> QED  BY <1>1, <2>2, <2>3 DEF MaxExtension, Goal
<1>4. CASE g \in Flipped(d)
  BY <1>1, <1>3, <1>4, FlipIsByte DEF Flipped
<1>5. CASE g \in Substituted(d)
  BY <1>1, <1>2, <1>3, <1>5 DEF Substituted
<1>6. ASSUME NEW bytes \in Seq(Byte), NEW n \in 1 .. MaxExtension,
             Len(bytes) = Len(h) + 1,
             g = [head |-> Two(bytes), size |-> d.size + n]
      PROVE  Goal
  <2>1. g.size = d.size + n /\ g.head = Two(bytes) /\ n >= 1 /\ n <= MaxExtension
    BY <1>6 DEF MaxExtension
  <2>2. Len(bytes) \in {2, 3}
    BY <1>1, <1>6
  <2>3. Two(bytes) \in Seq(Byte) /\ Len(Two(bytes)) = 2
    <3>1. /\ Two(bytes) \in Seq(Byte)
          /\ Len(Two(bytes)) = IF Len(bytes) < 2 THEN Len(bytes) ELSE 2
      BY <1>6, TwoFacts, Zenon
    <3> QED  BY <2>2, <3>1
  <2>4. d.size + n \in Nat /\ d.size + n >= 2
    <3> DEFINE size == d.size
    <3>1. size \in Nat /\ size >= 1 /\ n \in Nat /\ n >= 1
      BY <1>1, <2>1 DEF MaxExtension
    <3> HIDE DEF size
    <3>2. size + n \in Nat /\ size + n >= 2
      BY <3>1
    <3> QED  BY <3>2 DEF size
  <2> DEFINE two == Two(bytes)
             size == d.size + n
  <2>5. g = [head |-> two, size |-> size]
    BY <1>6
  <2> HIDE DEF two, size
  <2>6. g \in Frames
    BY <2>3, <2>4, <2>5, FrameIs DEF two, size
  <2> QED  BY <1>1, <2>1, <2>6 DEF Goal, MaxExtension
<1>7. CASE g \in Inserted(d)
  <2>1. PICK i \in 1 .. Len(h) + 1, v \in Interesting : g = Insertion(d, i, v)
    BY <1>7 DEF Inserted
  <2> DEFINE before == SubSeq(h, 1, i - 1)
             after  == SubSeq(h, i, Len(h))
             bytes  == before \o <<v>> \o after
  <2>2. before \in Seq(Byte) /\ Len(before) = i - 1
    BY <1>1, <2>1, SubSeqProperties
  <2>3. after \in Seq(Byte) /\ Len(after) = Len(h) - i + 1
    BY <1>1, <2>1, SubSeqProperties
  <2>4. <<v>> \in Seq(Byte) /\ Len(<<v>>) = 1
    BY <1>2
  <2> HIDE DEF before, after
  <2>5. (before \o <<v>>) \in Seq(Byte) /\ Len(before \o <<v>>) = i
    BY <1>1, <2>1, <2>2, <2>4, ConcatProperties
  <2>6. bytes \in Seq(Byte) /\ Len(bytes) = Len(h) + 1
    BY <1>1, <2>1, <2>3, <2>5, ConcatProperties
  <2>7. 1 \in 1 .. MaxExtension
    BY DEF MaxExtension
  <2>8. g = [head |-> Two(bytes), size |-> d.size + 1]
    BY <2>1 DEF Insertion, before, after
  <2> QED  BY <1>6, <2>6, <2>7, <2>8
<1>8. CASE g \in Truncated(d)
  <2>1. PICK n \in 1 .. d.size - 1 : g = Truncation(d, n)
    BY <1>8 DEF Truncated
  <2> DEFINE m == IF n < 2 THEN n ELSE 2
  <2>2. m \in Nat /\ m <= Len(h) /\ m >= 1
    BY <1>1, <2>1
  <2>3. SubSeq(h, 1, m) \in Seq(Byte) /\ Len(SubSeq(h, 1, m)) = m
    BY <1>1, <2>2, SubSeqProperties
  <2>4. g = [head |-> SubSeq(h, 1, m), size |-> n] /\ n \in Nat /\ n < d.size
    BY <1>1, <2>1 DEF Truncation
  <2>5. g \in Frames
    <3> DEFINE part == SubSeq(h, 1, m)
    <3>1. g = [head |-> part, size |-> n] /\ part \in Seq(Byte) /\ Len(part) = m
      BY <2>3, <2>4
    <3> HIDE DEF part
    <3> QED  BY <2>4, <3>1, FrameIs
  <2> QED  BY <1>1, <2>4, <2>5 DEF MaxExtension, Goal
<1>9. CASE g \in Extended(d)
  <2>1. PICK v \in Interesting, n \in 1 .. MaxExtension : g = Extension(d, v, n)
    BY <1>9 DEF Extended
  <2>2. <<v>> \in Seq(Byte) /\ Len(<<v>>) = 1
    BY <1>2
  <2>3. (h \o <<v>>) \in Seq(Byte) /\ Len(h \o <<v>>) = Len(h) + 1
    BY <1>1, <2>2, ConcatProperties
  <2>4. g = [head |-> Two(h \o <<v>>), size |-> d.size + n]
    BY <2>1 DEF Extension
  <2> QED  BY <1>6, <2>3, <2>4
<1>10. CASE g \in Unchanged(d)
  BY <1>1, <1>10, SeedIsFrame DEF Unchanged, MaxExtension, Goal, d
<1> QED
  BY <1>4, <1>5, <1>7, <1>8, <1>9, <1>10 DEF Mutations, d

\* ASan reports a mutated seed only if the seed is long enough: the target
\* copies no more bytes than it has received.
LEMMA ReportedIsLong ==
    ASSUME NEW f \in Frames, NEW g \in Mutations(f), NEW checked, Reported(checked, g)
    PROVE  LongEnough(f)
<1>1. /\ g.size \in Nat
      /\ g.size <= Seed(f).size + MaxExtension
      /\ g.head \in Seq(Byte)
      /\ Len(g.head) = IF g.size < 2 THEN g.size ELSE 2
  BY MutationsAreFrames, FrameIs
<1>2. Seed(f).size \in Nat
  BY SeedIsFrame
<1>3. Copied(checked, g) # 0 /\ Copied(checked, g) > StructSize
  BY PacketAssumption DEF Reported
<1>4. g.size >= 2
  BY <1>1, <1>3 DEF Copied
<1>5. Declared(g) \in Nat
  <2>1. Len(g.head) = 2
    BY <1>1, <1>4
  <2>2. g.head[1] \in Byte /\ g.head[2] \in Byte
    BY <1>1, <2>1, ElementOfSeq
  <2> DEFINE a == g.head[1]
             b == g.head[2]
  <2>3. a \in 0 .. 255 /\ b \in 0 .. 255
    BY <2>2 DEF Byte
  <2> HIDE DEF a, b
  <2>4. a + 256 * b \in Nat
    BY <2>3
  <2> QED  BY <2>4 DEF Declared, a, b
<1>6. g.size >= 2 + Declared(g) /\ Declared(g) > StructSize
  BY <1>1, <1>3, <1>5 DEF Copied
<1> QED  BY <1>1, <1>2, <1>5, <1>6, PacketAssumption DEF LongEnough, MaxExtension

-----------------------------------------------------------------------------
(* What a session has found.                                               *)

\* The states of a session that its steps lead to: it has found at most one
\* crash in each iteration so far, and knows of the run it hands over.
Fits(q) ==
    /\ q \in SessionStates
    /\ Len(q.found) <= q.iteration
    /\ \A i \in DOMAIN q.found :
          /\ q.found[i].at <= q.iteration
          /\ q.found[i].kind = "report" => \E f \in seeds : LongEnough(f)
    /\ \A i, j \in DOMAIN q.found : q.found[i].at = q.found[j].at => i = j
    /\ q.pc \in {"hand", "running"} => q.next <= Len(q.found)
    /\ q.pc \in {"idle", "check", "compile", "link", "linking", "fuzz"} => q.next = 1
    /\ q.pc = "link" => q.obj \in Trees
    /\ q.pc = "linking" => exe # NoExe

SessionsFit ==
    /\ session \in [Sessions -> SessionStates]
    /\ \A s \in Sessions : Fits(session[s])
    /\ exe \in Exes
    /\ crashDir \in [1 .. Iterations -> Sessions \cup {Nobody}]
    /\ seeds \in SeedDirs

\* What a session has found is a sequence of crashes.
LEMMA FoundIs ==
    /\ \A q \in SessionStates : /\ q.found \in Seq(Crash)
                                /\ Len(q.found) \in 0 .. Iterations
                                /\ DOMAIN q.found = 1 .. Len(q.found)
                                /\ \A i \in DOMAIN q.found : q.found[i] \in Crash
    /\ \A found \in Seq(Crash) : Len(found) <= Iterations =>
          found \in UNION {[1 .. n -> Crash] : n \in 0 .. Iterations}
<1>1. ASSUME NEW q \in SessionStates
      PROVE  /\ q.found \in Seq(Crash)
             /\ Len(q.found) \in 0 .. Iterations
             /\ DOMAIN q.found = 1 .. Len(q.found)
             /\ \A i \in DOMAIN q.found : q.found[i] \in Crash
  <2> DEFINE found == q.found
  <2>1. found \in UNION {[1 .. n -> Crash] : n \in 0 .. Iterations}
    BY DEF SessionStates
  <2>2. PICK n \in 0 .. Iterations : found \in [1 .. n -> Crash]
    BY <2>1
  <2> HIDE DEF found
  <2>3. n \in Nat
    BY FuzzingAssumption
  <2>4. found \in Seq(Crash) /\ Len(found) = n
    BY <2>2, <2>3, SeqDef, LenProperties
  <2> QED  BY <2>2, <2>4 DEF found
<1>2. ASSUME NEW found \in Seq(Crash), Len(found) <= Iterations
      PROVE  found \in UNION {[1 .. n -> Crash] : n \in 0 .. Iterations}
  <2>1. found \in [1 .. Len(found) -> Crash] /\ Len(found) \in Nat
    BY LenProperties, ElementOfSeq
  <2>2. Len(found) \in 0 .. Iterations
    BY <1>2, <2>1, FuzzingAssumption
  <2> QED  BY <2>1, <2>2
<1> QED  BY <1>1, <1>2

\* At first no session has begun.
LEMMA SessionsFitInit == FuzzingInit => SessionsFit
<1> SUFFICES ASSUME FuzzingInit
             PROVE  SessionsFit
  OBVIOUS
<1>1. NoSession \in SessionStates
  <2>1. << >> \in Seq(Crash) /\ Len(<< >>) = 0
    OBVIOUS
  <2>2. << >> \in UNION {[1 .. n -> Crash] : n \in 0 .. Iterations}
    BY <2>1, FoundIs, FuzzingAssumption
  <2>3. 0 \in 0 .. Iterations /\ 1 \in 1 .. Iterations + 1
    BY FuzzingAssumption
  <2> QED  BY <2>2, <2>3 DEF NoSession, SessionStates
<1>2. Fits(NoSession)
  BY <1>1 DEF NoSession, Fits
<1>3. exe \in Exes
  BY DEF FuzzingInit, Exes
<1> QED  BY <1>1, <1>2, <1>3 DEF FuzzingInit, SessionsFit

\* Where a session goes when it finds nothing more.
LEMMA StillFits ==
    ASSUME SessionsFit, NEW s \in Sessions, NEW q \in SessionStates,
           q.found = session[s].found,
           q.iteration >= session[s].iteration,
           q.pc \in {"hand", "running"} => q.next <= Len(q.found),
           q.pc \in {"idle", "check", "compile", "link", "linking", "fuzz"} => q.next = 1,
           q.pc = "link" => q.obj \in Trees,
           q.pc = "linking" => exe' # NoExe,
           UNCHANGED seeds
    PROVE  Fits(q)'
<1>1. /\ Fits(session[s])
      /\ session[s] \in SessionStates
  BY DEF SessionsFit
<1>2. /\ session[s].iteration \in Nat /\ q.iteration \in Nat
      /\ Len(q.found) \in Nat
      /\ \A i \in DOMAIN q.found : q.found[i].at \in Nat
  BY <1>1, FoundIs, FuzzingAssumption DEF SessionStates, Crash
<1>3. Len(q.found) <= q.iteration
  BY <1>1, <1>2 DEF Fits
<1>4. \A i \in DOMAIN q.found :
         /\ q.found[i].at <= q.iteration
         /\ q.found[i].kind = "report" => \E f \in seeds' : LongEnough(f)
  BY <1>1, <1>2 DEF Fits
<1>5. \A i, j \in DOMAIN q.found : q.found[i].at = q.found[j].at => i = j
  BY <1>1 DEF Fits
<1> QED  BY <1>3, <1>4, <1>5 DEF Fits

\* When session s may find a crash.
Hits(s, kind) ==
    /\ More(s)
    /\ exe.whole
    /\ kind = "report" => exe.of.src \in Reporting[seeds]

\* A crash is added at the end of what a session has found.
LEMMA CrashFits ==
    ASSUME SessionsFit, NEW s \in Sessions, NEW kind \in Kinds, Hits(s, kind),
           UNCHANGED <<exe, seeds>>
    PROVE  LET at == session[s].iteration + 1
               c  == [at |-> at, kind |-> kind, src |-> exe.of.src]
           IN  /\ at \in 1 .. Iterations
               /\ \E q : /\ q = [session[s] EXCEPT !.iteration = at,
                                                   !.found = Append(session[s].found, c)]
                         /\ Fits(q)'
<1> DEFINE u  == session[s]
           at == u.iteration + 1
           c  == [at |-> at, kind |-> kind, src |-> exe.of.src]
           more == Append(u.found, c)
           q  == [u EXCEPT !.iteration = at, !.found = more]
<1>1. u \in SessionStates /\ Fits(u)
  BY DEF SessionsFit
<1>2. at \in 1 .. Iterations /\ u.pc = "fuzz" /\ u.next = 1
  BY <1>1, FuzzingAssumption DEF Hits, More, SessionStates, Fits
<1>3. exe.of.src \in Sources
  BY DEF Hits, SessionsFit, Exes, NoExe, Trees
<1>4. c \in Crash
  BY <1>2, <1>3 DEF Crash
<1>5. c.at = at /\ c.kind = kind
  OBVIOUS
<1>6. /\ u.found \in Seq(Crash)
      /\ Len(u.found) \in Nat
      /\ DOMAIN u.found = 1 .. Len(u.found)
      /\ \A i \in DOMAIN u.found : u.found[i] \in Crash
  BY <1>1, FoundIs
<1>7. kind = "report" => \E f \in seeds : LongEnough(f)
  <2> SUFFICES ASSUME kind = "report"
               PROVE  \E f \in seeds : LongEnough(f)
    OBVIOUS
  <2>1. seeds \in SeedDirs /\ seeds \subseteq Frames
    BY FuzzingAssumption DEF SessionsFit
  <2>2. PICK g \in Candidates[seeds] : Reported(exe.of.src \in Checked, g)
    BY <1>3, <2>1 DEF Hits, Reporting
  <2>3. PICK f \in seeds : g \in Mutations(f)
    BY <2>1, <2>2 DEF Candidates
  <2>4. LongEnough(f)
    BY <2>1, <2>2, <2>3, ReportedIsLong
  <2> QED  BY <2>3, <2>4
<1> HIDE DEF u, c, at
<1>8. /\ more \in Seq(Crash)
      /\ Len(more) = Len(u.found) + 1
      /\ \A i \in DOMAIN u.found : more[i] = u.found[i]
      /\ more[Len(u.found) + 1] = c
      /\ DOMAIN more = 1 .. Len(u.found) + 1
  BY <1>4, <1>6, AppendProperties
<1>9. u.iteration \in Nat /\ at = u.iteration + 1 /\ Len(u.found) <= u.iteration
  BY <1>1, FuzzingAssumption DEF SessionStates, Fits, u, at
<1>10. Len(more) <= Iterations /\ at \in 0 .. Iterations
  BY <1>2, <1>6, <1>8, <1>9, FuzzingAssumption
<1>11. more \in UNION {[1 .. n -> Crash] : n \in 0 .. Iterations}
  BY <1>8, <1>10, FoundIs
<1> HIDE DEF more
<1>12. q \in SessionStates
  BY <1>1, <1>10, <1>11 DEF SessionStates
<1>13. q.found = more /\ q.iteration = at /\ q.pc = u.pc /\ q.next = u.next
  BY <1>1 DEF SessionStates
<1>14. \A i \in DOMAIN u.found : u.found[i].at \in Nat /\ u.found[i].at < at
  <2> TAKE i \in DOMAIN u.found
  <2>1. u.found[i].at \in Nat /\ u.found[i].at <= u.iteration
    BY <1>1, <1>6, FuzzingAssumption DEF Crash, Fits
  <2> QED  BY <1>9, <2>1
<1>15. \A i \in DOMAIN more :
          /\ more[i].at <= at
          /\ more[i].kind = "report" => \E f \in seeds : LongEnough(f)
  <2> TAKE i \in DOMAIN more
  <2>1. CASE i \in DOMAIN u.found
    BY <1>1, <1>8, <1>9, <1>14, <2>1 DEF Fits
  <2>2. CASE i = Len(u.found) + 1
    BY <1>5, <1>7, <1>8, <1>9, <2>2
  <2> QED  BY <1>6, <1>8, <2>1, <2>2
<1>16. \A i, j \in DOMAIN more : more[i].at = more[j].at => i = j
  <2> TAKE i, j \in DOMAIN more
  <2>1. CASE i \in DOMAIN u.found /\ j \in DOMAIN u.found
    BY <1>1, <1>8, <2>1 DEF Fits
  <2>2. CASE i \notin DOMAIN u.found /\ j \notin DOMAIN u.found
    BY <1>6, <1>8, <2>2
  <2>3. CASE i \in DOMAIN u.found /\ j \notin DOMAIN u.found
    <3>1. j = Len(u.found) + 1
      BY <1>6, <1>8, <2>3
    <3> QED  BY <1>5, <1>8, <1>9, <1>14, <2>3, <3>1
  <2>4. CASE i \notin DOMAIN u.found /\ j \in DOMAIN u.found
    <3>1. i = Len(u.found) + 1
      BY <1>6, <1>8, <2>4
    <3> QED  BY <1>5, <1>8, <1>9, <1>14, <2>4, <3>1
  <2> QED  BY <2>1, <2>2, <2>3, <2>4
<1>17. Len(more) <= at
  BY <1>6, <1>8, <1>9
<1> HIDE DEF q
<1>18. PICK z : z = q
  OBVIOUS
<1>19. Fits(z)'
  <2>1. z \in SessionStates /\ z.found = more /\ z.iteration = at /\ z.pc = "fuzz" /\ z.next = 1
    BY <1>2, <1>12, <1>13, <1>18
  <2>2. \A i \in DOMAIN z.found :
           /\ z.found[i].at <= z.iteration
           /\ z.found[i].kind = "report" => \E f \in seeds' : LongEnough(f)
    BY <1>15, <2>1
  <2>3. /\ \A i, j \in DOMAIN z.found : z.found[i].at = z.found[j].at => i = j
        /\ Len(z.found) <= z.iteration
    BY <1>16, <1>17, <2>1
  <2> QED  BY <2>1, <2>2, <2>3 DEF Fits
<1> QED  BY <1>2, <1>18, <1>19 DEF q, more, c, at, u

\* A step of a session leads to a state that fits; the file of the binary, once
\* there, stays there.
LEMMA SessionMoves ==
    ASSUME SessionsFit, tree \in Trees, NEW s \in Sessions,
           Open(s) \/ LinkCut(s) \/ SessionStep(s)
    PROVE  /\ \E q : session' = [session EXCEPT ![s] = q] /\ Fits(q)'
           /\ exe' \in Exes
           /\ exe # NoExe => exe' # NoExe
           /\ crashDir' \in [1 .. Iterations -> Sessions \cup {Nobody}]
           /\ UNCHANGED seeds
<1> DEFINE Goal == /\ \E q : session' = [session EXCEPT ![s] = q] /\ Fits(q)'
                   /\ exe' \in Exes
                   /\ exe # NoExe => exe' # NoExe
                   /\ crashDir' \in [1 .. Iterations -> Sessions \cup {Nobody}]
                   /\ UNCHANGED seeds
<1>1. /\ session \in [Sessions -> SessionStates]
      /\ session[s] \in SessionStates
      /\ Fits(session[s])
      /\ exe \in Exes
      /\ crashDir \in [1 .. Iterations -> Sessions \cup {Nobody}]
  BY DEF SessionsFit
<1>2. /\ session[s].next \in 1 .. Iterations + 1
      /\ session[s].iteration \in 0 .. Iterations
      /\ Len(session[s].found) \in 0 .. Iterations
      /\ DOMAIN session[s].found = 1 .. Len(session[s].found)
      /\ Iterations \in Nat
  BY <1>1, FoundIs, FuzzingAssumption DEF SessionStates
<1> SUFFICES Goal
  OBVIOUS
<1> DEFINE MovesTo(q) ==
             /\ session' = [session EXCEPT ![s] = q]
             /\ q.found = session[s].found
             /\ q.iteration >= session[s].iteration
             /\ q.pc \in {"hand", "running"} => q.next <= Len(q.found)
             /\ q.pc \in {"idle", "check", "compile", "link", "linking", "fuzz"} => q.next = 1
             /\ q.pc = "link" => q.obj \in Trees
             /\ q.pc = "linking" => exe' # NoExe
             /\ exe' \in Exes /\ (exe # NoExe => exe' # NoExe)
             /\ UNCHANGED <<crashDir, seeds>>
<1>3. ASSUME \E q \in SessionStates : MovesTo(q)
      PROVE  Goal
  <2>1. PICK q \in SessionStates : MovesTo(q)
    BY <1>3
  <2>2. Fits(q)'
    BY <2>1, StillFits
  <2> QED  BY <1>1, <2>1, <2>2
<1> HIDE DEF Goal
<1>4. ASSUME NEW pc \in {"check", "compile", "linking", "fuzz", "hand", "running", "cut", "died",
                         "done"},
             Goes(s, pc), UNCHANGED <<crashDir, seeds>>,
             pc \in {"hand", "running"} => session[s].next <= Len(session[s].found),
             pc \in {"check", "compile", "linking", "fuzz"} => session[s].next = 1,
             pc = "linking" => exe' # NoExe,
             exe' \in Exes, exe # NoExe => exe' # NoExe
      PROVE  Goal
  <2> DEFINE q == [session[s] EXCEPT !.pc = pc]
  <2>1. q \in SessionStates
    BY <1>1 DEF SessionStates
  <2>2. /\ q.pc = pc /\ q.found = session[s].found /\ q.iteration = session[s].iteration
        /\ q.next = session[s].next
    BY <1>1 DEF SessionStates
  <2>3. session' = [session EXCEPT ![s] = q]
    BY <1>4 DEF Goes
  <2> HIDE DEF q
  <2>4. MovesTo(q)
    BY <1>2, <1>4, <2>1, <2>2, <2>3
  <2> HIDE DEF MovesTo
  <2> QED  BY <1>3, <2>4, <2>1
<1>5. CASE Open(s)
  <2>1. PICK approve \in BOOLEAN :
           session' = [session EXCEPT ![s].pc      = IF seeds = {} THEN "refused" ELSE "check",
                                      ![s].approve = approve]
    BY <1>5 DEF Open
  <2> DEFINE pc == IF seeds = {} THEN "refused" ELSE "check"
             q == [session[s] EXCEPT !.pc = pc, !.approve = approve]
  <2>2. session' = [session EXCEPT ![s] = q]
    BY <2>1
  <2>3. pc \in {"refused", "check"} /\ session[s].pc = "idle" /\ UNCHANGED <<exe, crashDir, seeds>>
    BY <1>5 DEF Open
  <2> HIDE DEF pc
  <2>4. q \in SessionStates
    BY <1>1, <2>3 DEF SessionStates
  <2>5. /\ q.pc \in {"refused", "check"} /\ q.found = session[s].found
        /\ q.iteration = session[s].iteration /\ q.next = session[s].next
    BY <1>1, <2>3 DEF SessionStates
  <2>6. session[s].next = 1
    BY <1>1, <2>3 DEF Fits
  <2> HIDE DEF q
  <2>7. MovesTo(q)
    BY <1>1, <1>2, <2>2, <2>3, <2>4, <2>5, <2>6
  <2> HIDE DEF MovesTo
  <2> QED  BY <1>3, <2>7, <2>4
<1>6. CASE CheckExe(s)
  <2>1. PICK pc \in {"compile", "fuzz"} : Goes(s, pc)
    BY <1>6 DEF CheckExe
  <2>2. session[s].next = 1 /\ UNCHANGED <<exe, crashDir, seeds>>
    BY <1>1, <1>6 DEF CheckExe, Fits
  <2> QED  BY <1>1, <1>4, <2>1, <2>2
<1>7. CASE CompileExe(s)
  <2> DEFINE q == IF tree \in AsanBuilds
                  THEN [session[s] EXCEPT !.pc = "link", !.obj = tree]
                  ELSE [session[s] EXCEPT !.pc = "failed"]
  <2>1. session' = [session EXCEPT ![s] = q] /\ UNCHANGED <<exe, crashDir, seeds>>
    BY <1>7 DEF CompileExe
  <2>2. /\ q \in SessionStates
        /\ q.pc \in {"link", "failed"}
        /\ q.pc = "link" => q.obj \in Trees
        /\ q.found = session[s].found
        /\ q.iteration = session[s].iteration
        /\ q.next = session[s].next
    BY <1>1 DEF SessionStates
  <2>3. session[s].next = 1
    BY <1>1, <1>7 DEF CompileExe, Fits
  <2> HIDE DEF q
  <2>4. MovesTo(q)
    BY <1>1, <1>2, <2>1, <2>2, <2>3
  <2> HIDE DEF MovesTo
  <2> QED  BY <1>3, <2>4, <2>2
<1>8. CASE LinkStarts(s)
  <2>1. session[s].obj \in Trees /\ session[s].next = 1
    BY <1>1, <1>8 DEF LinkStarts, Fits
  <2>2. exe' = [whole |-> FALSE, of |-> session[s].obj, by |-> s]
    BY <1>8 DEF LinkStarts
  <2>3. exe' \in Exes
    BY <2>1, <2>2 DEF Exes
  <2>4. exe' # NoExe
    <3>1. "by" \in DOMAIN exe' /\ "by" \notin DOMAIN NoExe
      BY <2>2 DEF NoExe
    <3> QED  BY <3>1
  <2>5. Goes(s, "linking") /\ UNCHANGED <<crashDir, seeds>>
    BY <1>8 DEF LinkStarts
  <2> QED  BY <1>4, <2>1, <2>3, <2>4, <2>5
<1>9. CASE LinkEnds(s)
  <2>1. exe # NoExe /\ session[s].next = 1
    BY <1>1, <1>9 DEF LinkEnds, Fits
  <2>2. exe \in [whole : BOOLEAN, of : Trees, by : Sessions \cup {Nobody}]
    BY <1>1, <2>1 DEF Exes
  <2>3. exe' = [exe EXCEPT !.whole = TRUE] \/ exe' = exe
    BY <1>9 DEF LinkEnds
  <2>4. [exe EXCEPT !.whole = TRUE] \in Exes
    BY <2>2 DEF Exes
  <2>5. [exe EXCEPT !.whole = TRUE] # NoExe
    BY <2>2 DEF NoExe
  <2>6. Goes(s, "fuzz") /\ UNCHANGED <<crashDir, seeds>>
    BY <1>9 DEF LinkEnds
  <2> QED  BY <1>1, <1>4, <2>1, <2>3, <2>4, <2>5, <2>6
<1>10. CASE LinkCut(s)
  BY <1>1, <1>4, <1>10 DEF LinkCut
<1>11. CASE Survives(s)
  <2> DEFINE q == [session[s] EXCEPT !.iteration = session[s].iteration + 1]
  <2>1. /\ session' = [session EXCEPT ![s] = q] /\ UNCHANGED <<exe, crashDir, seeds>>
        /\ session[s].pc = "fuzz" /\ session[s].iteration < Iterations
    BY <1>11 DEF Survives, More
  <2>2. session[s].iteration + 1 \in 0 .. Iterations
    BY <1>2, <2>1
  <2>3. /\ q \in SessionStates
        /\ q.pc = "fuzz"
        /\ q.found = session[s].found
        /\ q.iteration = session[s].iteration + 1
        /\ q.next = session[s].next
    BY <1>1, <2>1, <2>2 DEF SessionStates
  <2>4. session[s].next = 1
    BY <1>1, <2>1 DEF Fits
  <2> HIDE DEF q
  <2>5. MovesTo(q)
    BY <1>1, <1>2, <2>1, <2>3, <2>4
  <2> HIDE DEF MovesTo
  <2> QED  BY <1>3, <2>5, <2>3
<1>12. CASE Crashes(s)
  <2>1. PICK kind \in Kinds :
           LET at == session[s].iteration + 1
           IN  /\ kind = "report" => exe.of.src \in Reporting[seeds]
               /\ session' = [session EXCEPT ![s].iteration = at,
                                             ![s].found = Append(session[s].found,
                                                                 [at   |-> at,
                                                                  kind |-> kind,
                                                                  src  |-> exe.of.src])]
               /\ crashDir' = [crashDir EXCEPT ![at] = s]
    BY <1>12 DEF Crashes
  <2>2. Hits(s, kind) /\ UNCHANGED <<exe, seeds>>
    BY <1>12, <2>1 DEF Crashes, Hits
  <2> DEFINE at == session[s].iteration + 1
             c == [at |-> at, kind |-> kind, src |-> exe.of.src]
  <2>3. at \in 1 .. Iterations
    BY <2>2, CrashFits
  <2>4. PICK q : /\ q = [session[s] EXCEPT !.iteration = at,
                                           !.found = Append(session[s].found, c)]
                 /\ Fits(q)'
    BY <2>2, CrashFits
  <2>5. session' = [session EXCEPT ![s] = q]
    BY <2>1, <2>4
  <2>6. crashDir' \in [1 .. Iterations -> Sessions \cup {Nobody}]
    BY <1>1, <2>1, <2>3
  <2> QED  BY <1>1, <2>2, <2>4, <2>5, <2>6 DEF Goal
<1>13. CASE ExecRaises(s)
  BY <1>1, <1>4, <1>13 DEF ExecRaises
<1>14. CASE Ends(s)
  <2>1. PICK pc \in {"done", "hand"} : Goes(s, pc) /\ (pc = "hand" => session[s].found # << >>)
    BY <1>14 DEF Ends
  <2>2. session[s].next = 1 /\ UNCHANGED <<exe, crashDir, seeds>>
    BY <1>1, <1>14 DEF Ends, Fits
  <2>3. session[s].found # << >> => session[s].next <= Len(session[s].found)
    <3>1. session[s].found \in Seq(Crash)
      BY <1>1, FoundIs
    <3> QED  BY <1>2, <2>2, <3>1, EmptySeq
  <2> QED  BY <1>1, <1>4, <2>1, <2>2, <2>3
<1>15. CASE HandOver(s)
  BY <1>1, <1>4, <1>15 DEF HandOver, Fits
<1>16. CASE Outcome(s)
  <2>1. /\ session[s].pc = "running" /\ session[s].next <= Len(session[s].found)
        /\ UNCHANGED <<exe, crashDir, seeds>>
    BY <1>1, <1>16 DEF Outcome, Fits
  <2>2. CASE Goes(s, "died") \/ Goes(s, "done")
    BY <1>1, <1>4, <2>1, <2>2
  <2>3. CASE /\ session[s].next # Len(session[s].found)
             /\ session' = [session EXCEPT ![s] = NextCrash(session[s])]
    <3> DEFINE q == [session[s] EXCEPT !.pc = "hand", !.next = session[s].next + 1]
    <3>1. session[s].next + 1 \in 1 .. Iterations + 1 /\ session[s].next + 1 <= Len(session[s].found)
      BY <1>2, <2>1, <2>3
    <3>2. /\ q \in SessionStates
          /\ q.pc = "hand"
          /\ q.found = session[s].found
          /\ q.iteration = session[s].iteration
          /\ q.next = session[s].next + 1
      BY <1>1, <3>1 DEF SessionStates
    <3>3. session' = [session EXCEPT ![s] = q]
      BY <2>3 DEF NextCrash
    <3> HIDE DEF q
    <3>4. MovesTo(q)
      BY <1>1, <1>2, <2>1, <3>1, <3>2, <3>3
    <3> HIDE DEF MovesTo
    <3> QED  BY <1>3, <3>4, <3>2
  <2>4. \/ session' = [session EXCEPT ![s] = [session[s] EXCEPT !.pc = "died"]]
        \/ session' = [session EXCEPT ![s] = [session[s] EXCEPT !.pc = "done"]]
        \/ /\ session[s].next # Len(session[s].found)
           /\ session' = [session EXCEPT ![s] = NextCrash(session[s])]
    <3>1. CASE run[Current(s)].pc = "died"
      BY <1>16, <3>1 DEF Outcome
    <3>2. CASE run[Current(s)].pc # "died" /\ session[s].next = Len(session[s].found)
      BY <1>16, <3>2 DEF Outcome
    <3>3. CASE run[Current(s)].pc # "died" /\ session[s].next # Len(session[s].found)
      <4> DEFINE v == IF run[Current(s)].pc = "died"
                  THEN [session[s] EXCEPT !.pc = "died"]
                  ELSE IF session[s].next = Len(session[s].found)
                  THEN [session[s] EXCEPT !.pc = "done"]
                  ELSE NextCrash(session[s])
      <4>1. v = NextCrash(session[s])
        BY <3>3
      <4>2. session' = [session EXCEPT ![s] = v]
        BY <1>16 DEF Outcome
      <4> HIDE DEF MovesTo, v
      <4> QED  BY <3>3, <4>1, <4>2
    <3> QED  BY <3>1, <3>2, <3>3
  <2> HIDE DEF MovesTo
  <2>5. ASSUME session' = [session EXCEPT ![s] = [session[s] EXCEPT !.pc = "died"]]
        PROVE  Goal
    BY <2>2, <2>5 DEF Goes
  <2>6. ASSUME session' = [session EXCEPT ![s] = [session[s] EXCEPT !.pc = "done"]]
        PROVE  Goal
    BY <2>2, <2>6 DEF Goes
  <2> QED  BY <2>3, <2>4, <2>5, <2>6
<1> QED
  BY <1>5, <1>6, <1>7, <1>8, <1>9, <1>10, <1>11, <1>12, <1>13, <1>14, <1>15, <1>16 DEF SessionStep

\* The other sessions go on to fit.
LEMMA SessionsFitStep ==
    ASSUME SessionsFit, tree \in Trees, FuzzingNext
    PROVE  SessionsFit'
<1>1. CASE UNCHANGED fuzzing
  BY <1>1 DEF fuzzing, SessionsFit, Fits
<1>2. CASE \E s \in Sessions : Open(s) \/ LinkCut(s) \/ SessionStep(s)
  <2>1. PICK s \in Sessions : Open(s) \/ LinkCut(s) \/ SessionStep(s)
    BY <1>2
  <2>2. PICK q : session' = [session EXCEPT ![s] = q] /\ Fits(q)'
    BY <2>1, SessionMoves
  <2>3. /\ exe' \in Exes
        /\ exe # NoExe => exe' # NoExe
        /\ crashDir' \in [1 .. Iterations -> Sessions \cup {Nobody}]
        /\ UNCHANGED seeds
    BY <2>1, SessionMoves
  <2>4. q \in SessionStates
    BY <2>2 DEF Fits
  <2>5. ASSUME NEW u \in Sessions
        PROVE  Fits(session[u])'
    <3>1. CASE u = s
      BY <2>2, <3>1 DEF SessionsFit
    <3>2. CASE u # s
      <4>1. session'[u] = session[u]
        BY <2>2, <3>2 DEF SessionsFit
      <4>2. PICK z : z = session[u]
        OBVIOUS
      <4>3. Fits(z)
        BY <4>2 DEF SessionsFit
      <4>4. Fits(z)'
        BY <2>3, <4>3 DEF Fits
      <4> QED  BY <4>1, <4>2, <4>4
    <3> QED  BY <3>1, <3>2
  <2>6. session' \in [Sessions -> SessionStates] /\ seeds' \in SeedDirs
    BY <2>2, <2>3, <2>4 DEF SessionsFit
  <2> QED  BY <2>3, <2>5, <2>6 DEF SessionsFit
<1> QED  BY <1>1, <1>2 DEF FuzzingNext, RunStep, RunFails

-----------------------------------------------------------------------------
(* The runs of a session.                                                  *)

\* The i-th run r of a session q: those before the next have returned, those
\* after it have not begun, and a run that has begun was called on a crash.
InOrder(q, i, r) ==
    /\ i < q.next => r.pc = "returned"
    /\ i > q.next => r.pc = "idle"
    /\ i = q.next =>
          /\ q.pc = "running" => r.pc # "idle"
          /\ q.pc = "done" => r.pc = IF q.found = << >> THEN "idle" ELSE "returned"
          /\ q.pc = "died" => r.pc \in {"idle", "died"}
          /\ q.pc \notin {"running", "done", "died"} => r.pc = "idle"
    /\ r.pc # "idle" => r.force = q.approve /\ r.finding.severity = "critical"

Counted(q) == q.pc = "done" => q.next = IF q.found = << >> THEN 1 ELSE Len(q.found)

CallsInOrder ==
    /\ \A s \in Sessions : Counted(session[s])
    /\ \A s \in Sessions, i \in 1 .. Iterations : InOrder(session[s], i, run[<<s, i>>])

\* At first no run has begun.
LEMMA CallsInOrderInit == FuzzingInit => CallsInOrder
<1> SUFFICES ASSUME FuzzingInit
             PROVE  CallsInOrder
  OBVIOUS
<1>1. ASSUME NEW s \in Sessions
      PROVE  session[s] = NoSession
  BY DEF FuzzingInit
<1>2. ASSUME NEW s \in Sessions, NEW i \in 1 .. Iterations
      PROVE  run[<<s, i>>] = Ready
  BY FuzzingAssumption DEF FuzzingInit, Init
<1>3. Counted(NoSession)
  BY DEF Counted, NoSession
<1>4. ASSUME NEW i \in 1 .. Iterations
      PROVE  InOrder(NoSession, i, Ready)
  <2>1. NoSession.next = 1 /\ NoSession.pc = "idle" /\ Ready.pc = "idle" /\ i >= 1
    BY DEF NoSession, Ready
  <2> QED  BY <2>1 DEF InOrder
<1> QED  BY <1>1, <1>2, <1>3, <1>4 DEF CallsInOrder

\* What a step of a session does to its runs' order, when it calls none.
LEMMA SessionKeepsOrder ==
    ASSUME SessionsFit, CallsInOrder, NEW s \in Sessions,
           Open(s) \/ LinkCut(s) \/ SessionStep(s),
           ~HandOver(s)
    PROVE  /\ UNCHANGED run
           /\ Counted(session'[s])
           /\ \A i \in 1 .. Iterations : InOrder(session'[s], i, run[<<s, i>>])
<1> DEFINE u == session[s]
           w == session'[s]
           Goal == /\ UNCHANGED run
                   /\ Counted(session'[s])
                   /\ \A i \in 1 .. Iterations : InOrder(session'[s], i, run[<<s, i>>])
<1>1. /\ session \in [Sessions -> SessionStates]
      /\ u \in SessionStates
      /\ u.next \in Nat /\ Len(u.found) \in Nat
      /\ Fits(u)
  BY FoundIs, FuzzingAssumption DEF SessionsFit, SessionStates
<1>2. ASSUME NEW i \in 1 .. Iterations
      PROVE  InOrder(u, i, run[<<s, i>>]) /\ i \in Nat /\ i >= 1
  BY DEF CallsInOrder
<1> SUFFICES Goal
  OBVIOUS
<1>3. ASSUME UNCHANGED run,
             w.next = u.next,
             u.pc \in {"check", "compile", "link", "linking", "fuzz"},
             w.approve = u.approve,
             w.pc \notin {"running", "done"}
      PROVE  Goal
  <2>1. ASSUME NEW i \in 1 .. Iterations
        PROVE  InOrder(w, i, run[<<s, i>>])
    BY <1>2, <1>3 DEF InOrder
  <2> QED  BY <1>3, <2>1 DEF Counted
<1> HIDE DEF Goal
<1>4. CASE Open(s)
  <2>1. /\ u.pc = "idle" /\ w.pc \in {"refused", "check"} /\ w.next = u.next /\ u.next = 1
        /\ UNCHANGED run
    <3>1. PICK pc \in {"refused", "check"} :
             \E approve : session' = [session EXCEPT ![s].pc = pc, ![s].approve = approve]
      <4>1. \E approve :
               session' = [session EXCEPT ![s].pc      = IF seeds = {} THEN "refused" ELSE "check",
                                          ![s].approve = approve]
        BY <1>4 DEF Open
      <4> DEFINE pc == IF seeds = {} THEN "refused" ELSE "check"
      <4>2. pc \in {"refused", "check"}
        OBVIOUS
      <4>3. \E approve : session' = [session EXCEPT ![s].pc = pc, ![s].approve = approve]
        BY <4>1
      <4> HIDE DEF pc
      <4> QED  BY <4>2, <4>3
    <3>2. PICK approve : w = [u EXCEPT !.pc = pc, !.approve = approve]
      BY <1>1, <3>1
    <3>3. w.pc = pc /\ w.next = u.next
      BY <1>1, <3>2 DEF SessionStates
    <3> QED  BY <1>1, <1>4, <3>1, <3>3 DEF Open, Fits, vars
  <2>2. ASSUME NEW i \in 1 .. Iterations
        PROVE  InOrder(w, i, run[<<s, i>>])
    <3>1. run[<<s, i>>].pc = "idle"
      BY <1>2, <2>1 DEF InOrder
    <3>2. ~(i < w.next)
      BY <1>2, <2>1
    <3> QED  BY <2>1, <3>1, <3>2 DEF InOrder
  <2> QED  BY <2>1, <2>2 DEF Counted, Goal
<1>5. CASE CheckExe(s) \/ LinkStarts(s) \/ LinkEnds(s) \/ LinkCut(s) \/ ExecRaises(s)
  <2>1. PICK pc \in {"compile", "fuzz", "linking", "cut", "died"} : Goes(s, pc)
    BY <1>5 DEF CheckExe, LinkStarts, LinkEnds, LinkCut, ExecRaises
  <2>2. w.pc = pc /\ w.next = u.next /\ w.approve = u.approve
    BY <1>1, <2>1 DEF Goes, SessionStates
  <2>3. u.pc \in {"check", "link", "linking", "fuzz"} /\ UNCHANGED run
    BY <1>5 DEF CheckExe, LinkStarts, LinkEnds, LinkCut, ExecRaises, More, vars
  <2> QED  BY <1>3, <2>1, <2>2, <2>3
<1>6. CASE CompileExe(s)
  <2>1. /\ u.pc = "compile" /\ w.pc \in {"link", "failed"} /\ w.next = u.next
        /\ w.approve = u.approve /\ UNCHANGED run
    BY <1>1, <1>6 DEF CompileExe, SessionStates, vars
  <2> QED  BY <1>3, <2>1
<1>7. CASE Survives(s) \/ Crashes(s)
  <2>1. /\ u.pc = "fuzz" /\ w.pc = "fuzz" /\ w.next = u.next
        /\ w.approve = u.approve /\ UNCHANGED run
    <3>1. u.pc = "fuzz" /\ UNCHANGED run
      BY <1>7 DEF Survives, Crashes, More, vars
    <3>2. PICK at, found : w = [u EXCEPT !.iteration = at, !.found = found]
      <4>1. CASE Survives(s)
        <5>1. w = [u EXCEPT !.iteration = u.iteration + 1]
          BY <1>1, <4>1 DEF Survives
        <5>2. w = [u EXCEPT !.iteration = u.iteration + 1, !.found = u.found]
          BY <1>1, <5>1 DEF SessionStates
        <5> QED  BY <5>2
      <4>2. CASE Crashes(s)
        <5>1. PICK at, found :
                 session' = [session EXCEPT ![s].iteration = at, ![s].found = found]
          BY <4>2 DEF Crashes
        <5>2. w = [u EXCEPT !.iteration = at, !.found = found]
          BY <1>1, <5>1
        <5> QED  BY <5>2
      <4> QED  BY <1>7, <4>1, <4>2
    <3>3. w.pc = u.pc /\ w.next = u.next /\ w.approve = u.approve
      BY <1>1, <3>2 DEF SessionStates
    <3> QED  BY <3>1, <3>3
  <2> QED  BY <1>3, <2>1
<1>8. CASE Ends(s)
  <2>1. /\ u.pc = "fuzz" /\ u.next = 1 /\ w.next = 1 /\ w.found = u.found
        /\ w.approve = u.approve /\ UNCHANGED run
        /\ w.pc = IF u.found = << >> THEN "done" ELSE "hand"
    BY <1>1, <1>8 DEF Ends, Goes, Fits, SessionStates, vars
  <2>2. ASSUME NEW i \in 1 .. Iterations
        PROVE  InOrder(w, i, run[<<s, i>>])
    BY <1>2, <2>1 DEF InOrder
  <2>3. Counted(w)
    BY <2>1 DEF Counted
  <2> QED  BY <2>1, <2>2, <2>3 DEF Goal
<1>9. CASE Outcome(s)
  <2> DEFINE r == run[<<s, u.next>>]
  <2>1. /\ u.pc = "running" /\ u.next <= Len(u.found) /\ r.pc \in {"returned", "died"}
        /\ UNCHANGED run
    BY <1>1, <1>9 DEF Outcome, Fits, Current, vars
  <2>2. u.found # << >>
    <3>1. u.next >= 1
      BY <1>1, FuzzingAssumption DEF SessionStates
    <3> QED  BY <1>1, <2>1, <3>1, EmptySeq
  <2>3. CASE r.pc = "died"
    <3>1. w.pc = "died" /\ w.next = u.next /\ w.approve = u.approve
      BY <1>1, <1>9, <2>3 DEF Outcome, Current, SessionStates
    <3>2. ASSUME NEW i \in 1 .. Iterations
          PROVE  InOrder(w, i, run[<<s, i>>])
      BY <1>1, <1>2, <2>3, <3>1 DEF InOrder
    <3> QED  BY <2>1, <3>1, <3>2 DEF Counted, Goal
  <2>4. CASE r.pc # "died" /\ u.next = Len(u.found)
    <3>1. w.pc = "done" /\ w.next = u.next /\ w.approve = u.approve /\ w.found = u.found
      BY <1>1, <1>9, <2>4 DEF Outcome, Current, SessionStates
    <3>2. ASSUME NEW i \in 1 .. Iterations
          PROVE  InOrder(w, i, run[<<s, i>>])
      BY <1>1, <1>2, <2>1, <2>2, <2>4, <3>1 DEF InOrder
    <3>3. Counted(w)
      BY <2>2, <2>4, <3>1 DEF Counted
    <3> QED  BY <2>1, <3>2, <3>3 DEF Goal
  <2>5. CASE r.pc # "died" /\ u.next # Len(u.found)
    <3>1. NextCrash(u).pc = "hand" /\ NextCrash(u).next = u.next + 1 /\ NextCrash(u).approve = u.approve
      BY <1>1 DEF NextCrash, SessionStates
    <3>2. w = NextCrash(u)
      BY <1>1, <1>9, <2>5 DEF Outcome, Current
    <3>3. w.pc = "hand" /\ w.next = u.next + 1 /\ w.approve = u.approve
      BY <3>1, <3>2
    <3>4. ASSUME NEW i \in 1 .. Iterations
          PROVE  InOrder(w, i, run[<<s, i>>])
      BY <1>1, <1>2, <2>1, <2>5, <3>3 DEF InOrder
    <3> QED  BY <2>1, <3>3, <3>4 DEF Counted, Goal
  <2> QED  BY <2>3, <2>4, <2>5
<1> QED  BY <1>4, <1>5, <1>6, <1>7, <1>8, <1>9 DEF SessionStep

\* What a session hands over: a crash is CRITICAL, and the run not begun.
LEMMA HandOverCalls ==
    ASSUME SessionsFit, NEW s \in Sessions, HandOver(s)
    PROVE  /\ Current(s) = <<s, session[s].next>>
           /\ session[s].next \in 1 .. Iterations
           /\ Current(s) \in Runs
           /\ \E f \in Findings : /\ f.severity = "critical"
                                  /\ Begin(Current(s), f, session[s].approve)
           /\ session[s].approve \in BOOLEAN
<1> DEFINE q == session[s]
           f == ToFinding(Parse(Stderr(q.found[q.next].kind)))
<1>1. q \in SessionStates /\ Fits(q)
  BY DEF SessionsFit
<1>2. q.next \in 1 .. Iterations /\ q.next \in DOMAIN q.found
  <2>1. q.pc = "hand" /\ q.next <= Len(q.found)
    BY <1>1 DEF HandOver, Fits
  <2>2. Len(q.found) \in 0 .. Iterations /\ DOMAIN q.found = 1 .. Len(q.found)
    BY <1>1, FoundIs
  <2>3. q.next \in Nat /\ q.next >= 1
    BY <1>1, FuzzingAssumption DEF SessionStates
  <2> QED  BY <2>1, <2>2, <2>3, FuzzingAssumption
<1>3. q.found[q.next] \in Crash
  BY <1>1, <1>2, FoundIs
<1>4. f \in Findings
  BY <1>3, CrashFindingsAssumption DEF Crash
<1>5. f.severity = "critical"
  BY DEF ToFinding
<1>6. Current(s) \in Runs
  BY <1>2, FuzzingAssumption DEF Current
<1>7. q.approve \in BOOLEAN
  BY <1>1 DEF SessionStates
<1>8. Begin(Current(s), f, q.approve)
  BY DEF HandOver
<1> HIDE DEF f
<1> QED  BY <1>2, <1>4, <1>5, <1>6, <1>7, <1>8 DEF Current

\* Whatever happens, the runs of every session stay in order.
LEMMA CallsInOrderStep ==
    ASSUME RunsHold, SessionsFit, CallsInOrder, FuzzingNext
    PROVE  CallsInOrder'
<1>1. ASSUME NEW r \in Runs, Step(r) \/ VerifyFails(r), UNCHANGED fuzzing
      PROVE  CallsInOrder'
  <2>1. /\ Active(r)
        /\ run'[r].pc # "idle"
        /\ run'[r].force = run[r].force
        /\ run'[r].finding = run[r].finding
        /\ \A z \in Runs \ {r} : run'[z] = run[z]
    BY <1>1, RunGoesOn
  <2>2. PICK u \in Sessions, k \in 1 .. Iterations : r = <<u, k>>
    BY FuzzingAssumption
  <2>3. ASSUME NEW s \in Sessions, NEW i \in 1 .. Iterations
        PROVE  InOrder(session[s], i, run'[<<s, i>>])
    <3>1. InOrder(session[s], i, run[<<s, i>>]) /\ <<s, i>> \in Runs
      BY FuzzingAssumption DEF CallsInOrder
    <3>2. CASE <<s, i>> # r
      BY <2>1, <3>1, <3>2
    <3>3. CASE <<s, i>> = r
      <4>1. run[<<s, i>>].pc \notin {"idle", "returned", "died"}
        BY <2>1, <3>3 DEF Active
      <4>2. /\ ~(i < session[s].next)
            /\ ~(i > session[s].next)
            /\ i = session[s].next => session[s].pc = "running"
        BY <3>1, <4>1 DEF InOrder
      <4>3. run'[<<s, i>>].force = session[s].approve
            /\ run'[<<s, i>>].finding.severity = "critical"
        BY <2>1, <3>1, <3>3, <4>1 DEF InOrder
      <4> QED  BY <2>1, <3>3, <4>2, <4>3 DEF InOrder
    <3> QED  BY <3>2, <3>3
  <2> QED  BY <1>1, <2>3 DEF CallsInOrder, fuzzing
<1>2. ASSUME NEW s \in Sessions, Open(s) \/ LinkCut(s) \/ SessionStep(s)
      PROVE  CallsInOrder'
  <2>1. session \in [Sessions -> SessionStates] /\ session[s] \in SessionStates
    BY DEF SessionsFit
  <2>2. \A u \in Sessions \ {s} : session'[u] = session[u]
    <3>1. PICK q : session' = [session EXCEPT ![s] = q]
      <4>1. tree \in Trees
        BY DEF RunsHold, OrchestratorTypeOK
      <4> QED  BY <1>2, <4>1, SessionMoves
    <3> QED  BY <2>1, <3>1
  <2>3. CASE ~HandOver(s)
    <3>1. /\ UNCHANGED run
          /\ Counted(session'[s])
          /\ \A i \in 1 .. Iterations : InOrder(session'[s], i, run[<<s, i>>])
      BY <1>2, <2>3, SessionKeepsOrder
    <3>2. ASSUME NEW u \in Sessions
          PROVE  /\ Counted(session'[u])
                 /\ \A i \in 1 .. Iterations : InOrder(session'[u], i, run'[<<u, i>>])
      BY <2>2, <3>1 DEF CallsInOrder
    <3> QED  BY <3>2 DEF CallsInOrder
  <2>4. CASE HandOver(s)
    <3> DEFINE q == session[s]
               w == session'[s]
    <3>1. PICK f \in Findings : f.severity = "critical" /\ Begin(Current(s), f, q.approve)
      BY <2>4, HandOverCalls
    <3>2. Current(s) = <<s, q.next>> /\ Current(s) \in Runs /\ q.next \in 1 .. Iterations
      BY <2>4, HandOverCalls
    <3>3. w.pc = "running" /\ w.next = q.next /\ w.approve = q.approve /\ w.found = q.found
      BY <2>1, <2>4 DEF HandOver, Goes, SessionStates
    <3>4. /\ \A z \in Runs \ {Current(s)} : run'[z] = run[z]
          /\ run'[Current(s)].pc = "synthesize"
          /\ run'[Current(s)].force = q.approve
          /\ run'[Current(s)].finding = f
      <4>1. run \in [Runs -> RunStates]
        BY DEF RunsHold, OrchestratorTypeOK
      <4> QED  BY <3>1, <3>2, <4>1 DEF Begin, RunStates
    <3>5. ASSUME NEW i \in 1 .. Iterations
          PROVE  InOrder(w, i, run'[<<s, i>>])
      <4>1. InOrder(q, i, run[<<s, i>>]) /\ <<s, i>> \in Runs
        BY FuzzingAssumption DEF CallsInOrder
      <4>2. CASE i = q.next
        BY <3>1, <3>2, <3>3, <3>4, <4>2 DEF InOrder
      <4>3. CASE i # q.next
        <5>1. run'[<<s, i>>] = run[<<s, i>>]
          BY <3>2, <3>4, <4>1, <4>3
        <5> QED  BY <3>3, <4>1, <4>3, <5>1 DEF InOrder
      <4> QED  BY <4>2, <4>3
    <3>6. ASSUME NEW u \in Sessions \ {s}
          PROVE  /\ Counted(session'[u])
                 /\ \A i \in 1 .. Iterations : InOrder(session'[u], i, run'[<<u, i>>])
      <4>1. ASSUME NEW i \in 1 .. Iterations
            PROVE  run'[<<u, i>>] = run[<<u, i>>]
        BY <3>2, <3>4, FuzzingAssumption
      <4> QED  BY <2>2, <4>1 DEF CallsInOrder
    <3>7. Counted(w)
      BY <3>3 DEF Counted
    <3>8. ASSUME NEW u \in Sessions
          PROVE  /\ Counted(session'[u])
                 /\ \A i \in 1 .. Iterations : InOrder(session'[u], i, run'[<<u, i>>])
      BY <3>5, <3>6, <3>7
    <3> QED  BY <3>8 DEF CallsInOrder
  <2> QED  BY <2>3, <2>4
<1> QED  BY <1>1, <1>2 DEF FuzzingNext, RunStep, RunFails

-----------------------------------------------------------------------------
(* What sessions share.                                                    *)

\* A binary that is not whole is the work of a session that still links it, or
\* was cut short.
ExeExplained ==
    exe # NoExe /\ ~exe.whole =>
        exe.by \in Sessions /\ session[exe.by].pc \in {"linking", "cut"}

\* Only a link, its end and its cut bear on that.
LEMMA ExeExplainedStep ==
    ASSUME SessionsFit, ExeExplained, FuzzingNext
    PROVE  ExeExplained'
<1>1. session \in [Sessions -> SessionStates]
  BY DEF SessionsFit
<1>2. ASSUME UNCHANGED <<exe, session>>
      PROVE  ExeExplained'
  BY <1>2 DEF ExeExplained, NoExe
<1>3. ASSUME NEW s \in Sessions, UNCHANGED exe,
             session[s].pc \notin {"linking", "cut"},
             \A u \in Sessions \ {s} : session'[u] = session[u]
      PROVE  ExeExplained'
  BY <1>3 DEF ExeExplained, NoExe
<1>4. ASSUME NEW s \in Sessions, LinkStarts(s)
      PROVE  ExeExplained'
  <2>1. exe' = [whole |-> FALSE, of |-> session[s].obj, by |-> s] /\ session'[s].pc = "linking"
    BY <1>1, <1>4 DEF LinkStarts, Goes, SessionStates
  <2> QED  BY <2>1 DEF ExeExplained
<1>5. ASSUME NEW s \in Sessions, LinkEnds(s)
      PROVE  ExeExplained'
  <2>1. /\ exe # NoExe
        /\ exe \in [whole : BOOLEAN, of : Trees, by : Sessions \cup {Nobody}]
    BY <1>5 DEF SessionsFit, Fits, LinkEnds, Exes
  <2>2. \A u \in Sessions \ {s} : session'[u] = session[u]
    BY <1>1, <1>5 DEF LinkEnds, Goes
  <2>3. CASE exe.by = s
    <3>1. exe'.whole
      BY <1>5, <2>1, <2>3 DEF LinkEnds
    <3> QED  BY <3>1 DEF ExeExplained
  <2>4. CASE exe.by # s
    <3>1. exe' = exe
      BY <1>5, <2>4 DEF LinkEnds
    <3> QED  BY <2>1, <2>2, <2>4, <3>1 DEF ExeExplained
  <2> QED  BY <2>3, <2>4
<1>6. ASSUME NEW s \in Sessions, LinkCut(s)
      PROVE  ExeExplained'
  <2>1. /\ \A u \in Sessions \ {s} : session'[u] = session[u]
        /\ session'[s].pc = "cut"
        /\ exe' = exe
    BY <1>1, <1>6 DEF LinkCut, Goes, SessionStates
  <2> QED  BY <2>1 DEF ExeExplained, NoExe
<1>7. ASSUME NEW s \in Sessions, Open(s) \/ SessionStep(s), ~LinkStarts(s), ~LinkEnds(s)
      PROVE  ExeExplained'
  <2>1. session[s].pc \notin {"linking", "cut"} /\ UNCHANGED exe
    BY <1>7
       DEF Open, SessionStep, CheckExe, CompileExe, Survives, Crashes, ExecRaises, More, Ends,
           HandOver, Outcome
  <2>2. \A u \in Sessions \ {s} : session'[u] = session[u]
    BY <1>1, <1>7
       DEF Open, SessionStep, CheckExe, CompileExe, Survives, Crashes, ExecRaises, Ends,
           HandOver, Outcome, Goes
  <2> QED  BY <1>3, <2>1, <2>2
<1> QED
  BY <1>2, <1>4, <1>5, <1>6, <1>7 DEF FuzzingNext, SessionStep, RunStep, RunFails, fuzzing

\* A crash of a session overwrites the file of none of its own, and is the one
\* to which another session loses its input.
LEMMA InputsStep ==
    ASSUME SessionsFit, tree \in Trees, InputsLostOnlyToOthers, FuzzingNext
    PROVE  InputsLostOnlyToOthers'
<1>1. session \in [Sessions -> SessionStates]
  BY DEF SessionsFit
<1>2. SessionsFit'
  BY SessionsFitStep
<1>3. ASSUME \A u \in Sessions : session'[u].found = session[u].found, UNCHANGED crashDir
      PROVE  InputsLostOnlyToOthers'
  <2>1. \A u \in Sessions : Found(u)' = Found(u)
    BY <1>3 DEF Found
  <2> QED  BY <1>3, <2>1 DEF InputsLostOnlyToOthers
<1>4. ASSUME NEW s \in Sessions, Crashes(s)
      PROVE  InputsLostOnlyToOthers'
  <2> DEFINE at == session[s].iteration + 1
  <2>1. PICK c \in Crash :
           /\ c.at = at
           /\ at \in 1 .. Iterations
           /\ session' = [session EXCEPT ![s].iteration = at,
                                         ![s].found = Append(session[s].found, c)]
           /\ crashDir' = [crashDir EXCEPT ![at] = s]
    <3>1. PICK kind \in Kinds :
             LET c == [at |-> at, kind |-> kind, src |-> exe.of.src]
             IN  /\ kind = "report" => exe.of.src \in Reporting[seeds]
                 /\ session' = [session EXCEPT ![s].iteration = at,
                                               ![s].found = Append(session[s].found, c)]
                 /\ crashDir' = [crashDir EXCEPT ![at] = s]
      BY <1>4 DEF Crashes
    <3> DEFINE c == [at |-> at, kind |-> kind, src |-> exe.of.src]
    <3>2. Hits(s, kind) /\ UNCHANGED <<exe, seeds>>
      BY <1>4, <3>1 DEF Crashes, Hits
    <3>3. at \in 1 .. Iterations
      BY <3>2, CrashFits
    <3>4. exe.of.src \in Sources
      BY <3>2 DEF Hits, SessionsFit, Exes, NoExe, Trees
    <3>5. c \in Crash /\ c.at = at
      BY <3>3, <3>4 DEF Crash
    <3>6. /\ session' = [session EXCEPT ![s].iteration = at, ![s].found = Append(session[s].found, c)]
          /\ crashDir' = [crashDir EXCEPT ![at] = s]
      BY <3>1
    <3> HIDE DEF c, at
    <3> QED  BY <3>3, <3>5, <3>6
  <2> HIDE DEF at
  <2>2. /\ session[s].found \in Seq(Crash)
        /\ Len(session[s].found) \in Nat
        /\ DOMAIN session[s].found = 1 .. Len(session[s].found)
    BY <1>1, FoundIs
  <2>3. session'[s].found = Append(session[s].found, c)
    <3>1. session[s] \in SessionStates
      BY <1>1
    <3>2. session'[s] = [session[s] EXCEPT !.iteration = at, !.found = Append(session[s].found, c)]
      BY <1>1, <2>1
    <3> QED  BY <3>1, <3>2 DEF SessionStates
  <2>4. /\ Len(session'[s].found) = Len(session[s].found) + 1
        /\ \A i \in DOMAIN session[s].found : session'[s].found[i] = session[s].found[i]
        /\ session'[s].found[Len(session[s].found) + 1] = c
        /\ DOMAIN session'[s].found = 1 .. Len(session[s].found) + 1
    <3> DEFINE old == session[s].found
               new == Append(old, c)
    <3>1. session'[s].found = new /\ old \in Seq(Crash) /\ Len(old) \in Nat
      BY <2>2, <2>3
    <3> HIDE DEF old
    <3>2. /\ Len(new) = Len(old) + 1
          /\ \A i \in 1 .. Len(old) : new[i] = old[i]
          /\ new[Len(old) + 1] = c
          /\ DOMAIN new = 1 .. Len(new)
      BY <2>1, <3>1, AppendProperties
    <3> HIDE DEF new
    <3>3. /\ \A i \in DOMAIN old : new[i] = old[i]
          /\ DOMAIN new = 1 .. Len(old) + 1
      BY <2>2, <3>1, <3>2 DEF old
    <3> QED  BY <3>1, <3>2, <3>3 DEF old
  <2>5. \A u \in Sessions \ {s} : session'[u] = session[u]
    BY <1>1, <2>1
  <2>6. /\ crashDir'[at] = s
        /\ \A k \in 1 .. Iterations \ {at} : crashDir'[k] = crashDir[k]
    BY <2>1 DEF SessionsFit
  <2> DEFINE last == Len(session[s].found) + 1
  <2>7. last \in DOMAIN session'[s].found /\ session'[s].found[last].at = at
    <3>1. last \in DOMAIN session'[s].found
      BY <2>2, <2>4
    <3>2. session'[s].found[last] = c
      BY <2>4
    <3> HIDE DEF last
    <3> QED  BY <2>1, <3>1, <3>2
  <2>8. ASSUME NEW u \in Sessions, NEW i \in DOMAIN session[u].found
        PROVE  /\ i \in DOMAIN session'[u].found
               /\ session'[u].found[i] = session[u].found[i]
    BY <2>2, <2>4, <2>5
  <2>9. ASSUME NEW u \in Sessions, NEW i \in DOMAIN session'[u].found
        PROVE  LET k == session'[u].found[i].at
               IN  /\ \A j \in DOMAIN session'[u].found \ {i} : session'[u].found[j].at # k
                   /\ \/ crashDir'[k] = u
                      \/ \E v \in Sessions \ {u} :
                            \E j \in DOMAIN session'[v].found : session'[v].found[j].at = k
    <3> DEFINE k == session'[u].found[i].at
    <3>1. \A j \in DOMAIN session'[u].found \ {i} : session'[u].found[j].at # k
      <4>1. Fits(session[u])'
        BY <1>2 DEF SessionsFit
      <4> QED  BY <4>1 DEF Fits
    <3>2. CASE u = s /\ i = last
      <4>1. crashDir'[k] = u
        BY <2>6, <2>7, <3>2
      <4> QED  BY <3>1, <4>1
    <3>3. CASE ~(u = s /\ i = last)
      <4>1. i \in DOMAIN session[u].found /\ k = session[u].found[i].at
        <5>1. CASE u # s
          BY <2>5, <5>1
        <5>2. CASE u = s
          <6>1. i \in 1 .. last /\ i # last
            BY <2>4, <3>3, <5>2
          <6>2. i \in DOMAIN session[s].found
            BY <2>2, <6>1
          <6> QED  BY <2>4, <5>2, <6>2
        <5> QED  BY <5>1, <5>2
      <4>2. \/ crashDir[k] = u
            \/ \E v \in Sessions \ {u} : \E j \in DOMAIN session[v].found : session[v].found[j].at = k
        BY <4>1 DEF InputsLostOnlyToOthers, Found
      <4>3. CASE \E v \in Sessions \ {u} :
                    \E j \in DOMAIN session[v].found : session[v].found[j].at = k
        BY <2>8, <3>1, <4>3
      <4>4. CASE crashDir[k] = u /\ k # at
        <5>1. k \in 1 .. Iterations
          BY <1>1, <4>1, FoundIs DEF Crash
        <5>2. crashDir'[k] = u
          BY <2>6, <4>4, <5>1
        <5> QED  BY <3>1, <5>2
      <4>5. CASE crashDir[k] = u /\ k = at /\ u # s
        <5>1. \E j \in DOMAIN session'[s].found : session'[s].found[j].at = k
          BY <2>7, <4>5
        <5> QED  BY <3>1, <4>5, <5>1
      <4>6. CASE k = at /\ u = s
        <5>1. i # last /\ last \in DOMAIN session'[u].found
          BY <2>7, <3>3, <4>6
        <5>2. session'[u].found[last].at = k
          BY <2>7, <4>6
        <5> QED  BY <3>1, <5>1, <5>2
      <4> QED  BY <4>2, <4>3, <4>4, <4>5, <4>6
    <3> QED  BY <3>2, <3>3
  <2> QED  BY <2>9 DEF InputsLostOnlyToOthers, Found
<1>5. ASSUME NEW s \in Sessions, Open(s) \/ LinkCut(s) \/ SessionStep(s), ~Crashes(s)
      PROVE  InputsLostOnlyToOthers'
  <2>1. PICK q : session' = [session EXCEPT ![s] = q]
    BY <1>5, SessionMoves
  <2>2. UNCHANGED crashDir
    BY <1>5
       DEF Open, LinkCut, SessionStep, CheckExe, CompileExe, LinkStarts, LinkEnds, Survives,
           ExecRaises, Ends, HandOver, Outcome
  <2>3. q.found = session[s].found
    <3> DEFINE u == session[s]
    <3>1. u \in SessionStates /\ session'[s] = q
      BY <1>1, <2>1
    <3>2. CASE Open(s) \/ Survives(s)
      <4> DEFINE pc == IF seeds = {} THEN "refused" ELSE "check"
      <4>1. CASE Open(s)
        <5>1. PICK approve : session' = [session EXCEPT ![s].pc = pc, ![s].approve = approve]
          BY <4>1 DEF Open
        <5> HIDE DEF pc
        <5>2. q = [u EXCEPT !.pc = pc, !.approve = approve]
          BY <1>1, <3>1, <5>1
        <5> QED  BY <3>1, <5>2 DEF SessionStates
      <4>2. CASE Survives(s)
        <5>1. q = [u EXCEPT !.iteration = u.iteration + 1]
          BY <1>1, <3>1, <4>2 DEF Survives
        <5> QED  BY <3>1, <5>1 DEF SessionStates
      <4> QED  BY <3>2, <4>1, <4>2
    <3>3. CASE CompileExe(s)
      BY <1>1, <3>1, <3>3 DEF CompileExe, SessionStates
    <3>4. CASE Outcome(s)
      <4>1. \/ q = [u EXCEPT !.pc = "died"] \/ q = [u EXCEPT !.pc = "done"] \/ q = NextCrash(u)
        BY <1>1, <3>1, <3>4 DEF Outcome
      <4> QED  BY <3>1, <4>1 DEF NextCrash, SessionStates
    <3>5. CASE \E pc : Goes(s, pc)
      BY <1>1, <3>1, <3>5 DEF Goes, SessionStates
    <3> QED
      BY <1>5, <3>2, <3>3, <3>4, <3>5
         DEF LinkCut, SessionStep, CheckExe, LinkStarts, LinkEnds, ExecRaises, Ends, HandOver
  <2>4. \A u \in Sessions : session'[u].found = session[u].found
    BY <1>1, <2>1, <2>3
  <2> QED  BY <1>3, <2>2, <2>4
<1>6. ASSUME UNCHANGED fuzzing
      PROVE  InputsLostOnlyToOthers'
  BY <1>3, <1>6 DEF fuzzing
<1> QED
  BY <1>4, <1>5, <1>6 DEF FuzzingNext, RunStep, RunFails

-----------------------------------------------------------------------------
(* The theorems.                                                           *)

\* What every session keeps, whatever the others do.
FuzzingInv ==
    /\ RunsHold
    /\ Reviewed
    /\ SessionsFit
    /\ CallsInOrder
    /\ ExeExplained
    /\ InputsLostOnlyToOthers

\* At first there is nothing to explain, and no input to lose.
LEMMA FuzzingInvInit == FuzzingInit => FuzzingInv
<1> SUFFICES ASSUME FuzzingInit
             PROVE  FuzzingInv
  OBVIOUS
<1>1. RunsHold /\ Reviewed
  BY RunsHoldInit, ReviewedInit DEF FuzzingInit
<1>2. ExeExplained
  BY DEF FuzzingInit, ExeExplained, NoExe
<1>3. \A s \in Sessions : DOMAIN Found(s) = {}
  BY DEF FuzzingInit, NoSession, Found
<1>4. InputsLostOnlyToOthers
  BY <1>3 DEF InputsLostOnlyToOthers
<1> QED  BY <1>1, <1>2, <1>4, SessionsFitInit, CallsInOrderInit DEF FuzzingInv

\* What a step of a session, or of one of its runs, is to the runs.
LEMMA FuzzingStepOf ==
    ASSUME SessionsFit, FuzzingNext
    PROVE  \/ UNCHANGED vars
           \/ \E r \in Runs : StepOf(r)
<1>1. ASSUME NEW r \in Runs, Step(r) \/ VerifyFails(r)
      PROVE  StepOf(r)
  BY <1>1 DEF StepOf, Fault
<1>2. ASSUME NEW s \in Sessions, HandOver(s)
      PROVE  \E r \in Runs : StepOf(r)
  BY <1>2, HandOverCalls DEF StepOf
<1>3. ASSUME NEW s \in Sessions, Open(s) \/ LinkCut(s) \/ SessionStep(s), ~HandOver(s)
      PROVE  UNCHANGED vars
  BY <1>3
     DEF Open, LinkCut, SessionStep, CheckExe, CompileExe, LinkStarts, LinkEnds, Survives, Crashes,
         ExecRaises, Ends, Outcome
<1> QED  BY <1>1, <1>2, <1>3 DEF FuzzingNext, RunStep, RunFails

\* The invariant of all that follows.
LEMMA FuzzingInvariant == FuzzingSpec => []FuzzingInv
<1>1. FuzzingInv /\ [FuzzingNext]_fuzzVars => FuzzingInv'
  <2> SUFFICES ASSUME FuzzingInv, [FuzzingNext]_fuzzVars
               PROVE  FuzzingInv'
    OBVIOUS
  <2>1. CASE UNCHANGED fuzzVars
    <3>1. RunsHold' /\ Reviewed'
      BY <2>1, Stutter DEF FuzzingInv, fuzzVars
    <3>2. SessionsFit'
      BY <2>1 DEF FuzzingInv, fuzzVars, fuzzing, SessionsFit, Fits
    <3>3. CallsInOrder'
      BY <2>1 DEF FuzzingInv, fuzzVars, vars, fuzzing, CallsInOrder
    <3>4. ExeExplained'
      BY <2>1 DEF FuzzingInv, fuzzVars, fuzzing, ExeExplained, NoExe
    <3>5. InputsLostOnlyToOthers'
      BY <2>1 DEF FuzzingInv, fuzzVars, fuzzing, InputsLostOnlyToOthers, Found
    <3> QED  BY <3>1, <3>2, <3>3, <3>4, <3>5 DEF FuzzingInv
  <2>2. CASE FuzzingNext
    <3>1. RunsHold' /\ Reviewed'
      BY <2>2, FuzzingStepOf, RunsHoldStep, ReviewedStep, Stutter DEF FuzzingInv
    <3>2. tree \in Trees
      BY DEF FuzzingInv, RunsHold, OrchestratorTypeOK
    <3> QED
      BY <2>2, <3>1, <3>2, SessionsFitStep, CallsInOrderStep, ExeExplainedStep, InputsStep
         DEF FuzzingInv
  <2> QED  BY <2>1, <2>2
<1> QED  BY <1>1, FuzzingInvInit, PTL DEF FuzzingSpec

\* The types hold however many sessions overlap.
THEOREM FuzzingTypeCorrect == FuzzingSpec => []FuzzingTypeOK
<1>1. FuzzingInv => FuzzingTypeOK
  BY DEF FuzzingInv, RunsHold, SessionsFit, FuzzingTypeOK
<1> QED  BY <1>1, FuzzingInvariant, PTL

\* A session overwrites none of its own crash files.
THEOREM InputsAreKept == FuzzingSpec => []InputsLostOnlyToOthers
<1>1. FuzzingInv => InputsLostOnlyToOthers
  BY DEF FuzzingInv
<1> QED  BY <1>1, FuzzingInvariant, PTL

\* An unusable binary is being linked, or its link was cut short.
THEOREM ExeIsExplained == FuzzingSpec => []UnusableExeIsExplained
<1>1. FuzzingInv => UnusableExeIsExplained
  BY DEF FuzzingInv, ExeExplained, UnusableExeIsExplained
<1> QED  BY <1>1, FuzzingInvariant, PTL

\* Whatever the seeds and the sizes of the target's buffer, ASan reports a crash
\* only if some seed is long enough.
THEOREM ReportsAreEarned == FuzzingSpec => []ReportsNeedLongSeeds
<1>1. FuzzingInv => ReportsNeedLongSeeds
  BY DEF FuzzingInv, SessionsFit, Fits, ReportsNeedLongSeeds, Found
<1> QED  BY <1>1, FuzzingInvariant, PTL

\* Each crash of a session is handed to one run, in order.
THEOREM CrashesAreHandled == FuzzingSpec => []EveryCrashHasItsOutcome
<1>1. FuzzingInv => EveryCrashHasItsOutcome
  <2> SUFFICES ASSUME FuzzingInv, NEW s \in Sessions, NEW i \in 1 .. Iterations
               PROVE  /\ session[s].pc = "done" =>
                            (run[<<s, i>>].pc = "returned" <=> i \in DOMAIN Found(s))
                      /\ run[<<s, i>>].pc # "idle" =>
                            \A j \in 1 .. i - 1 : run[<<s, j>>].pc = "returned"
    BY DEF EveryCrashHasItsOutcome
  <2> DEFINE q == session[s]
             n == q.next
  <2>1. /\ q \in SessionStates
        /\ n \in Nat /\ n >= 1
        /\ Len(q.found) \in Nat
        /\ DOMAIN q.found = 1 .. Len(q.found)
        /\ i \in Nat /\ i >= 1
    BY FoundIs, FuzzingAssumption DEF FuzzingInv, SessionsFit, SessionStates
  <2>2. /\ Counted(q)
        /\ \A j \in 1 .. Iterations : InOrder(q, j, run[<<s, j>>])
    BY DEF FuzzingInv, CallsInOrder
  <2>3. ASSUME run[<<s, i>>].pc # "idle", NEW j \in 1 .. i - 1
        PROVE  run[<<s, j>>].pc = "returned"
    <3>1. ~(i > n)
      BY <2>2, <2>3 DEF InOrder
    <3>2. j \in 1 .. Iterations /\ j < n
      BY <2>1, <3>1, FuzzingAssumption
    <3> QED  BY <2>2, <3>2 DEF InOrder
  <2>4. ASSUME q.pc = "done"
        PROVE  run[<<s, i>>].pc = "returned" <=> i \in DOMAIN q.found
    <3>1. CASE q.found = << >>
      <4>1. n = 1 /\ DOMAIN q.found = {}
        BY <2>2, <2>4, <3>1 DEF Counted
      <4>2. run[<<s, i>>].pc = "idle"
        BY <2>1, <2>2, <2>4, <3>1, <4>1 DEF InOrder
      <4> QED  BY <4>1, <4>2
    <3>2. CASE q.found # << >>
      <4>1. n = Len(q.found)
        BY <2>2, <2>4, <3>2 DEF Counted
      <4>2. CASE i > n
        BY <2>1, <2>2, <4>1, <4>2 DEF InOrder
      <4>3. CASE i <= n
        <5>1. run[<<s, i>>].pc = "returned"
          BY <2>1, <2>2, <2>4, <3>2, <4>3 DEF InOrder
        <5> QED  BY <2>1, <4>1, <4>3, <5>1
      <4> QED  BY <2>1, <4>2, <4>3
    <3> QED  BY <3>1, <3>2
  <2> QED  BY <2>3, <2>4 DEF Found
<1> QED  BY <1>1, FuzzingInvariant, PTL

\* The source and its header change only at the hands of a session that was
\* started with approve=true, at the run it has reached.
THEOREM PatchesAreApproved == FuzzingSpec => OnlyApprovedSessionsPatch
<1> DEFINE Allowed == tree' # tree =>
                        \E s \in Sessions :
                            session[s].approve /\ run'[Current(s)] # run[Current(s)]
<1>1. FuzzingInv /\ [FuzzingNext]_fuzzVars => [Allowed]_fuzzVars
  <2> SUFFICES ASSUME FuzzingInv, FuzzingNext, tree' # tree
               PROVE  \E s \in Sessions :
                          session[s].approve /\ run'[Current(s)] # run[Current(s)]
    OBVIOUS
  <2>1. PICK r \in Runs : StepOf(r)
    BY FuzzingStepOf DEF FuzzingInv, vars
  <2>2. run[r].pc \in Applied /\ run'[r] # run[r]
    BY <2>1, FilesChange DEF FuzzingInv
  <2>3. PICK s \in Sessions, i \in 1 .. Iterations : r = <<s, i>>
    BY FuzzingAssumption
  <2>4. InOrder(session[s], i, run[r])
    BY <2>3 DEF FuzzingInv, CallsInOrder
  <2>5. run[r].pc \notin {"idle", "returned"}
    BY <2>2 DEF Applied
  <2>6. session[s].next \in Nat /\ i \in Nat
    BY FuzzingAssumption DEF FuzzingInv, SessionsFit, SessionStates
  <2>7. i = session[s].next
    BY <2>4, <2>5, <2>6 DEF InOrder
  <2>8. run[r].force = session[s].approve /\ run[r].finding.severity = "critical"
    BY <2>4, <2>5 DEF InOrder
  <2>9. run[r].force
    BY <2>2, <2>8 DEF FuzzingInv, Reviewed, RequiresReview
  <2> QED  BY <2>2, <2>3, <2>7, <2>8, <2>9 DEF Current
<1> QED  BY <1>1, FuzzingInvariant, PTL DEF FuzzingSpec, OnlyApprovedSessionsPatch

-----------------------------------------------------------------------------
(* Reports lead to a patch.                                                *)

\* A source with the check is not reported, whatever the input.
LEMMA CheckedIsQuiet ==
    ASSUME NEW f \in Frames, NEW g \in Mutations(f)
    PROVE  ~Reported(TRUE, g)
<1>1. /\ g.size \in Nat
      /\ g.head \in Seq(Byte)
      /\ Len(g.head) = IF g.size < 2 THEN g.size ELSE 2
  BY MutationsAreFrames, FrameIs
<1>2. BufSize \in Nat /\ StructSize \in Nat /\ BufSize <= StructSize
  BY PacketAssumption
<1>3. CASE g.size < 2
  BY <1>2, <1>3 DEF Reported, Copied
<1>4. CASE ~(g.size < 2)
  <2>1. Declared(g) \in Nat
    <3>1. Len(g.head) = 2
      BY <1>1, <1>4
    <3>2. g.head[1] \in Byte /\ g.head[2] \in Byte
      BY <1>1, <3>1, ElementOfSeq
    <3> DEFINE a == g.head[1]
               b == g.head[2]
    <3>3. a \in 0 .. 255 /\ b \in 0 .. 255
      BY <3>2 DEF Byte
    <3> HIDE DEF a, b
    <3>4. a + 256 * b \in Nat
      BY <3>3
    <3> QED  BY <3>4 DEF Declared, a, b
  <2> QED  BY <1>2, <2>1 DEF Reported, Copied
<1> QED  BY <1>3, <1>4

\* The session that finds a report runs the binary of a source that lacks the
\* check, and for which there is a patch.
LEMMA HitHasPatch ==
    ASSUME SessionsFit, exe # NoExe => exe.of \in AsanBuilds,
           NEW s \in Sessions, Hits(s, "report")
    PROVE  NoPatch \notin Suggest[exe.of.src]
<1>1. exe # NoExe
  BY DEF Hits, NoExe
<1>2. seeds \in SeedDirs /\ seeds \subseteq Frames
  BY FuzzingAssumption DEF SessionsFit
<1>3. PICK g \in Candidates[seeds] : Reported(exe.of.src \in Checked, g)
  BY <1>2 DEF Hits, Reporting
<1>4. PICK f \in seeds : g \in Mutations(f)
  BY <1>2, <1>3 DEF Candidates
<1>5. exe.of.src \notin Checked
  <2> SUFFICES ASSUME exe.of.src \in Checked
               PROVE  FALSE
    OBVIOUS
  <2>1. Reported(TRUE, g)
    BY <1>3 DEF Reported, Copied
  <2> QED  BY <1>2, <1>4, <2>1, CheckedIsQuiet
<1> QED  BY <1>1, <1>5, HeuristicAssumption

\* What a report's run is called with asks for the patch of CWE-119.
LEMMA ReportIsPatchable == ToFinding(Parse(Stderr("report"))).patchable
<1>1. Parse(Stderr("report")).crash_type = "stack-buffer-overflow"
  BY DEF Parse, Stderr
<1>2. Cwe("stack-buffer-overflow") = "CWE-119"
  BY DEF Cwe
<1> QED  BY <1>1, <1>2, HeuristicAssumption DEF ToFinding

\* A reported crash can be traced to a source that has a patch, its run to the
\* finding made of it, and a run is abandoned only by its return.
Traced ==
    /\ \A s \in Sessions : session[s].pc = "link" => session[s].obj \in AsanBuilds
    /\ exe # NoExe => exe.of \in AsanBuilds
    /\ \A s \in Sessions : \A i \in DOMAIN Found(s) :
          /\ Found(s)[i].kind = "report" => NoPatch \notin Suggest[Found(s)[i].src]
          /\ run[<<s, i>>].pc # "idle" =>
                run[<<s, i>>].finding = ToFinding(Parse(Stderr(Found(s)[i].kind)))
    /\ \A r \in Runs : run[r].state = "abandoned" => run[r].pc = "returned"

\* At first nobody has found anything.
LEMMA TracedInit == FuzzingInit => Traced
<1> SUFFICES ASSUME FuzzingInit
             PROVE  Traced
  OBVIOUS
<1>1. \A s \in Sessions : session[s].pc = "idle" /\ DOMAIN Found(s) = {}
  BY DEF FuzzingInit, NoSession, Found
<1>2. \A r \in Runs : run[r].state = "triaged"
  BY DEF FuzzingInit, Init, Ready
<1>3. exe # NoExe => exe.of \in AsanBuilds
  BY DEF FuzzingInit
<1> QED  BY <1>1, <1>2, <1>3 DEF Traced

\* A step of a run abandons it only where it returns.
LEMMA AbandonedReturns ==
    ASSUME RunsHold, NEW r \in Runs, Step(r) \/ VerifyFails(r),
           run[r].state = "abandoned" => run[r].pc = "returned",
           run'[r].state = "abandoned"
    PROVE  run'[r].pc = "returned"
<1>1. run[r] \in RunStates /\ run \in [Runs -> RunStates] /\ Active(r)
  BY RunGoesOn DEF RunsHold, OrchestratorTypeOK
<1>2. run[r].state # "abandoned"
  BY <1>1 DEF Active
<1>3. ASSUME NEW q, run' = [run EXCEPT ![r] = q],
             q.state = "abandoned" => q.pc = "returned"
      PROVE  run'[r].pc = "returned"
  BY <1>1, <1>3
<1> USE <1>1, <1>2 DEF RunStates
<1>4. CASE Synthesize(r)
  <2>1. PICK p :
           LET read == [run[r] EXCEPT !.base = tree.src, !.patch = p]
           IN  \/ run' = [run EXCEPT ![r] = [read EXCEPT !.pc = "returned", !.state = "abandoned"]]
               \/ run' = [run EXCEPT ![r] = [read EXCEPT !.pc = "recording", !.state = "pending_review"]]
               \/ run' = [run EXCEPT ![r] = [read EXCEPT !.pc = "backup"]]
    BY <1>4 DEF Synthesize
  <2> DEFINE read == [run[r] EXCEPT !.base = tree.src, !.patch = p]
             q1 == [read EXCEPT !.pc = "returned", !.state = "abandoned"]
             q2 == [read EXCEPT !.pc = "recording", !.state = "pending_review"]
             q3 == [read EXCEPT !.pc = "backup"]
  <2>2. q1.pc = "returned" /\ q2.state # "abandoned" /\ q3.state # "abandoned"
    OBVIOUS
  <2>3. \E q \in {q1, q2, q3} : run' = [run EXCEPT ![r] = q]
    BY <2>1
  <2> HIDE DEF q1, q2, q3
  <2> QED  BY <1>3, <2>2, <2>3
<1>5. CASE Backup(r) \/ Write(r) \/ PatchHeader(r) \/ ApplyRaises(r) \/ Verify(r) \/ VerifyFails(r)
  BY <1>5 DEF Backup, Write, PatchHeader, ApplyRaises, Gone, Verify, VerifyFails
<1>6. CASE Verdict(r) \/ RollBack(r)
  BY <1>6 DEF Verdict, RollBack
<1>7. CASE Certify(r) \/ RollBackHeader(r)
  <2>1. PICK state \in {"certified", "rejected"} :
           run' = [run EXCEPT ![r].pc = "recording", ![r].state = state]
    BY <1>7 DEF Certify, RollBackHeader
  <2> DEFINE q == [run[r] EXCEPT !.pc = "recording", !.state = state]
  <2>2. q.state # "abandoned" /\ run' = [run EXCEPT ![r] = q]
    BY <2>1
  <2> HIDE DEF q
  <2> QED  BY <1>3, <2>2
<1>8. CASE Record(r)
  BY <1>8 DEF Record
<1>9. CASE Recorded(r)
  <2>1. NextAttempt(run[r]).state # "abandoned" /\ Finished(run[r]).pc = "returned"
    BY DEF NextAttempt, Finished
  <2>2. \/ run' = [run EXCEPT ![r] = NextAttempt(run[r])]
        \/ run' = [run EXCEPT ![r] = Finished(run[r])]
    BY <1>9 DEF Recorded
  <2> QED  BY <1>3, <2>1, <2>2
<1> QED  BY <1>4, <1>5, <1>6, <1>7, <1>8, <1>9 DEF Step

\* A step of a run keeps the trace.
LEMMA TracedRunStep ==
    ASSUME RunsHold, SessionsFit, Traced, NEW r \in Runs, Step(r) \/ VerifyFails(r),
           UNCHANGED fuzzing
    PROVE  Traced'
<1>1. /\ Active(r)
      /\ run'[r].finding = run[r].finding
      /\ \A z \in Runs \ {r} : run'[z] = run[z]
  BY RunGoesOn
<1>2. \A z \in Runs : run'[z].state = "abandoned" => run'[z].pc = "returned"
  BY <1>1, AbandonedReturns DEF Traced
<1>3. UNCHANGED <<session, exe>> /\ \A s \in Sessions : Found(s)' = Found(s)
  BY DEF fuzzing, Found
<1>4. ASSUME NEW s \in Sessions, NEW i \in DOMAIN Found(s), run'[<<s, i>>].pc # "idle"
      PROVE  run'[<<s, i>>].finding = ToFinding(Parse(Stderr(Found(s)[i].kind)))
  <2>1. <<s, i>> \in Runs
    <3>1. i \in 1 .. Iterations
      BY <1>4, FoundIs, FuzzingAssumption DEF Found, SessionsFit
    <3> QED  BY <3>1, FuzzingAssumption
  <2>2. CASE <<s, i>> = r
    BY <1>1, <2>2 DEF Traced, Active
  <2>3. CASE <<s, i>> # r
    BY <1>1, <1>4, <2>1, <2>3 DEF Traced
  <2> QED  BY <2>2, <2>3
<1> QED  BY <1>2, <1>3, <1>4 DEF Traced

\* So does a step of a session.
LEMMA TracedSessionStep ==
    ASSUME RunsHold, SessionsFit, CallsInOrder, Traced, NEW s \in Sessions,
           Open(s) \/ LinkCut(s) \/ SessionStep(s)
    PROVE  Traced'
<1> DEFINE u == session[s]
           w == session'[s]
<1>1. /\ session \in [Sessions -> SessionStates]
      /\ u \in SessionStates
      /\ tree \in Trees
      /\ run \in [Runs -> RunStates]
  BY DEF SessionsFit, RunsHold, OrchestratorTypeOK
<1>2. \A z \in Sessions \ {s} : session'[z] = session[z]
  <2>1. PICK q : session' = [session EXCEPT ![s] = q]
    BY <1>1, SessionMoves
  <2> QED  BY <1>1, <2>1
<1>3. \A z \in Sessions : Found(z)' = session'[z].found
  BY DEF Found
<1>4. ASSUME UNCHANGED run,
             w.found = u.found,
             w.pc = "link" => w.obj \in AsanBuilds,
             exe' # NoExe => exe'.of \in AsanBuilds
      PROVE  Traced'
  <2>1. \A z \in Sessions : Found(z)' = Found(z)
    BY <1>2, <1>4 DEF Found
  <2>2. \A z \in Sessions : session'[z].pc = "link" => session'[z].obj \in AsanBuilds
    BY <1>2, <1>4 DEF Traced
  <2> QED  BY <1>4, <2>1, <2>2 DEF Traced
<1>5. CASE Open(s) \/ CheckExe(s) \/ LinkCut(s) \/ Survives(s) \/ ExecRaises(s) \/ Ends(s) \/ Outcome(s)
  <2>1. UNCHANGED <<vars, exe>>
    BY <1>5 DEF Open, CheckExe, LinkCut, Survives, ExecRaises, Ends, Outcome
  <2>2. w.found = u.found /\ w.pc # "link"
    <3>1. CASE Open(s)
      <4> DEFINE pc == IF seeds = {} THEN "refused" ELSE "check"
      <4>1. PICK approve : session' = [session EXCEPT ![s].pc = pc, ![s].approve = approve]
        BY <3>1 DEF Open
      <4>2. pc # "link"
        OBVIOUS
      <4> HIDE DEF pc
      <4> QED  BY <1>1, <4>1, <4>2 DEF SessionStates
    <3>2. CASE CheckExe(s) \/ LinkCut(s) \/ ExecRaises(s) \/ Ends(s)
      BY <1>1, <3>2 DEF CheckExe, LinkCut, ExecRaises, Ends, Goes, SessionStates
    <3>3. CASE Survives(s)
      BY <1>1, <3>3 DEF Survives, More, SessionStates
    <3>4. CASE Outcome(s)
      BY <1>1, <3>4 DEF Outcome, NextCrash, SessionStates
    <3> QED  BY <1>5, <3>1, <3>2, <3>3, <3>4
  <2>3. exe' # NoExe => exe'.of \in AsanBuilds
    BY <2>1 DEF Traced
  <2> QED  BY <1>4, <2>1, <2>2, <2>3 DEF vars
<1>6. CASE CompileExe(s)
  <2>1. UNCHANGED <<vars, exe>>
    BY <1>6 DEF CompileExe
  <2>2. w.found = u.found /\ (w.pc = "link" => w.obj \in AsanBuilds)
    BY <1>1, <1>6 DEF CompileExe, SessionStates
  <2>3. exe' # NoExe => exe'.of \in AsanBuilds
    BY <2>1 DEF Traced
  <2> QED  BY <1>4, <2>1, <2>2, <2>3 DEF vars
<1>7. CASE LinkStarts(s)
  <2>1. UNCHANGED vars /\ exe'.of = u.obj /\ u.obj \in AsanBuilds
    BY <1>7 DEF LinkStarts, Traced
  <2>2. w.found = u.found /\ w.pc # "link"
    BY <1>1, <1>7 DEF LinkStarts, Goes, SessionStates
  <2> QED  BY <1>4, <2>1, <2>2 DEF vars
<1>8. CASE LinkEnds(s)
  <2>1. /\ UNCHANGED vars
        /\ exe # NoExe
        /\ exe \in [whole : BOOLEAN, of : Trees, by : Sessions \cup {Nobody}]
    BY <1>8 DEF LinkEnds, SessionsFit, Fits, Exes
  <2>2. exe'.of = exe.of /\ exe.of \in AsanBuilds
    BY <1>8, <2>1 DEF LinkEnds, Traced
  <2>3. w.found = u.found /\ w.pc # "link"
    BY <1>1, <1>8 DEF LinkEnds, Goes, SessionStates
  <2> QED  BY <1>4, <2>1, <2>2, <2>3 DEF vars
<1>9. CASE Crashes(s)
  <2>1. PICK kind \in Kinds :
           /\ Hits(s, kind)
           /\ session' = [session EXCEPT ![s].iteration = u.iteration + 1,
                                         ![s].found = Append(u.found, [at   |-> u.iteration + 1,
                                                                       kind |-> kind,
                                                                       src  |-> exe.of.src])]
    BY <1>9 DEF Crashes, Hits
  <2> DEFINE c == [at |-> u.iteration + 1, kind |-> kind, src |-> exe.of.src]
             n == Len(u.found)
  <2>2. u.found \in Seq(Crash) /\ DOMAIN u.found = 1 .. n /\ n \in Nat
    BY <1>1, FoundIs, FuzzingAssumption
  <2>3. /\ UNCHANGED <<vars, exe>>
        /\ u.pc = "fuzz" /\ u.next = 1
    BY <1>9 DEF Crashes, More, SessionsFit, Fits
  <2>4. w.found = Append(u.found, c) /\ w.pc = "fuzz"
    BY <1>1, <2>1, <2>3 DEF SessionStates
  <2>5. c \in Crash
    <3>1. LET at == u.iteration + 1 IN at \in 1 .. Iterations
      BY <1>9, <2>1, CrashFits DEF Crashes
    <3>2. exe.of.src \in Sources
      BY <2>1 DEF Hits, SessionsFit, Exes, NoExe, Trees
    <3> QED  BY <3>1, <3>2 DEF Crash
  <2>6. c.kind = "report" => NoPatch \notin Suggest[c.src]
    BY <2>1, HitHasPatch DEF Traced
  <2> HIDE DEF c
  <2>7. /\ DOMAIN w.found = 1 .. n + 1
        /\ \A i \in 1 .. n : w.found[i] = u.found[i]
        /\ w.found[n + 1] = c
    BY <2>2, <2>4, <2>5, AppendProperties
  <2>8. \A i \in 1 .. Iterations : run[<<s, i>>].pc = "idle"
    BY <2>3 DEF CallsInOrder, InOrder
  <2>9. ASSUME NEW i \in DOMAIN w.found
        PROVE  /\ w.found[i].kind = "report" => NoPatch \notin Suggest[w.found[i].src]
               /\ run[<<s, i>>].pc = "idle"
    <3>1. i \in 1 .. Iterations
      <4>1. SessionsFit' /\ w \in SessionStates
        <5>1. FuzzingNext
          BY DEF FuzzingNext
        <5> QED  BY <1>1, <5>1, SessionsFitStep DEF SessionsFit
      <4> QED  BY <2>9, <4>1, FoundIs, FuzzingAssumption
    <3>2. CASE i \in 1 .. n
      BY <2>2, <2>7, <2>8, <3>1, <3>2 DEF Traced, Found
    <3>3. CASE i = n + 1
      BY <2>6, <2>7, <2>8, <3>1, <3>3
    <3> QED  BY <2>2, <2>7, <2>9, <3>2, <3>3
  <2>10. ASSUME NEW z \in Sessions, NEW i \in DOMAIN session'[z].found
         PROVE  /\ session'[z].found[i].kind = "report" =>
                      NoPatch \notin Suggest[session'[z].found[i].src]
                /\ run'[<<z, i>>].pc # "idle" =>
                      run'[<<z, i>>].finding = ToFinding(Parse(Stderr(session'[z].found[i].kind)))
    <3>1. CASE z = s
      BY <2>3, <2>9, <2>10, <3>1 DEF vars
    <3>2. CASE z # s
      BY <1>2, <2>3, <2>10, <3>2 DEF vars, Traced, Found
    <3> QED  BY <3>1, <3>2
  <2>11. \A z \in Sessions : session'[z].pc = "link" => session'[z].obj \in AsanBuilds
    BY <1>2, <2>4 DEF Traced
  <2>12. /\ exe' # NoExe => exe'.of \in AsanBuilds
         /\ \A r \in Runs : run'[r].state = "abandoned" => run'[r].pc = "returned"
    BY <2>3 DEF Traced, vars
  <2> QED  BY <1>3, <2>10, <2>11, <2>12 DEF Traced
<1>10. CASE HandOver(s)
  <2> DEFINE r == <<s, u.next>>
             f == ToFinding(Parse(Stderr(u.found[u.next].kind)))
  <2>1. r \in Runs /\ UNCHANGED exe /\ run[r].pc = "idle"
    BY <1>10, HandOverCalls DEF HandOver, Begin, Current
  <2>2. /\ run'[r].finding = f
        /\ run'[r].state = run[r].state
        /\ \A z \in Runs \ {r} : run'[z] = run[z]
    BY <1>1, <1>10, <2>1 DEF HandOver, Begin, Current, RunStates
  <2>3. w.found = u.found /\ w.pc # "link"
    BY <1>1, <1>10 DEF HandOver, Goes, SessionStates
  <2>4. \A z \in Sessions : /\ Found(z)' = Found(z)
                            /\ session'[z].pc = "link" => session'[z].obj \in AsanBuilds
    BY <1>2, <2>3 DEF Found, Traced
  <2>5. ASSUME NEW z \in Sessions, NEW i \in DOMAIN Found(z), run'[<<z, i>>].pc # "idle"
        PROVE  run'[<<z, i>>].finding = ToFinding(Parse(Stderr(Found(z)[i].kind)))
    <3>1. <<z, i>> \in Runs
      <4>1. i \in 1 .. Iterations
        BY <2>5, FoundIs, FuzzingAssumption DEF Found, SessionsFit
      <4> QED  BY <4>1, FuzzingAssumption
    <3>2. CASE <<z, i>> = r
      <4>1. z = s /\ i = u.next
        BY <3>2
      <4> HIDE DEF u
      <4> QED  BY <2>2, <4>1 DEF Found, u
    <3>3. CASE <<z, i>> # r
      BY <2>2, <2>5, <3>1, <3>3 DEF Traced
    <3> QED  BY <3>2, <3>3
  <2>6. \A z \in Runs : run'[z].state = "abandoned" => run'[z].pc = "returned"
    BY <2>1, <2>2 DEF Traced
  <2> QED  BY <2>1, <2>4, <2>5, <2>6 DEF Traced
<1> QED  BY <1>5, <1>6, <1>7, <1>8, <1>9, <1>10 DEF SessionStep

\* A run that is abandoned has asked for a patch of the source as it is: a
\* report whose own source it is would have got one.
LEMMA DroppedIsStale ==
    ASSUME RunsHold, SessionsFit, Traced, FuzzingNext,
           NEW s \in Sessions, NEW i \in DOMAIN Found(s),
           run[<<s, i>>].pc = "synthesize", run'[<<s, i>>].state = "abandoned"
    PROVE  Found(s)[i].kind = "signal" \/ Found(s)[i].src # tree.src
<1> DEFINE r == <<s, i>>
           crash == Found(s)[i]
<1>1. /\ run \in [Runs -> RunStates]
      /\ r \in Runs
      /\ crash \in Crash
  <2>1. i \in 1 .. Iterations /\ crash \in Crash
    BY FoundIs, FuzzingAssumption DEF Found, SessionsFit
  <2> QED  BY <2>1, FuzzingAssumption DEF RunsHold, OrchestratorTypeOK
<1>2. run[r].state # "abandoned" /\ run'[r] # run[r]
  BY <1>1 DEF Traced
<1>3. Synthesize(r)
  <2>1. PICK z \in Runs : Step(z) \/ VerifyFails(z) \/ (run[z].pc = "idle" /\ \E q : run' = [run EXCEPT ![z] = q])
    <3>1. ASSUME NEW t \in Sessions, HandOver(t)
          PROVE  Current(t) \in Runs /\ run[Current(t)].pc = "idle"
                 /\ \E q : run' = [run EXCEPT ![Current(t)] = q]
      BY <3>1, HandOverCalls DEF Begin
    <3>2. ASSUME NEW t \in Sessions, Open(t) \/ LinkCut(t) \/ SessionStep(t)
          PROVE  HandOver(t)
      BY <1>2, <3>2
         DEF Open, LinkCut, SessionStep, CheckExe, CompileExe, LinkStarts, LinkEnds, Survives,
             Crashes, ExecRaises, Ends, Outcome, vars
    <3> QED  BY <3>1, <3>2 DEF FuzzingNext, RunStep, RunFails
  <2>2. CASE z # r
    <3>1. run'[r] = run[r]
      BY <1>1, <2>1, <2>2, RunGoesOn
    <3> QED  BY <1>2, <3>1
  <2>3. CASE z = r
    <3>1. Step(r) \/ VerifyFails(r)
      BY <2>1, <2>3
    <3> QED
      BY <3>1
         DEF Step, VerifyFails, Backup, Write, ApplyRaises, PatchHeader, Verify, Verdict, Certify,
             RollBack, RollBackHeader, Record, Recorded
  <2> QED  BY <2>2, <2>3
<1>4. NoPatch \in Patches(run[r].finding)
  <2>1. PICK p \in Patches(run[r].finding) :
           LET read == [run[r] EXCEPT !.base = tree.src, !.patch = p]
           IN  \/ p = NoPatch
               \/ run' = [run EXCEPT ![r] = [read EXCEPT !.pc = "recording", !.state = "pending_review"]]
               \/ run' = [run EXCEPT ![r] = [read EXCEPT !.pc = "backup"]]
    BY <1>3 DEF Synthesize
  <2> DEFINE read == [run[r] EXCEPT !.base = tree.src, !.patch = p]
             q2 == [read EXCEPT !.pc = "recording", !.state = "pending_review"]
             q3 == [read EXCEPT !.pc = "backup"]
  <2>2. q2.state # "abandoned" /\ q3.state # "abandoned"
    BY <1>1, <1>2 DEF RunStates
  <2>3. p = NoPatch \/ \E q \in {q2, q3} : run' = [run EXCEPT ![r] = q]
    BY <2>1
  <2> HIDE DEF q2, q3
  <2>4. p = NoPatch
    BY <1>1, <2>2, <2>3
  <2> QED  BY <2>4
<1>5. CASE crash.kind = "report"
  <2>1. run[r].finding.patchable
    BY <1>5, ReportIsPatchable DEF Traced
  <2>2. NoPatch \in Suggest[tree.src]
    BY <1>4, <2>1 DEF Patches
  <2>3. NoPatch \notin Suggest[crash.src]
    BY <1>5 DEF Traced
  <2> QED  BY <2>2, <2>3
<1> QED  BY <1>1, <1>5 DEF Crash, Kinds

\* Whatever sessions and runs overlap: a reported crash ends without a patch and
\* without review only where the source is no longer the one it was found in.
THEOREM ReportsGetPatches == FuzzingSpec => ReportsAreDroppedOnlyIfStale
<1> DEFINE Explained ==
             \A s \in Sessions : \A i \in DOMAIN Found(s) :
                 run'[<<s, i>>].state = "abandoned" /\ run[<<s, i>>].pc = "synthesize" =>
                     Found(s)[i].kind = "signal" \/ Found(s)[i].src # tree.src
<1>1. FuzzingInv /\ Traced /\ [FuzzingNext]_fuzzVars => Traced'
  <2> SUFFICES ASSUME FuzzingInv, Traced, [FuzzingNext]_fuzzVars
               PROVE  Traced'
    OBVIOUS
  <2>1. CASE UNCHANGED fuzzVars
    BY <2>1 DEF fuzzVars, vars, fuzzing, Traced, Found
  <2>2. CASE FuzzingNext
    BY <2>2, TracedRunStep, TracedSessionStep DEF FuzzingInv, FuzzingNext, RunStep, RunFails
  <2> QED  BY <2>1, <2>2
<1>2. FuzzingInv /\ Traced /\ [FuzzingNext]_fuzzVars => [Explained]_fuzzVars
  BY DroppedIsStale DEF FuzzingInv
<1> QED  BY <1>1, <1>2, FuzzingInvariant, TracedInit, PTL DEF FuzzingSpec, ReportsAreDroppedOnlyIfStale

-----------------------------------------------------------------------------
(* The ledger.                                                             *)

\* A step of a run leaves the ledger's rows, or adds one of its own.
LEMMA OwnRowOrNone ==
    ASSUME LogInv, NEW r \in Runs, StepOf(r)
    PROVE  \/ rows' = rows
           \/ /\ run[r].pc = "recording"
              /\ \E row : row.payload.run = r /\ rows' = Append(rows, row)
<1>1. Tells(rows, r, run[r], call[r]) /\ RunsHold
  BY DEF LogInv
<1>2. LedgerMoves(r)
  BY <1>1, LedgerMovesStep DEF Tells
<1>3. rows' = rows \/ L!Insert(r)
  BY <1>2 DEF LedgerMoves, ledger, L!Call, L!Select, L!Raise
<1>4. CASE L!Insert(r)
  <2>1. /\ call[r].pc = "insert"
        /\ rows' = Append(rows, L!NewRow(call[r]))
    BY <1>4 DEF L!Insert
  <2>2. L!NewRow(call[r]).payload.run = r /\ run[r].pc = "recording"
    BY <1>1, <2>1 DEF Tells, L!NewRow
  <2> QED  BY <2>1, <2>2
<1> QED  BY <1>3, <1>4

\* A run with a row has begun.
LEMMA LoggedHasBegun ==
    ASSUME LogInv, NEW k \in DOMAIN rows, rows[k].payload.run \in Runs
    PROVE  run[rows[k].payload.run].pc # "idle"
<1> DEFINE r == rows[k].payload.run
           none == Attempts(0, "rejected")
<1>1. DOMAIN none = {}
  BY DEF Attempts
<1> HIDE DEF none
<1>2. ~LoggedIn(rows, r, none)
  BY <1>1 DEF LoggedIn
<1>3. Tells(rows, r, run[r], call[r])
  BY DEF LogInv
<1> QED  BY <1>2, <1>3 DEF Tells, none

\* A session that records is at the last of the crashes it has recorded.
LEMMA LoggedInOrderStep ==
    ASSUME FuzzingInv, LogInv, CrashesAreLoggedInOrder, NEW r \in Runs, StepOf(r)
    PROVE  CrashesAreLoggedInOrder'
<1>1. rows \in Seq(L!Rows) /\ DOMAIN rows = 1 .. Len(rows) /\ Len(rows) \in Nat
  BY LedgerRows DEF LogInv, RunsHold, OrchestratorTypeOK, L!TypeOK
<1>2. CASE rows' = rows
  BY <1>2 DEF CrashesAreLoggedInOrder
<1>3. ASSUME NEW row, row.payload.run = r, rows' = Append(rows, row), run[r].pc = "recording"
      PROVE  CrashesAreLoggedInOrder'
  <2>1. PICK s \in Sessions, i \in 1 .. Iterations : r = <<s, i>>
    BY FuzzingAssumption
  <2>2. i = session[s].next /\ i \in Nat
    <3>1. InOrder(session[s], i, run[r])
      BY <2>1 DEF FuzzingInv, CallsInOrder
    <3>2. session[s].next \in Nat /\ i \in Nat
      BY FuzzingAssumption DEF FuzzingInv, SessionsFit, SessionStates
    <3> QED  BY <1>3, <3>1, <3>2 DEF InOrder
  <2>3. ASSUME NEW k \in DOMAIN rows, rows[k].payload.run[1] = s
        PROVE  rows[k].payload.run[2] <= i
    <3>1. rows[k].payload.run \in Runs
      <4>1. rows[k] \in L!Rows
        BY LedgerRows DEF LogInv, RunsHold, OrchestratorTypeOK
      <4> QED  BY <4>1 DEF L!Rows, Records
    <3>2. PICK j \in 1 .. Iterations : rows[k].payload.run = <<s, j>>
      BY <2>3, <3>1, FuzzingAssumption
    <3>3. run[<<s, j>>].pc # "idle"
      BY <3>1, <3>2, LoggedHasBegun
    <3>4. InOrder(session[s], j, run[<<s, j>>])
      BY DEF FuzzingInv, CallsInOrder
    <3>5. j \in Nat /\ ~(j > i)
      BY <2>2, <3>3, <3>4, FuzzingAssumption DEF InOrder
    <3> QED  BY <2>2, <3>2, <3>5
  <2>4. /\ DOMAIN rows' = 1 .. Len(rows) + 1
        /\ \A k \in DOMAIN rows : rows'[k] = rows[k]
        /\ rows'[Len(rows) + 1] = row
    <3> DEFINE V0 == L!Rows \cup {row}
    <3>1. rows \in Seq(V0) /\ row \in V0
      BY <1>1, SeqMonotonic
    <3> HIDE DEF V0
    <3> QED  BY <1>1, <1>3, <3>1, AppendProperties
  <2> SUFFICES ASSUME NEW u \in Sessions, NEW k \in DOMAIN rows', NEW l \in DOMAIN rows',
                      rows'[k].payload.run[1] = u, rows'[l].payload.run[1] = u, k < l
               PROVE  rows'[k].payload.run[2] <= rows'[l].payload.run[2]
    BY DEF CrashesAreLoggedInOrder
  <2>5. k \in DOMAIN rows
    BY <1>1, <2>4
  <2>6. CASE l \in DOMAIN rows
    BY <2>4, <2>5, <2>6 DEF CrashesAreLoggedInOrder
  <2>7. CASE l = Len(rows) + 1
    <3>1. rows'[l].payload.run[2] = i /\ u = s
      BY <1>3, <2>1, <2>4, <2>7
    <3> QED  BY <2>3, <2>4, <2>5, <3>1
  <2> QED  BY <1>1, <2>4, <2>6, <2>7
<1> QED  BY <1>2, <1>3, OwnRowOrNone

\* What the ledger tells of each run holds for those of fuzzing sessions too:
\* their steps are runs that overlap and verifications that fail.
LEMMA FuzzingLog == FuzzingSpec => []LogInv
<1>1. LogInv /\ FuzzingInv /\ [FuzzingNext]_fuzzVars => LogInv'
  <2>1. ASSUME UNCHANGED fuzzVars
        PROVE  UNCHANGED vars
    BY <2>1 DEF fuzzVars
  <2> QED  BY <2>1, FuzzingStepOf, LogStep, LogStutter DEF FuzzingInv
<1>2. FuzzingInit => LogInv
  BY LogInit DEF FuzzingInit
<1> QED  BY <1>1, <1>2, FuzzingInvariant, PTL DEF FuzzingSpec

\* However many sessions overlap: a crash that has been dealt with has left one
\* row for each decision about it, and no other.
THEOREM SessionsLogDecisions == FuzzingSpec => []EveryDecisionIsLogged
  BY FuzzingLog, LogHolds, PTL

\* The rows of a session stand in the order of its crashes, whatever rows of
\* other sessions stand between.
THEOREM CrashesLogInOrder == FuzzingSpec => []CrashesAreLoggedInOrder
<1>1. FuzzingInit => CrashesAreLoggedInOrder
  <2>1. FuzzingInit => DOMAIN rows = {}
    BY DEF FuzzingInit, Init, L!Init
  <2> QED  BY <2>1 DEF CrashesAreLoggedInOrder
<1>2. /\ FuzzingInv /\ LogInv /\ CrashesAreLoggedInOrder
      /\ [FuzzingNext]_fuzzVars
      => CrashesAreLoggedInOrder'
  <2> SUFFICES ASSUME FuzzingInv, LogInv, CrashesAreLoggedInOrder, [FuzzingNext]_fuzzVars
               PROVE  CrashesAreLoggedInOrder'
    OBVIOUS
  <2>1. CASE UNCHANGED vars
    BY <2>1 DEF vars, ledger, CrashesAreLoggedInOrder
  <2>2. CASE \E r \in Runs : StepOf(r)
    BY <2>2, LoggedInOrderStep
  <2> QED  BY <2>1, <2>2, FuzzingStepOf DEF FuzzingInv, fuzzVars
<1> QED  BY <1>1, <1>2, FuzzingInvariant, FuzzingLog, PTL DEF FuzzingSpec
=============================================================================
