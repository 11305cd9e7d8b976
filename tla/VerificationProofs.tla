-------------------------- MODULE VerificationProofs --------------------------
(***************************************************************************)
(* What TLC shows of Verification on two verifiers and six trees, proved   *)
(* for any number of verifiers and anything gcc and the harness can make   *)
(* of a source.                                                            *)
(***************************************************************************)
EXTENDS Verification, TLAPS

-----------------------------------------------------------------------------
(* A verifier, and what it may claim of the tree.                          *)

\* The tree passes the exploit replay, or cannot be built for it.
Replayed(t) == t \in AsanBuilds => t \in AsanClean

\* Its regression tests can pass.
Regressed(t) == TRUE \in PlainExits[t]

\* It builds and is clean both ways.
Sound(t) == t \in AsanBuilds \cap PlainBuilds \cap AsanClean /\ PlainExits[t] = {TRUE}

Built(k, t) == [flavor |-> Flavor(k), tree |-> t]

\* What a set of trees offers: one that passes the replay, nothing that is not
\* sound.
SomeReplayed(d) == \E t \in d : Replayed(t)
AllSound(d) == \A t \in d : Sound(t)

\* b is the binary of lock k, built from one of the trees.
BuiltFrom(k, b, d) == \E t \in d : b = Built(k, t)

\* Verifier state l, overlapped by none if a holds, and binary b agree with
\* the trees d that have been on disk.  Alone, a verifier runs what it built.
\* Overlapped, it runs what somebody built from one of these trees; but while
\* none of them passes the replay, nobody has come as far as to build anything
\* but the ASan binary.
Agrees(l, a, b, d) ==
    /\ l.pc = "idle" => l = Fresh
    /\ l.pc = "link" => \E t \in d : l.obj = Built(l.k, t) /\ t \in Builds(Flavor(l.k))
    /\ l.pc = "run" => /\ l.k # 3
                       /\ BuiltFrom(1, b, d) \/ BuiltFrom(2, b, d)
                       /\ a => BuiltFrom(l.k, b, d)
                       /\ ~SomeReplayed(d) => BuiltFrom(1, b, d)
    /\ l.k # 1 => SomeReplayed(d)
    /\ a /\ l.k = 3 => \E t \in d : Regressed(t)
    /\ l.status = "certified" => l.k = 3 /\ \E t \in d : t \in PlainBuilds
    /\ AllSound(d) => \A k \in Locks : l.ok[k] # "false"
    /\ a => \A k \in 1 .. 2 : l.ran[k] # NoBinary => BuiltFrom(k, l.ran[k], d)

VerificationInv ==
    /\ VerificationTypeOK
    /\ tree \in disk
    /\ \A v \in Verifiers : Agrees(lock[v], alone[v], bin, disk)

\* A verifier that has not begun claims nothing.
LEMMA FreshAgrees ==
    /\ Fresh \in LockStates
    /\ \A a, b, d : Agrees(Fresh, a, b, d)
<1>1. Fresh \in LockStates
  BY DEF Fresh, LockStates, Locks
<1>2. \A k \in Locks : Fresh.ran[k] = NoBinary /\ Fresh.ok[k] = "none"
  BY DEF Fresh
<1>3. /\ Fresh.pc = "idle" /\ Fresh.k = 1 /\ Fresh.status = "pending"
      /\ \A k \in 1 .. 2 : k \in Locks
  BY DEF Fresh, Locks
<1> QED  BY <1>1, <1>2, <1>3 DEF Agrees

\* The fewer it is alone for, the less it claims.
LEMMA Overlapped ==
    ASSUME NEW l, NEW a, NEW b, NEW d, Agrees(l, a, b, d)
    PROVE  Agrees(l, FALSE, b, d)
  BY DEF Agrees

\* What is claimed of some trees is claimed of more.
LEMMA MoreTrees ==
    ASSUME NEW l, NEW a, NEW b, NEW d, NEW e, d \subseteq e, Agrees(l, a, b, d)
    PROVE  Agrees(l, a, b, e)
<1>1. /\ SomeReplayed(d) => SomeReplayed(e)
      /\ AllSound(e) => AllSound(d)
      /\ \A k, c : BuiltFrom(k, c, d) => BuiltFrom(k, c, e)
  BY DEF SomeReplayed, AllSound, BuiltFrom
<1> QED  BY <1>1 DEF Agrees

\* Every way a lock ends is a state of a verifier.
LEMMA LockEnds ==
    ASSUME NEW l \in LockStates
    PROVE  /\ \A how \in {"certified", "failed", "raised"} : Over(l, how) \in LockStates
           /\ Opened(l) \in LockStates
           /\ Shut(l) \in LockStates
<1> USE DEF LockStates, Locks, Over
<1>1. \A how \in {"certified", "failed", "raised"} : Over(l, how) \in LockStates
  OBVIOUS
<1>2. Shut(l) \in LockStates
  BY DEF Shut
<1>3. Opened(l) \in LockStates
  <2> DEFINE passed == [l EXCEPT !.ok[l.k] = "true", !.obj = NoBinary]
  <2>1. passed \in LockStates /\ passed.k = l.k
    OBVIOUS
  <2>2. CASE l.k = 3
    BY <2>1, <2>2 DEF Opened
  <2>3. CASE l.k # 3
    <3>1. l.k + 1 \in 1 .. 3
      BY <2>3
    <3>2. Opened(l) = [passed EXCEPT !.pc = "build", !.k = l.k + 1]
      BY <2>3 DEF Opened
    <3> HIDE DEF passed
    <3> QED  BY <2>1, <3>1, <3>2
  <2> QED  BY <2>2, <2>3
<1> QED  BY <1>1, <1>2, <1>3

\* A verification that ends early claims no more than it did.
LEMMA OverAgrees ==
    ASSUME NEW l \in LockStates, NEW a \in BOOLEAN, NEW b, NEW d, Agrees(l, a, b, d)
    PROVE  \A c : /\ \A how \in {"failed", "raised"} : Agrees(Over(l, how), a, c, d)
                  /\ ~AllSound(d) => Agrees(Shut(l), a, c, d)
<1>1. ASSUME NEW how \in {"failed", "raised"}, NEW m \in LockStates, NEW c,
             m.k = l.k, m.ran = l.ran, m.ok = l.ok \/ ~AllSound(d)
      PROVE  Agrees(Over(m, how), a, c, d)
  <2>1. /\ Over(m, how).pc = "done" /\ Over(m, how).status = how
        /\ Over(m, how).k = m.k /\ Over(m, how).ok = m.ok /\ Over(m, how).ran = m.ran
    BY <1>1 DEF Over, LockStates
  <2> QED  BY <1>1, <2>1 DEF Agrees
<1>2. [l EXCEPT !.ok[l.k] = "false"] \in LockStates
  BY DEF LockStates
<1>3. /\ [l EXCEPT !.ok[l.k] = "false"].k = l.k
      /\ [l EXCEPT !.ok[l.k] = "false"].ran = l.ran
  BY DEF LockStates
<1> QED  BY <1>1, <1>2, <1>3 DEF Shut

\* A lock that holds passes on what it has shown.
LEMMA OpenedAgrees ==
    ASSUME NEW l \in LockStates, NEW a \in BOOLEAN, NEW b, NEW d, Agrees(l, a, b, d),
           \/ l.k = 1 /\ SomeReplayed(d)
           \/ l.k = 2 /\ (a => \E t \in d : Regressed(t))
           \/ l.k = 3 /\ \E t \in d : t \in PlainBuilds
    PROVE  \A c : Agrees(Opened(l), a, c, d)
<1> SUFFICES ASSUME NEW c
             PROVE  Agrees(Opened(l), a, c, d)
  OBVIOUS
<1> DEFINE passed == [l EXCEPT !.ok[l.k] = "true", !.obj = NoBinary]
<1>1. /\ passed \in LockStates
      /\ passed.k = l.k
      /\ passed.status = l.status
      /\ passed.ran = l.ran
      /\ \A k \in Locks : passed.ok[k] = l.ok[k] \/ passed.ok[k] = "true"
  BY DEF LockStates, Locks
<1> HIDE DEF passed
<1>2. CASE l.k = 3
  <2>1. Opened(l) = Over(passed, "certified")
    BY <1>2 DEF Opened, passed
  <2>2. /\ Opened(l).pc = "done" /\ Opened(l).k = 3
        /\ Opened(l).ok = passed.ok /\ Opened(l).ran = l.ran
    BY <1>1, <1>2, <2>1 DEF Over, LockStates
  <2> QED  BY <1>1, <1>2, <2>2 DEF Agrees
<1>3. CASE l.k # 3
  <2>1. l.k \in {1, 2}
    BY <1>3 DEF LockStates, Locks
  <2>2. Opened(l) = [passed EXCEPT !.pc = "build", !.k = l.k + 1]
    BY <1>3 DEF Opened, passed
  <2>3. /\ Opened(l).pc = "build" /\ Opened(l).k = l.k + 1 /\ Opened(l).status = l.status
        /\ Opened(l).ok = passed.ok /\ Opened(l).ran = l.ran
    BY <1>1, <2>2 DEF LockStates
  <2>4. l.status # "certified"
    BY <1>3 DEF Agrees
  <2>5. /\ Opened(l).k # 1 => SomeReplayed(d)
        /\ a /\ Opened(l).k = 3 => \E t \in d : Regressed(t)
    BY <2>1, <2>3 DEF Agrees
  <2> QED  BY <1>1, <2>3, <2>4, <2>5 DEF Agrees
<1> QED  BY <1>2, <1>3

-----------------------------------------------------------------------------
(* Each step of a verifier.                                                *)

\* The types, and where the verifier has come.
LEMMA OwnStep ==
    ASSUME VerificationInv, NEW v \in Verifiers,
           VerifyStep(v, tree) \/ VerifyFault(v) \/ Take(v)
    PROVE  \E l \in LockStates :
              /\ lock' = [lock EXCEPT ![v] = l]
              /\ bin' = bin \/ (BuiltFrom(lock[v].k, bin', disk) /\ l.pc # "idle")
              /\ Agrees(l, alone[v], bin', disk)
<1> DEFINE o == lock[v]
           a == alone[v]
           Reached(l, b) == /\ l \in LockStates
                            /\ lock' = [lock EXCEPT ![v] = l]
                            /\ bin' = b
                            /\ b = bin \/ (BuiltFrom(o.k, b, disk) /\ l.pc # "idle")
                            /\ Agrees(l, a, b, disk)
           Goal == \E l, b : Reached(l, b)
<1>1. /\ lock \in [Verifiers -> LockStates]
      /\ o \in LockStates
      /\ o.k \in {1, 2, 3}
      /\ a \in BOOLEAN
      /\ tree \in Trees
      /\ tree \in disk
      /\ disk \subseteq Trees
      /\ bin \in Binaries \cup {NoBinary}
      /\ Agrees(o, a, bin, disk)
  BY DEF VerificationInv, VerificationTypeOK, LockTypeOK, LockStates, Locks
<1>2. \A t \in disk : PlainExits[t] \subseteq BOOLEAN
  BY <1>1, BuildsAssumption
<1>3. ASSUME NEW l, NEW b, Reached(l, b)
      PROVE  Goal
  BY <1>3
<1>4. SUFFICES Goal
  OBVIOUS
<1> HIDE DEF Goal
<1>5. ASSUME NEW l \in LockStates, lock' = [lock EXCEPT ![v] = l], bin' = bin,
             Agrees(l, a, bin, disk)
      PROVE  Goal
  <2>1. Reached(l, bin)
    BY <1>5
  <2> HIDE DEF Reached
  <2> QED  BY <1>3, <2>1
<1>6. CASE Load(v)
  <2> DEFINE l == [o EXCEPT !.pc = "build"]
  <2>1. /\ l \in LockStates
        /\ l.pc = "build" /\ l.k = o.k /\ l.status = o.status /\ l.ok = o.ok /\ l.ran = o.ran
    BY <1>1 DEF LockStates
  <2>2. lock' = [lock EXCEPT ![v] = l] /\ bin' = bin
    BY <1>6 DEF Load
  <2> HIDE DEF l
  <2>3. Agrees(l, a, bin, disk)
    BY <1>1, <2>1 DEF Agrees
  <2> QED  BY <1>5, <2>1, <2>2, <2>3
<1>7. CASE Compile(v, tree)
  <2>1. CASE tree \in Builds(Flavor(o.k))
    <3> DEFINE l == [o EXCEPT !.pc = "link", !.obj = [flavor |-> Flavor(o.k), tree |-> tree]]
    <3>1. [flavor |-> Flavor(o.k), tree |-> tree] \in Binaries
      BY <1>1 DEF Flavor, Flavors, Binaries
    <3>2. /\ l \in LockStates
          /\ l.pc = "link" /\ l.obj = Built(o.k, tree)
          /\ l.k = o.k /\ l.status = o.status /\ l.ok = o.ok /\ l.ran = o.ran
      BY <1>1, <3>1 DEF LockStates, Built
    <3>3. lock' = [lock EXCEPT ![v] = l] /\ bin' = bin
      BY <1>7, <2>1 DEF Compile
    <3> HIDE DEF l
    <3>4. Agrees(l, a, bin, disk)
      BY <1>1, <2>1, <3>2 DEF Agrees
    <3> QED  BY <1>5, <3>2, <3>3, <3>4
  <2>2. CASE tree \notin Builds(Flavor(o.k))
    <3>1. lock' = [lock EXCEPT ![v] = Rejected(o)] /\ bin' = bin
      BY <1>7, <2>2 DEF Compile
    <3>2. CASE o.k = 1
      <4>1. SomeReplayed(disk)
        BY <1>1, <2>2, <3>2 DEF Builds, Flavor, Replayed, SomeReplayed
      <4> QED  BY <1>1, <1>5, <3>1, <3>2, <4>1, LockEnds, OpenedAgrees DEF Rejected
    <3>3. CASE o.k # 1
      <4>1. ~AllSound(disk)
        BY <1>1, <2>2, <3>3 DEF Builds, Flavor, Sound, AllSound
      <4> QED  BY <1>1, <1>5, <3>1, <3>3, <4>1, LockEnds, OverAgrees DEF Rejected
    <3> QED  BY <3>2, <3>3
  <2> QED  BY <2>1, <2>2
<1>8. CASE Link(v)
  <2>1. PICK t \in disk : o.obj = Built(o.k, t) /\ t \in Builds(Flavor(o.k))
    BY <1>1, <1>8 DEF Link, Agrees
  <2>2. /\ o.pc = "link"
        /\ bin' = Built(o.k, t)
        /\ BuiltFrom(o.k, bin', disk)
    BY <1>8, <2>1 DEF Link, BuiltFrom
  <2>3. ASSUME NEW l \in LockStates, lock' = [lock EXCEPT ![v] = l], l.pc # "idle",
               Agrees(l, a, bin', disk)
        PROVE  Goal
    <3>1. Reached(l, bin')
      BY <2>2, <2>3
    <3> HIDE DEF Reached
    <3> QED  BY <1>3, <3>1
  <2>4. CASE o.k = 3
    <3>1. lock' = [lock EXCEPT ![v] = Opened(o)]
      BY <1>8, <2>4 DEF Link
    <3>2. \E u \in disk : u \in PlainBuilds
      BY <2>1, <2>4 DEF Builds, Flavor
    <3>3. Opened(o).pc # "idle"
      BY <1>1, <2>4 DEF Opened, Over, LockStates
    <3>4. Opened(o) \in LockStates
      BY <1>1, LockEnds
    <3>5. Agrees(Opened(o), a, bin', disk)
      BY <1>1, <2>4, <3>2, OpenedAgrees
    <3> QED  BY <2>3, <3>1, <3>3, <3>4, <3>5
  <2>5. CASE o.k # 3
    <3> DEFINE l == [o EXCEPT !.pc = "run", !.obj = NoBinary]
    <3>1. /\ l \in LockStates
          /\ l.pc = "run" /\ l.k = o.k /\ l.status = o.status /\ l.ok = o.ok /\ l.ran = o.ran
      BY <1>1 DEF LockStates
    <3>2. lock' = [lock EXCEPT ![v] = l]
      BY <1>8, <2>5 DEF Link
    <3> HIDE DEF l
    <3>3. /\ BuiltFrom(1, bin', disk) \/ BuiltFrom(2, bin', disk)
          /\ ~SomeReplayed(disk) => BuiltFrom(1, bin', disk)
      <4>1. CASE o.k = 1
        BY <2>2, <4>1
      <4>2. CASE o.k # 1
        BY <1>1, <2>2, <2>5, <4>2 DEF Agrees
      <4> QED  BY <4>1, <4>2
    <3>4. Agrees(l, a, bin', disk)
      BY <1>1, <2>2, <2>5, <3>1, <3>3 DEF Agrees
    <3> QED  BY <2>3, <3>1, <3>2, <3>4
  <2> QED  BY <2>4, <2>5
<1>9. CASE Run(v)
  <2> DEFINE judged == [o EXCEPT !.ran[o.k] = bin]
  <2>1. PICK clean \in Exits(bin) :
           lock' = [lock EXCEPT ![v] = IF clean THEN Opened(judged) ELSE Shut(judged)]
    BY <1>9 DEF Run
  <2>2. /\ bin' = bin
        /\ o.k \in {1, 2}
        /\ BuiltFrom(1, bin, disk) \/ BuiltFrom(2, bin, disk)
        /\ a => BuiltFrom(o.k, bin, disk)
        /\ ~SomeReplayed(disk) => BuiltFrom(1, bin, disk)
    BY <1>1, <1>9 DEF Run, Agrees
  <2>3. /\ judged \in LockStates
        /\ judged.k = o.k /\ judged.status = o.status /\ judged.ok = o.ok
        /\ \A k \in Locks : judged.ran[k] = IF k = o.k THEN bin ELSE o.ran[k]
        /\ judged.pc = "run"
    BY <1>1, <1>9 DEF LockStates, Run
  <2> HIDE DEF judged
  <2>4. Agrees(judged, a, bin, disk)
    BY <1>1, <2>2, <2>3 DEF Agrees, Locks
  <2>5. ASSUME NEW t
        PROVE  /\ bin = Built(1, t) => Exits(bin) = {(t \in AsanClean)}
               /\ bin = Built(2, t) => Exits(bin) = PlainExits[t]
    BY DEF Exits, Built, Flavor
  <2>6. clean \in BOOLEAN
    <3>1. PICK t \in disk : Exits(bin) = {(t \in AsanClean)} \/ Exits(bin) = PlainExits[t]
      BY <2>2, <2>5 DEF BuiltFrom
    <3>2. (t \in AsanClean) \in BOOLEAN
      OBVIOUS
    <3> QED  BY <1>2, <2>1, <3>1, <3>2, Zenon
  <2>7. CASE clean
    <3>1. clean = TRUE
      BY <2>6, <2>7
    <3>2. BuiltFrom(1, bin, disk) => SomeReplayed(disk)
      BY <2>1, <2>5, <3>1 DEF BuiltFrom, SomeReplayed, Replayed
    <3>3. BuiltFrom(2, bin, disk) => \E t \in disk : Regressed(t)
      BY <2>1, <2>5, <3>1, Zenon DEF BuiltFrom, Regressed
    <3>4. SomeReplayed(disk)
      BY <2>2, <3>2
    <3>5. \/ judged.k = 1 /\ SomeReplayed(disk)
          \/ judged.k = 2 /\ (a => \E t \in disk : Regressed(t))
      BY <2>2, <2>3, <3>3, <3>4
    <3>6. lock' = [lock EXCEPT ![v] = Opened(judged)]
      BY <2>1, <2>7
    <3>7. Opened(judged) \in LockStates
      BY <2>3, LockEnds
    <3>8. Agrees(Opened(judged), a, bin, disk)
      BY <1>1, <2>3, <2>4, <3>5, OpenedAgrees
    <3> QED  BY <1>5, <2>2, <3>6, <3>7, <3>8
  <2>8. CASE ~clean
    <3>1. ~AllSound(disk)
      <4>1. clean = FALSE
        BY <2>6, <2>8
      <4>2. PICK t \in disk : bin = Built(1, t) \/ bin = Built(2, t)
        BY <2>2 DEF BuiltFrom
      <4>3. ~Sound(t)
        BY <2>1, <2>5, <4>1, <4>2 DEF Sound
      <4> QED  BY <4>3 DEF AllSound
    <3>2. lock' = [lock EXCEPT ![v] = Shut(judged)]
      BY <2>1, <2>8
    <3>3. Shut(judged) \in LockStates
      BY <2>3, LockEnds
    <3>4. Agrees(Shut(judged), a, bin, disk)
      BY <1>1, <2>3, <2>4, <3>1, OverAgrees
    <3> QED  BY <1>5, <2>2, <3>2, <3>3, <3>4
  <2> QED  BY <2>7, <2>8
<1>10. ASSUME NEW how \in {"failed", "raised"}, lock' = [lock EXCEPT ![v] = Over(o, how)], bin' = bin
       PROVE  Goal
  BY <1>1, <1>5, <1>10, LockEnds, OverAgrees
<1>11. CASE Caught(v) \/ LoadFails(v)
  BY <1>10, <1>11 DEF Caught, LoadFails
<1>12. CASE Take(v)
  BY <1>5, <1>12, FreshAgrees DEF Take
<1> QED
  BY <1>6, <1>7, <1>8, <1>9, <1>11, <1>12 DEF VerifyStep, VerifyFault, RunBusy, Fault

\* The step of one verifier and the agreement of all with the trees so far.
LEMMA VerifyKeeps ==
    ASSUME VerificationInv, NEW v \in Verifiers, Verify(v)
    PROVE  /\ lock' \in [Verifiers -> LockStates]
           /\ alone' \in [Verifiers -> BOOLEAN]
           /\ bin' \in Binaries \cup {NoBinary}
           /\ \A u \in Verifiers : Agrees(lock'[u], alone'[u], bin', disk)
<1>1. PICK l \in LockStates :
         /\ lock' = [lock EXCEPT ![v] = l]
         /\ bin' = bin \/ (BuiltFrom(lock[v].k, bin', disk) /\ l.pc # "idle")
         /\ Agrees(l, alone[v], bin', disk)
  BY OwnStep DEF Verify
<1>2. /\ lock \in [Verifiers -> LockStates]
      /\ alone \in [Verifiers -> BOOLEAN]
      /\ bin \in Binaries \cup {NoBinary}
      /\ disk \subseteq Trees
      /\ alone' = [u \in Verifiers |->
                      \/ lock'[u].pc = "idle"
                      \/ alone[u] /\ \A w \in Verifiers \ {u} : lock'[w].pc = "idle"]
  BY DEF VerificationInv, VerificationTypeOK, LockTypeOK, Verify
<1>3. /\ lock'[v] = l
      /\ \A u \in Verifiers \ {v} : lock'[u] = lock[u]
      /\ lock' \in [Verifiers -> LockStates]
      /\ alone' \in [Verifiers -> BOOLEAN]
      /\ \A u \in Verifiers :
            alone'[u] => \/ lock'[u].pc = "idle"
                         \/ alone[u] /\ \A w \in Verifiers \ {u} : lock'[w].pc = "idle"
  BY <1>1, <1>2
<1>4. bin' \in Binaries \cup {NoBinary}
  <2>1. lock[v].k \in {1, 2, 3}
    BY <1>2 DEF LockStates, Locks
  <2>2. \A t \in disk : Built(lock[v].k, t) \in Binaries
    BY <1>2, <2>1 DEF Built, Binaries, Flavor, Flavors
  <2> QED  BY <1>1, <1>2, <2>2 DEF BuiltFrom
<1>5. ASSUME NEW u \in Verifiers, lock'[u].pc = "idle", NEW b, Agrees(lock'[u], FALSE, b, disk)
      PROVE  Agrees(lock'[u], alone'[u], bin', disk)
  <2>1. lock'[u] = Fresh
    BY <1>5 DEF Agrees
  <2> QED  BY <2>1, FreshAgrees
<1>6. Agrees(lock'[v], alone'[v], bin', disk)
  <2>1. Agrees(l, FALSE, bin', disk)
    BY <1>1, <1>2, Overlapped
  <2>2. CASE l.pc = "idle"
    BY <1>3, <1>5, <2>1, <2>2
  <2>3. CASE l.pc # "idle"
    <3>1. alone'[v] \in {alone[v], FALSE}
      BY <1>2, <1>3, <2>3
    <3> QED  BY <1>1, <1>3, <2>1, <3>1
  <2> QED  BY <2>2, <2>3
<1>7. ASSUME NEW u \in Verifiers \ {v}
      PROVE  Agrees(lock'[u], alone'[u], bin', disk)
  <2>1. Agrees(lock[u], alone[u], bin, disk) /\ Agrees(lock[v], alone[v], bin, disk)
    BY DEF VerificationInv
  <2>2. Agrees(lock[u], FALSE, bin, disk)
    BY <1>2, <2>1, Overlapped
  <2>3. CASE lock[u].pc = "idle"
    BY <1>3, <1>5, <2>2, <2>3
  <2>4. CASE lock[u].pc # "idle" /\ bin' = bin
    <3>1. alone'[u] \in {alone[u], FALSE}
      BY <1>2, <1>3, <2>4
    <3> QED  BY <1>3, <2>1, <2>2, <2>4, <3>1
  <2>5. CASE lock[u].pc # "idle" /\ BuiltFrom(lock[v].k, bin', disk) /\ l.pc # "idle"
    <3>1. alone'[u] = FALSE
      BY <1>3, <2>5
    <3>2. ~SomeReplayed(disk) => lock[v].k = 1
      BY <2>1 DEF Agrees
    <3>3. BuiltFrom(1, bin', disk) \/ BuiltFrom(2, bin', disk)
      BY <1>2, <2>5 DEF BuiltFrom, Built, Flavor, LockStates, Locks
    <3>4. Agrees(lock[u], FALSE, bin', disk)
      BY <2>2, <2>5, <3>2, <3>3 DEF Agrees
    <3> QED  BY <1>3, <3>1, <3>4
  <2> QED  BY <1>1, <2>3, <2>4, <2>5
<1> QED  BY <1>3, <1>4, <1>6, <1>7

\* The agreement holds of every state.
LEMMA VerificationInvariant == Spec => []VerificationInv
<1>1. VerificationInit => VerificationInv
  <2> SUFFICES ASSUME VerificationInit
               PROVE  VerificationInv
    OBVIOUS
  <2>1. VerificationTypeOK
    BY FreshAgrees DEF VerificationInit, VerificationTypeOK, LockInit, LockTypeOK
  <2>2. (\A v \in Verifiers : lock[v] = Fresh) /\ tree \in disk
    BY DEF VerificationInit, LockInit
  <2> QED  BY <2>1, <2>2, FreshAgrees DEF VerificationInv
<1>2. ASSUME VerificationInv, Rewrite
      PROVE  VerificationInv'
  <2>1. /\ UNCHANGED <<bin, lock, alone>>
        /\ tree' \in Trees
        /\ tree' \in disk'
        /\ disk' \subseteq Trees
        /\ disk \subseteq disk' \/ Quiet(lock)
    BY <1>2 DEF VerificationInv, VerificationTypeOK, Rewrite, lockVars
  <2>2. VerificationTypeOK'
    BY <1>2, <2>1 DEF VerificationInv, VerificationTypeOK, LockTypeOK
  <2>3. ASSUME NEW v \in Verifiers
        PROVE  Agrees(lock[v], alone[v], bin, disk')
    <3>1. Agrees(lock[v], alone[v], bin, disk)
      BY <1>2 DEF VerificationInv
    <3>2. CASE disk \subseteq disk'
      BY <3>1, <3>2, MoreTrees
    <3>3. CASE Quiet(lock)
      <4>1. lock[v] = Fresh
        BY <3>1, <3>3 DEF Quiet, Agrees
      <4> QED  BY <4>1, FreshAgrees
    <3> QED  BY <2>1, <3>2, <3>3
  <2> QED  BY <2>1, <2>2, <2>3 DEF VerificationInv
<1>3. ASSUME VerificationInv, NEW v \in Verifiers, Verify(v)
      PROVE  VerificationInv'
  <2>1. /\ tree \in Trees /\ tree' = tree
        /\ tree \in disk /\ disk \subseteq Trees
        /\ disk' = IF Quiet(lock') THEN {tree} ELSE disk
    BY <1>3 DEF VerificationInv, VerificationTypeOK, Verify
  <2>2. /\ lock' \in [Verifiers -> LockStates]
        /\ alone' \in [Verifiers -> BOOLEAN]
        /\ bin' \in Binaries \cup {NoBinary}
    BY <1>3, VerifyKeeps
  <2>3. VerificationTypeOK' /\ tree' \in disk'
    BY <2>1, <2>2 DEF VerificationTypeOK, LockTypeOK
  <2>4. ASSUME NEW u \in Verifiers
        PROVE  Agrees(lock'[u], alone'[u], bin', disk')
    <3>1. Agrees(lock'[u], alone'[u], bin', disk)
      BY <1>3, VerifyKeeps
    <3>2. CASE Quiet(lock')
      <4>1. lock'[u] = Fresh
        BY <3>1, <3>2 DEF Quiet, Agrees
      <4> QED  BY <4>1, FreshAgrees
    <3>3. CASE ~Quiet(lock')
      BY <2>1, <3>1, <3>3
    <3> QED  BY <3>2, <3>3
  <2> QED  BY <2>3, <2>4 DEF VerificationInv
<1>4. VerificationInv /\ UNCHANGED vars => VerificationInv'
  BY DEF VerificationInv, VerificationTypeOK, LockTypeOK, vars, lockVars
<1>5. VerificationInv /\ [Next]_vars => VerificationInv'
  BY <1>2, <1>3, <1>4 DEF Next
<1> QED  BY <1>1, <1>5, PTL DEF Spec

-----------------------------------------------------------------------------
(* What the verdicts are worth.                                            *)

\* The verifiers, the binary they share and the source keep their types.
THEOREM TypeCorrect == Spec => []VerificationTypeOK
<1>1. VerificationInv => VerificationTypeOK
  BY DEF VerificationInv
<1> QED  BY <1>1, VerificationInvariant, PTL

\* However many verifiers replace BIN_PATH under each other, and however often
\* the source is rewritten meanwhile: where all that has been on the disk builds
\* with ASan and is not clean there, nothing is certified.
THEOREM NoneCertifiesTheExploitable == Spec => []CertifiedIsClean
<1>1. VerificationInv => CertifiedIsClean
  BY DEF VerificationInv, Agrees, SomeReplayed, Replayed, CertifiedIsClean, Certified
<1> QED  BY <1>1, VerificationInvariant, PTL

\* A verification that none overlaps certifies only if it has found a source
\* whose regression tests can pass.
THEOREM AloneCertifiesTheProven == Spec => []CertifiedIsProven
<1>1. VerificationInv => CertifiedIsProven
  <2> SUFFICES ASSUME VerificationInv, NEW v \in Verifiers, Certified(v), alone[v]
               PROVE  \E t \in disk : Regressed(t)
    BY Zenon DEF CertifiedIsProven, Regressed
  <2> QED  BY DEF VerificationInv, Agrees, Certified
<1> QED  BY <1>1, VerificationInvariant, PTL

\* While all that is put on the disk builds and is clean both ways, no lock says
\* no, whatever other verifiers and patches do between its builds.
THEOREM SoundSourcesPass == Spec => []SoundSourceIsNotShut
<1>1. VerificationInv => SoundSourceIsNotShut
  <2>1. disk \subseteq AsanBuilds \cap PlainBuilds \cap AsanClean
        /\ (\A t \in disk : PlainExits[t] = {TRUE}) => AllSound(disk)
    BY DEF AllSound, Sound
  <2> QED  BY <2>1 DEF VerificationInv, Agrees, SoundSourceIsNotShut
<1> QED  BY <1>1, VerificationInvariant, PTL

\* A verification that none overlaps judges the binaries it has built from what
\* it found on the disk, whatever BIN_PATH held before.
THEOREM OwnBinaryIsJudged == Spec => []JudgedItsOwnBinary
<1>1. VerificationInv => JudgedItsOwnBinary
  BY DEF VerificationInv, Agrees, BuiltFrom, Built, JudgedItsOwnBinary
<1> QED  BY <1>1, VerificationInvariant, PTL

=============================================================================
