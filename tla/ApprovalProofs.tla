--------------------------- MODULE ApprovalProofs ---------------------------
(***************************************************************************)
(* What TLC shows of Approval on small instances, proved for any rules,    *)
(* templates, texts and files, and whatever a language model answers.      *)
(***************************************************************************)
EXTENDS Approval, UnifiedDiffProofs

-----------------------------------------------------------------------------
(* The inductive invariant.                                                *)

\* The ledger's record that a gated fix was left out.
Pending(name, f, text) ==
    [key |-> Key(name, f), text |-> text, outcome |-> "pending_review"]

\* What the operator can choose and paste.
Chosen == files \in Selections \cup {<<>>} /\ box \in Texts

\* A request in flight asks with the keys held, and while nothing is pasted or
\* chosen it asks about what the page would send now.
Asked ==
    \A q \in flight : /\ q.files \in Seq(Files)
                      /\ q.keys = keys
                      /\ steady => q.files = Inputs

\* The approvals on the page are those that are sent: the keys held, without
\* what is before a comma.
PageShowsKeysSent ==
    \A n \in DOMAIN shown :
        shown[n].approved = {f \in shown[n].findings : Key(n, f) \in Sent(keys)}

\* A key has a name, a CWE and a line, and nothing else.
IsKey(k) == k = Key(k.name, k)

KeysAreKeys == \A k \in keys : IsKey(k)

\* What is shown is the review of a file that the page would send now, and the
\* ledger has each gated fix that it leaves out.
ShownIsReviewed ==
    steady =>
        \A n \in DOMAIN shown :
            LET v == shown[n]
            IN /\ \E i \in DOMAIN Inputs : Inputs[i].name = n /\ Inputs[i].text = v.text
               /\ v.findings = Findings(v.text)
               /\ v.gated \subseteq v.findings
               /\ v.included = v.fixable \ (v.gated \ v.approved)
               /\ \A f \in (v.gated \cap v.fixable) \ v.approved :
                     Pending(n, f, v.text) \in log

\* The ledger has each finding that the keys held stand for.
HeldWasPending ==
    steady /\ Unambiguous =>
        \A i \in DOMAIN Inputs : \A f \in Findings(Inputs[i].text) :
            Key(Inputs[i].name, f) \in Sent(keys)
                => Pending(Inputs[i].name, f, Inputs[i].text) \in log

IInv == Chosen /\ Asked /\ PageShowsKeysSent /\ ShownIsReviewed /\ HeldWasPending

-----------------------------------------------------------------------------
(* What is sent and what is answered.                                      *)

\* The page sends files that can be chosen, or a text that can be pasted.
LEMMA InputsAreFiles ==
    ASSUME Chosen
    PROVE  /\ Inputs \in Seq(Files)
           /\ \A i \in DOMAIN Inputs : Inputs[i].name \in Names
<1>1. Inputs \in Seq(Files)
  <2>1. CASE files # <<>>
    BY <2>1, InputAssumption DEF Inputs, Chosen
  <2>2. CASE files = <<>> /\ box = Blank
    BY <2>2, EmptySeq DEF Inputs
  <2>3. CASE files = <<>> /\ box # Blank
    <3>1. [name |-> Pasted[box], text |-> box] \in Files
      BY DEF Chosen, Files
    <3>2. Inputs = <<[name |-> Pasted[box], text |-> box]>>
      BY <2>3 DEF Inputs
    <3> QED  BY <3>1, <3>2
  <2> QED  BY <2>1, <2>2, <2>3
<1>2. \A i \in DOMAIN Inputs : Inputs[i] \in Files
  BY <1>1, LenProperties, ElementOfSeq
<1> QED  BY <1>1, <1>2 DEF Names

\* A review is about its file's text and findings, and includes every fix that
\* is not gated, or gated and approved.
LEMMA ReviewFacts ==
    ASSUME NEW file, NEW ks, NEW modelled
    PROVE  LET v == Review(file, ks, modelled)
           IN /\ v.text = file.text
              /\ v.findings = Findings(file.text)
              /\ v.gated \subseteq v.findings
              /\ v.approved = {f \in v.findings : Key(file.name, f) \in ks}
              /\ v.included = v.fixable \ (v.gated \ v.approved)
  BY DEF Review

\* An answer shows under each name the review of a file of that name, all of
\* whose decisions are in the ledger.
LEMMA ServeFacts ==
    ASSUME IInv, Serve
    PROVE  \E q \in flight : \E modelled :
              \A n \in DOMAIN shown' : \E i \in DOMAIN q.files :
                 /\ q.files[i].name = n
                 /\ shown'[n] = Review(q.files[i], Sent(q.keys), modelled)
                 /\ Decisions(n, shown'[n], shown'[n].findings) \subseteq log'
<1>1. PICK q \in flight : \E modelled \in Modelled(q) :
          LET reviews == Reviews(q, modelled)
          IN /\ log' = log \cup Recorded(q, reviews, Len(q.files))
             /\ ByName(q, reviews, shown')
  BY DEF Serve
<1>2. PICK modelled \in Modelled(q) :
          /\ log' = log \cup Recorded(q, Reviews(q, modelled), Len(q.files))
          /\ ByName(q, Reviews(q, modelled), shown')
  BY <1>1
<1>3. PICK last \in [{f.name : f \in Range(q.files)} -> DOMAIN q.files] :
          /\ \A n \in DOMAIN last : q.files[last[n]].name = n
          /\ shown' = [n \in DOMAIN last |-> Reviews(q, modelled)[last[n]]]
  BY <1>2 DEF ByName
<1>4. DOMAIN q.files = 1 .. Len(q.files)
  BY LenProperties DEF IInv, Asked
<1>5. ASSUME NEW n \in DOMAIN shown'
      PROVE  \E i \in DOMAIN q.files :
                /\ q.files[i].name = n
                /\ shown'[n] = Review(q.files[i], Sent(q.keys), modelled)
                /\ Decisions(n, shown'[n], shown'[n].findings) \subseteq log'
  <2> DEFINE i == last[n]
  <2>1. n \in DOMAIN last /\ i \in DOMAIN q.files
    BY <1>3
  <2>2. q.files[i].name = n /\ shown'[n] = Reviews(q, modelled)[i]
    BY <1>3, <2>1
  <2>3. shown'[n] = Review(q.files[i], Sent(q.keys), modelled)
    BY <2>1, <2>2 DEF Reviews
  <2>4. Decisions(n, shown'[n], shown'[n].findings)
           \subseteq Recorded(q, Reviews(q, modelled), Len(q.files))
    BY <2>1, <2>2, <1>4 DEF Recorded
  <2> QED  BY <2>1, <2>2, <2>3, <2>4, <1>2
<1> QED  BY <1>5

\* A request is for what the page would send now, with the keys it holds then.
LEMMA RunAnalysisFacts ==
    ASSUME Chosen, NEW ks, RunAnalysis(ks)
    PROVE  /\ shown' = NoReviews
           /\ Inputs' = Inputs /\ Chosen' /\ (Unambiguous' <=> Unambiguous)
           /\ \A q \in flight' : /\ q.files \in Seq(Files)
                                 /\ q.files = Inputs'
                                 /\ q.keys = ks
<1>1. Inputs' = Inputs /\ Chosen' /\ (Unambiguous' <=> Unambiguous)
  BY DEF RunAnalysis, Inputs, Chosen, Unambiguous
<1>2. Inputs \in Seq(Files)
  BY InputsAreFiles
<1>3. \A q \in flight' : q.files = Inputs /\ q.keys = ks
  BY DEF RunAnalysis
<1> QED  BY <1>1, <1>2, <1>3 DEF RunAnalysis

-----------------------------------------------------------------------------
(* Every step preserves the invariant.                                     *)

\* What is sent or chosen next starts from nothing shown and nothing held.
LEMMA ClickKeeps == ASSUME IInv, Click PROVE IInv'
<1>1. /\ keys' = {} /\ steady' = TRUE
      /\ RunAnalysis({})
  BY DEF Click
<1>2. /\ shown' = NoReviews
      /\ Chosen'
      /\ \A q \in flight' : /\ q.files \in Seq(Files)
                            /\ q.files = Inputs'
                            /\ q.keys = {}
  BY <1>1, RunAnalysisFacts DEF IInv
<1>3. Asked'
  BY <1>1, <1>2 DEF Asked
<1>4. DOMAIN shown' = {} /\ Sent(keys') = {}
  BY <1>1, <1>2 DEF NoReviews, Sent
<1>5. PageShowsKeysSent' /\ ShownIsReviewed'
  BY <1>4 DEF PageShowsKeysSent, ShownIsReviewed
<1>6. HeldWasPending'
  BY <1>4 DEF HeldWasPending, Sent
<1> QED  BY <1>2, <1>3, <1>5, <1>6 DEF IInv

\* A key that is ticked is that of a finding shown pending.
LEMMA TickKeeps == ASSUME IInv, Tick PROVE IInv'
<1>1. PICK n \in DOMAIN shown : \E f \in shown[n].gated \cap shown[n].fixable :
          keys' = Toggled(Key(n, f), f \in shown[n].approved)
  BY DEF Tick
<1>2. PICK f \in shown[n].gated \cap shown[n].fixable :
          keys' = Toggled(Key(n, f), f \in shown[n].approved)
  BY <1>1
<1>3. log' = log /\ steady' = steady /\ RunAnalysis(keys')
  BY DEF Tick
<1>4. /\ shown' = NoReviews
      /\ Inputs' = Inputs /\ Chosen' /\ (Unambiguous' <=> Unambiguous)
      /\ \A q \in flight' : /\ q.files \in Seq(Files)
                            /\ q.files = Inputs'
                            /\ q.keys = keys'
  BY <1>3, RunAnalysisFacts DEF IInv
<1>5. Asked'
  BY <1>4 DEF Asked
<1>6. DOMAIN shown' = {}
  BY <1>4 DEF NoReviews
<1>7. PageShowsKeysSent' /\ ShownIsReviewed'
  BY <1>6 DEF PageShowsKeysSent, ShownIsReviewed
<1>8. HeldWasPending'
  <2> SUFFICES ASSUME steady, Unambiguous,
                      NEW i \in DOMAIN Inputs, NEW g \in Findings(Inputs[i].text),
                      Key(Inputs[i].name, g) \in Sent(keys')
               PROVE  Pending(Inputs[i].name, g, Inputs[i].text) \in log
    BY <1>3, <1>4 DEF HeldWasPending
  <2>1. PICK k \in keys' : Key(Inputs[i].name, g)
                              = [name |-> AfterCommas[k.name], cwe |-> k.cwe, line |-> k.line]
    BY DEF Sent
  <2>2. CASE k \in keys
    BY <2>1, <2>2 DEF IInv, HeldWasPending, Sent
  <2>3. CASE k \notin keys
    <3>1. k = Key(n, f) /\ f \notin shown[n].approved
      BY <1>2, <2>1, <2>3 DEF Toggled
    <3>2. PICK j \in DOMAIN Inputs : Inputs[j].name = n /\ Inputs[j].text = shown[n].text
      BY DEF IInv, ShownIsReviewed
    <3>3. Inputs[i].name = AfterCommas[n] /\ g.cwe = f.cwe /\ g.line = f.line
      BY <2>1, <3>1 DEF Key
    <3>4. n \in DOMAIN AfterCommas
      <4>1. n \in Names
        BY <3>2, InputsAreFiles DEF IInv
      <4> QED  BY <4>1, InputAssumption DEF Names
    <3>5. AfterCommas[Inputs[i].name] = AfterCommas[Inputs[j].name]
      BY <3>2, <3>3, <3>4, InputAssumption
    <3>6. i = j
      BY <3>5 DEF Unambiguous
    <3>7. Pending(n, f, shown[n].text) \in log
      BY <3>1 DEF IInv, ShownIsReviewed
    <3>8. Pending(Inputs[i].name, g, Inputs[i].text) = Pending(n, f, shown[n].text)
      BY <3>2, <3>3, <3>6 DEF Pending, Key
    <3> QED  BY <3>7, <3>8
  <2> QED  BY <2>2, <2>3
<1> QED  BY <1>4, <1>5, <1>7, <1>8 DEF IInv

\* An answer is about what was asked, and its decisions are in the ledger.
LEMMA ServeKeeps == ASSUME IInv, Serve PROVE IInv'
<1>1. /\ flight' = {} /\ keys' = keys /\ steady' = steady
      /\ files' = files /\ box' = box /\ log \subseteq log'
  BY DEF Serve
<1>2. Inputs' = Inputs /\ Chosen' /\ (Unambiguous' <=> Unambiguous)
  BY <1>1 DEF IInv, Inputs, Chosen, Unambiguous
<1>3. PICK q \in flight : \E modelled :
          \A n \in DOMAIN shown' : \E i \in DOMAIN q.files :
             /\ q.files[i].name = n
             /\ shown'[n] = Review(q.files[i], Sent(q.keys), modelled)
             /\ Decisions(n, shown'[n], shown'[n].findings) \subseteq log'
  BY ServeFacts
<1>4. q.keys = keys /\ (steady => q.files = Inputs)
  BY DEF IInv, Asked
<1>5. PICK modelled :
          \A n \in DOMAIN shown' : \E i \in DOMAIN q.files :
             /\ q.files[i].name = n
             /\ shown'[n] = Review(q.files[i], Sent(keys), modelled)
             /\ Decisions(n, shown'[n], shown'[n].findings) \subseteq log'
  BY <1>3, <1>4
<1>6. Asked'
  BY <1>1 DEF Asked
<1>7. PageShowsKeysSent'
  <2> SUFFICES ASSUME NEW n \in DOMAIN shown'
               PROVE  shown'[n].approved
                        = {f \in shown'[n].findings : Key(n, f) \in Sent(keys)}
    BY <1>1 DEF PageShowsKeysSent, Sent
  <2>1. PICK i \in DOMAIN q.files :
            /\ q.files[i].name = n
            /\ shown'[n] = Review(q.files[i], Sent(keys), modelled)
    BY <1>5
  <2> QED  BY <2>1, ReviewFacts
<1>8. ShownIsReviewed'
  <2> SUFFICES ASSUME steady, NEW n \in DOMAIN shown'
               PROVE  LET v == shown'[n]
                      IN /\ \E i \in DOMAIN Inputs :
                               Inputs[i].name = n /\ Inputs[i].text = v.text
                         /\ v.findings = Findings(v.text)
                         /\ v.gated \subseteq v.findings
                         /\ v.included = v.fixable \ (v.gated \ v.approved)
                         /\ \A f \in (v.gated \cap v.fixable) \ v.approved :
                               Pending(n, f, v.text) \in log'
    BY <1>1, <1>2 DEF ShownIsReviewed
  <2> DEFINE v == shown'[n]
  <2>1. PICK i \in DOMAIN q.files :
            /\ q.files[i].name = n
            /\ v = Review(q.files[i], Sent(keys), modelled)
            /\ Decisions(n, v, v.findings) \subseteq log'
    BY <1>5
  <2>2. /\ v.text = q.files[i].text
        /\ v.findings = Findings(v.text)
        /\ v.gated \subseteq v.findings
        /\ v.included = v.fixable \ (v.gated \ v.approved)
    BY <2>1, ReviewFacts
  <2>3. ASSUME NEW f \in (v.gated \cap v.fixable) \ v.approved
        PROVE  Pending(n, f, v.text) \in log'
    <3>1. f \in v.findings \cap v.fixable /\ f \notin v.included
      BY <2>2
    <3>2. Pending(n, f, v.text) \in Decisions(n, v, v.findings)
      BY <3>1 DEF Decisions, Pending
    <3> QED  BY <2>1, <3>2
  <2> QED  BY <1>4, <2>1, <2>2, <2>3
<1>9. HeldWasPending'
  BY <1>1, <1>2 DEF IInv, HeldWasPending, Sent
<1> QED  BY <1>2, <1>6, <1>7, <1>8, <1>9 DEF IInv

\* Nothing is shown and nothing forgotten when a request fails.
LEMMA FailKeeps == ASSUME IInv, Fail PROVE IInv'
<1>1. /\ shown' = NoReviews /\ flight' = {} /\ keys' = keys /\ steady' = steady
      /\ files' = files /\ box' = box /\ log \subseteq log'
  BY DEF Fail
<1>2. Inputs' = Inputs /\ Chosen' /\ (Unambiguous' <=> Unambiguous)
  BY <1>1 DEF IInv, Inputs, Chosen, Unambiguous
<1>3. DOMAIN shown' = {}
  BY <1>1 DEF NoReviews
<1>4. Asked' /\ PageShowsKeysSent' /\ ShownIsReviewed'
  BY <1>1, <1>3 DEF Asked, PageShowsKeysSent, ShownIsReviewed
<1>5. HeldWasPending'
  BY <1>1, <1>2 DEF IInv, HeldWasPending, Sent
<1> QED  BY <1>2, <1>4, <1>5 DEF IInv

\* Pasting and choosing end the steady time, and touch nothing else that the
\* invariant speaks of.
LEMMA TypeAndChooseKeep == ASSUME IInv, Type \/ Choose PROVE IInv'
<1>1. /\ keys' = keys /\ shown' = shown /\ flight' = flight
      /\ steady' = FALSE
  BY DEF Type, Choose
<1>2. Chosen'
  <2>1. CASE Type
    BY <2>1 DEF IInv, Chosen, Type
  <2>2. CASE Choose
    <3>1. PICK c \in Selections \cup {<<>>} :
              files' = c /\ box' = IF c = <<>> THEN box ELSE Placeholder
      BY <2>2 DEF Choose
    <3> QED  BY <3>1, InputAssumption DEF IInv, Chosen
  <2> QED  BY <2>1, <2>2
<1>3. Asked' /\ ShownIsReviewed' /\ HeldWasPending'
  BY <1>1 DEF IInv, Asked, ShownIsReviewed, HeldWasPending
<1>4. PageShowsKeysSent'
  BY <1>1 DEF IInv, PageShowsKeysSent, Sent
<1> QED  BY <1>2, <1>3, <1>4 DEF IInv

-----------------------------------------------------------------------------
(* The theorems.                                                           *)

\* The invariant holds at first, and every step keeps it.
THEOREM InvariantHolds == Spec => []IInv
<1>1. Init => IInv
  BY InputAssumption DEF Init, IInv, Chosen, Asked, PageShowsKeysSent,
        ShownIsReviewed, HeldWasPending, NoReviews
<1>2. IInv /\ [Next]_vars => IInv'
  <2> SUFFICES ASSUME IInv, [Next]_vars PROVE IInv'
    OBVIOUS
  <2>1. CASE Type \/ Choose
    BY <2>1, TypeAndChooseKeep
  <2>2. CASE Click
    BY <2>2, ClickKeeps
  <2>3. CASE Tick
    BY <2>3, TickKeeps
  <2>4. CASE Serve
    BY <2>4, ServeKeeps
  <2>5. CASE Fail
    BY <2>5, FailKeeps
  <2>6. CASE UNCHANGED vars
    <3>1. /\ files' = files /\ box' = box /\ keys' = keys /\ shown' = shown
          /\ flight' = flight /\ log' = log /\ steady' = steady
      BY <2>6 DEF vars
    <3>2. Inputs' = Inputs /\ Chosen' /\ (Unambiguous' <=> Unambiguous)
      BY <3>1 DEF IInv, Chosen, Inputs, Unambiguous
    <3>3. Asked' /\ ShownIsReviewed'
      BY <3>1, <3>2 DEF IInv, Asked, ShownIsReviewed
    <3>4. PageShowsKeysSent' /\ HeldWasPending'
      BY <3>1, <3>2 DEF IInv, PageShowsKeysSent, HeldWasPending, Sent
    <3> QED  BY <3>2, <3>3, <3>4 DEF IInv
  <2> QED  BY <2>1, <2>2, <2>3, <2>4, <2>5, <2>6 DEF Next
<1> QED  BY <1>1, <1>2, PTL DEF Spec

\* A key held is that of a finding in a file.
LEMMA KeysStay == Spec => []KeysAreKeys
<1>1. Init => KeysAreKeys
  BY DEF Init, KeysAreKeys
<1>2. KeysAreKeys /\ [Next]_vars => KeysAreKeys'
  <2> SUFFICES ASSUME KeysAreKeys, [Next]_vars PROVE KeysAreKeys'
    OBVIOUS
  <2>1. CASE Type \/ Choose \/ Serve \/ Fail \/ UNCHANGED vars
    <3>1. keys' = keys
      BY <2>1 DEF Type, Choose, Serve, Fail, vars
    <3> QED  BY <3>1 DEF KeysAreKeys
  <2>2. CASE Click
    BY <2>2 DEF Click, KeysAreKeys
  <2>3. CASE Tick
    <3>1. PICK n, f, c : keys' = Toggled(Key(n, f), c)
      BY <2>3 DEF Tick
    <3>2. \A k \in keys' : k \in keys \/ k = Key(n, f)
      BY <3>1 DEF Toggled
    <3>3. IsKey(Key(n, f))
      BY DEF IsKey, Key
    <3> QED  BY <3>2, <3>3 DEF KeysAreKeys
  <2> QED  BY <2>1, <2>2, <2>3 DEF Next
<1> QED  BY <1>1, <1>2, PTL DEF Spec

\* Unless a file with a comma in its name is among those ticked, the approvals
\* on the page are those held, however typing, choosing and failing requests
\* interleave with the answers.
THEOREM ApprovalsShownAreHeld == Spec => []PageShowsKeysHeld
<1>1. IInv /\ KeysAreKeys => PageShowsKeysHeld
  <2> SUFFICES ASSUME PageShowsKeysSent, KeysAreKeys,
                      \A k \in keys : AfterCommas[k.name] = k.name
               PROVE  \A n \in DOMAIN shown :
                          shown[n].approved = {f \in shown[n].findings : Key(n, f) \in keys}
    BY DEF IInv, PageShowsKeysHeld
  <2>1. Sent(keys) = keys
    <3>1. \A k \in keys : k = [name |-> AfterCommas[k.name], cwe |-> k.cwe, line |-> k.line]
      BY DEF KeysAreKeys, IsKey, Key
    <3> QED  BY <3>1 DEF Sent
  <2> QED  BY <2>1 DEF PageShowsKeysSent
<1> QED  BY <1>1, KeysStay, InvariantHolds, PTL

\* While nothing else is pasted or chosen, and no two files are mistaken for
\* each other, a gated fix is included only after it was shown pending.
THEOREM IncludedWasPending == Spec => []GatedWasPending
<1>1. IInv => GatedWasPending
  <2> SUFFICES ASSUME IInv, steady, Unambiguous, NEW n \in DOMAIN shown,
                      NEW f \in shown[n].gated \cap shown[n].included
               PROVE  Pending(n, f, shown[n].text) \in log
    BY DEF GatedWasPending, Pending
  <2>1. PICK i \in DOMAIN Inputs : Inputs[i].name = n /\ Inputs[i].text = shown[n].text
    BY DEF IInv, ShownIsReviewed
  <2>2. f \in Findings(Inputs[i].text) /\ f \in shown[n].approved
    BY <2>1 DEF IInv, ShownIsReviewed
  <2>3. Key(n, f) \in Sent(keys)
    BY <2>2 DEF IInv, PageShowsKeysSent
  <2> QED  BY <2>1, <2>2, <2>3 DEF IInv, HeldWasPending
<1> QED  BY <1>1, InvariantHolds, PTL

-----------------------------------------------------------------------------
(* Fixes turn texts into texts.                                            *)

\* The lines that templates add.
BlockLines == UNION {Range(e.new) : e \in UNION {Range(h.edits) : h \in Heuristics}}

FixLines == UNION {Range(Fixes[p].new) : p \in DOMAIN Fixes}

NewLines == BlockLines \cup FixLines

\* A sequence of some lines is one of any kind they are of.
LEMMA SequenceOver ==
    ASSUME NEW s, IsSequence(s), NEW V, Range(s) \subseteq V
    PROVE  s \in Seq(V)
BY SeqMonotonic DEF IsSequence

\* A block replaced by lines of a text's kind leaves a text of this kind.
LEMMA ReplacedIsText ==
    ASSUME NEW V, NEW t \in Seq(V), NEW r \in Seq(V), NEW s, Len(s) \in Nat
    PROVE  ReplaceFirstSubSeq(r, s, t) \in Seq(V)
<1> DEFINE Holds(i) == s \in SubSeqs(SubSeq(t, 1, i))
           n == Len(t)
           First(i) == Holds(i) /\ \A j \in 0 .. i - 1 : ~Holds(j)
           last == CHOOSE i \in 0 .. n : First(i)
           at == last - (Len(s) - 1)
<1>1. n \in Nat /\ SubSeq(t, 1, n) = t /\ \A i \in 1 .. n : t[i] \in V
  BY LenProperties, SubSeqFull, ElementOfSeq
<1>2. CASE s \notin SubSeqs(t)
  BY <1>2 DEF ReplaceFirstSubSeq
<1>3. CASE s \in SubSeqs(t)
  <2> DEFINE T == {i \in 0 .. n : Holds(i)}
  <2>1. n \in T
    <3>1. Holds(n)
      BY <1>1, <1>3
    <3> QED  BY <1>1, <3>1
  <2>2. T \in SUBSET Nat /\ T # {}
    BY <2>1
  <2> HIDE DEF Holds
  <2>3. PICK i \in T : \A j \in T : i <= j
    <3> HIDE DEF T
    <3> QED  BY <2>2, LeastNumber
  <2>4. First(i)
    BY <1>1, <2>3
  <2>5. last \in 0 .. n
    <3> HIDE DEF First
    <3> QED  BY <2>3, <2>4
  <2> HIDE DEF First
  <2>6. IndexFirstSubSeq(s, t) = at
    BY DEF IndexFirstSubSeq, First, Holds
  <2>7. ReplaceFirstSubSeq(r, s, t)
           = SubSeq(t, 1, at - 1) \o r \o SubSeq(t, at + Len(s), n)
    BY <1>3, <2>6 DEF ReplaceFirstSubSeq, ReplaceSubSeqAt
  <2> HIDE DEF last
  <2>8. at - 1 \in Int /\ at - 1 <= n /\ at + Len(s) \in Int /\ at + Len(s) >= 1
    BY <1>1, <2>5
  <2> HIDE DEF at, n
  <2>9. SubSeq(t, 1, at - 1) \in Seq(V)
    <3>1. \A j \in 1 .. at - 1 : t[j] \in V
      BY <1>1, <2>8
    <3> QED  BY <2>8, <3>1, SubSeqProperties
  <2>10. SubSeq(t, at + Len(s), n) \in Seq(V)
    <3>1. \A j \in at + Len(s) .. n : t[j] \in V
      BY <1>1, <2>8
    <3> QED  BY <1>1, <2>8, <3>1, SubSeqProperties
  <2> QED  BY <2>7, <2>9, <2>10, ConcatProperties
<1> QED  BY <1>2, <1>3

\* So do the blocks of a heuristic, one after the other.
LEMMA AllReplacedIsText ==
    ASSUME NEW V, NEW text \in Seq(V), NEW edits, IsSequence(edits),
           \A e \in Range(edits) : e.new \in Seq(V) /\ Len(e.old) \in Nat
    PROVE  FoldLeft(Replaced, text, edits) \in Seq(V)
<1> DEFINE n == Len(edits)
           S == 1 .. n
           A == Seq(V)
           first == [s \in SUBSET S |-> Max(s)]
           step == [i \in S |-> [t \in A |-> Replaced(t, edits[i])]]
           Folds(g) == g = [s \in SUBSET S |->
                              IF s = {} THEN text
                              ELSE Replaced(g[s \ {Max(s)}], edits[Max(s)])]
           fold == CHOOSE g : Folds(g)
<1>1. n \in Nat /\ DOMAIN edits = S
  BY LenProperties DEF IsSequence
<1>2. FoldLeft(Replaced, text, edits) = fold[S]
  BY <1>1 DEF FoldLeft, MapThenFoldSet
<1> HIDE DEF n
<1>3. \A s \in (SUBSET S) \ {{}} : Max(s) \in s
  BY <1>1, MaxIsGreatest
<1>4. \A i \in S, t \in A : Replaced(t, edits[i]) \in A
  <2> SUFFICES ASSUME NEW i \in S, NEW t \in A
               PROVE  Replaced(t, edits[i]) \in A
    OBVIOUS
  <2>1. edits[i].new \in Seq(V) /\ Len(edits[i].old) \in Nat
    BY <1>1 DEF Range
  <2> QED  BY <2>1, ReplacedIsText DEF Replaced
<1>5. IsFiniteSet(S)
  BY <1>1, FS_Interval
<1> HIDE DEF S, A
<1>6. PICK g \in [SUBSET S -> A] : IsFold(g, text, step, first, S)
  <2>1. \A i \in S, t \in A : step[i][t] \in A
    BY <1>4
  <2>2. Picks(first, S)
    BY <1>3 DEF Picks
  <2>3. text \in A
    BY DEF A
  <2> HIDE DEF step, first
  <2> QED  BY <1>5, <2>1, <2>2, <2>3, FoldExists
<1>7. ASSUME NEW s \in SUBSET S, s # {}
      PROVE  g[s] = Replaced(g[s \ {Max(s)}], edits[Max(s)])
  <2>1. first[s] = Max(s) /\ Max(s) \in S /\ g[s \ {Max(s)}] \in A
    BY <1>3, <1>7
  <2>2. g[s] = step[Max(s)][g[s \ {Max(s)}]]
    BY <1>6, <1>7, <2>1 DEF IsFold
  <2> QED  BY <2>1, <2>2
<1>8. Folds(g)
  <2>1. g[{}] = text
    BY <1>6 DEF IsFold
  <2> QED  BY <1>7, <2>1
<1>9. Folds(fold)
  <2> HIDE DEF Folds
  <2> QED  BY <1>8
<1> HIDE DEF fold
<1> DEFINE T == {i \in 0 .. n : fold[1 .. i] \in A}
<1>10. 0 \in T
  <2>1. 1 .. 0 = {} /\ fold[{}] = text
    BY <1>9
  <2> QED  BY <1>1, <2>1 DEF A
<1>11. ASSUME NEW i \in 0 .. n - 1, i \in T
       PROVE  i + 1 \in T
  <2> DEFINE k == i + 1
  <2>1. 1 .. k \in SUBSET S /\ k \in 1 .. k /\ k \in 0 .. n /\ k \in S
    BY <1>1 DEF S
  <2>2. Max(1 .. k) = k
    <3>1. Max(1 .. k) \in 1 .. k /\ \A j \in 1 .. k : j <= Max(1 .. k)
      BY <1>1, <2>1, MaxIsGreatest DEF S
    <3> QED  BY <2>1, <3>1
  <2>3. (1 .. k) \ {k} = 1 .. i
    BY <1>1
  <2>4. fold[1 .. k] = Replaced(fold[1 .. i], edits[k])
    BY <1>9, <2>1, <2>2, <2>3
  <2> HIDE DEF k
  <2> QED  BY <1>4, <1>11, <2>1, <2>4 DEF k
<1>12. n \in T
  <2> HIDE DEF T
  <2>1. 0 .. n \subseteq T
    BY <1>1, <1>10, <1>11, CountingUp
  <2> QED  BY <1>1, <2>1
<1> QED  BY <1>2, <1>12 DEF S, A

\* What a template makes of a text has the text's lines and the templates'.
LEMMA TemplatesMakeTexts ==
    ASSUME NEW V, NewLines \subseteq V, NEW text \in Seq(V), NEW f,
           NEW t \in Templates(f, text)
    PROVE  t \in Seq(V)
<1>1. CASE t \in Heuristic(f, text)
  <2>1. PICK h \in Heuristics : t = FoldLeft(Replaced, text, h.edits)
    BY <1>1 DEF Heuristic
  <2>2. IsSequence(h.edits)
    BY TemplatesAssumption
  <2>3. \A e \in Range(h.edits) : e.new \in Seq(V) /\ Len(e.old) \in Nat
    <3> SUFFICES ASSUME NEW e \in Range(h.edits)
                 PROVE  e.new \in Seq(V) /\ Len(e.old) \in Nat
      OBVIOUS
    <3>1. IsSequence(e.old) /\ IsSequence(e.new)
      BY TemplatesAssumption
    <3>2. Range(e.new) \subseteq BlockLines
      BY DEF BlockLines
    <3>3. Range(e.new) \subseteq V
      BY <3>2 DEF NewLines
    <3>4. Len(e.old) \in Nat
      BY <3>1, LenProperties DEF IsSequence
    <3> QED  BY <3>1, <3>3, <3>4, SequenceOver
  <2> QED  BY <2>1, <2>2, <2>3, AllReplacedIsText
<1>2. CASE t \in Generic(f, text)
  <2>1. PICK x \in LineFix(f, text) :
            t = SubSeq(text, 1, f.line - 1) \o x.new \o SubSeq(text, f.line + 1, Len(text))
    BY <1>2 DEF Generic
  <2> DEFINE i == f.line
             n == Len(text)
  <2>2. PICK p \in DOMAIN Fixes : x = Fixes[p] /\ i \in DOMAIN text
    BY <2>1 DEF LineFix
  <2>3. x.new \in Seq(V)
    <3>1. IsSequence(x.new)
      BY <2>2, TemplatesAssumption
    <3>2. Range(Fixes[p].new) \subseteq NewLines
      <4>1. Range(Fixes[p].new) \subseteq FixLines
        BY Zenon DEF FixLines
      <4> QED  BY <4>1 DEF NewLines
    <3>3. Range(x.new) \subseteq V
      BY <2>2, <3>2
    <3> QED  BY <3>1, <3>3, SequenceOver
  <2>4. n \in Nat /\ i \in 1 .. n /\ \A j \in 1 .. n : text[j] \in V
    BY <2>2, LenProperties, ElementOfSeq
  <2> HIDE DEF i, n
  <2>5. SubSeq(text, 1, i - 1) \in Seq(V)
    <3>1. i - 1 \in Int /\ \A j \in 1 .. i - 1 : text[j] \in V
      BY <2>4
    <3> QED  BY <3>1, SubSeqProperties
  <2>6. SubSeq(text, i + 1, n) \in Seq(V)
    <3>1. i + 1 \in Int /\ n \in Int /\ \A j \in i + 1 .. n : text[j] \in V
      BY <2>4
    <3> QED  BY <3>1, SubSeqProperties
  <2>7. SubSeq(text, 1, i - 1) \o x.new \o SubSeq(text, i + 1, n) \in Seq(V)
    BY <2>3, <2>5, <2>6, ConcatProperties
  <2> QED  BY <2>1, <2>7 DEF i, n
<1> QED  BY <1>1, <1>2 DEF Templates

\* The text of a file and what its fixes make of it are texts of one kind.
LEMMA FixesMakeTexts ==
    ASSUME NEW file \in Files
    PROVE  \E V : /\ NewLines \subseteq V
                  /\ file.text \in Seq(V)
<1> DEFINE V == Range(file.text) \cup NewLines
<1>1. IsSequence(file.text)
  BY InputAssumption DEF IsSequence
<1>2. file.text \in Seq(V)
  BY <1>1, SequenceOver
<1> QED  BY <1>2

\* The diff made for any fix of any text of any file replays to the fixed
\* text, unless one of their lines is mistaken on the way.
LEMMA PatchDiffsReplay ==
    ASSUME NEW p \in PatchDiffs, Unmistakable(p.text, p.diff)
    PROVE  ApplyDiff(p.text, p.diff) = p.fixed
<1>1. PICK file \in Files : \E f \in Findings(file.text) : \E t \in Templates(f, file.text) :
          p = [text |-> file.text, fixed |-> t, diff |-> Diff(file.text, t)]
  BY DEF PatchDiffs
<1>2. PICK f \in Findings(file.text) : \E t \in Templates(f, file.text) :
          p = [text |-> file.text, fixed |-> t, diff |-> Diff(file.text, t)]
  BY <1>1
<1>3. PICK t \in Templates(f, file.text) :
          p = [text |-> file.text, fixed |-> t, diff |-> Diff(file.text, t)]
  BY <1>2
<1>4. p.text = file.text /\ p.fixed = t /\ p.diff = Diff(file.text, t)
  BY <1>3
<1>5. PICK V : NewLines \subseteq V /\ file.text \in Seq(V)
  BY FixesMakeTexts
<1>6. t \in Seq(V)
  BY <1>5, TemplatesMakeTexts
<1> QED  BY <1>4, <1>5, <1>6, DiffReplays

\* The diff shown for a fix, replayed on the file's text, is the fixed text, for
\* any texts, rules and templates, unless one of their lines is mistaken.
THEOREM DiffsShownApply == Spec => []DiffsApply
<1>1. DiffsApply
  BY PatchDiffsReplay DEF DiffsApply
<1> QED  BY <1>1, PTL

-----------------------------------------------------------------------------
(* Type correctness.                                                       *)

\* A text has finitely many findings, on its lines and of the rules.
LEMMA FindingsAreFinite ==
    ASSUME NEW V, NEW text \in Seq(V)
    PROVE  /\ IsFiniteSet(Findings(text))
           /\ \A f \in Findings(text) : /\ f.line \in DOMAIN text /\ f.line \in Nat
                                        /\ f.rule \in 1 .. Len(Rules)
           /\ Len(Rules) \in Nat
<1> DEFINE Made(p) == [line |-> p[1], rule |-> p[2], cwe |-> Rules[p[2]].cwe,
                       scope |-> Scope(text, p[1])]
           make == [p \in Matches(text) |-> Made(p)]
<1>1. Len(text) \in Nat /\ DOMAIN text = 1 .. Len(text)
  BY LenProperties
<1>2. Len(Rules) \in Nat /\ DOMAIN Rules = 1 .. Len(Rules)
  BY TemplatesAssumption, LenProperties DEF IsSequence
<1>3. IsFiniteSet(DOMAIN text) /\ IsFiniteSet(DOMAIN Rules)
  BY <1>1, <1>2, FS_Interval
<1>4. IsFiniteSet((DOMAIN text) \X (DOMAIN Rules))
  BY <1>3, FS_Product
<1>5. IsFiniteSet(Matches(text))
  BY <1>4, FS_Subset DEF Matches
<1>6. Findings(text) = {Made(p) : p \in Matches(text)}
  BY DEF Findings
<1>7. \A f \in Findings(text) : \E p \in Matches(text) : f.line = p[1] /\ f.rule = p[2]
  BY <1>6
<1> HIDE DEF Made
<1>8. make \in Surjection(Matches(text), Findings(text))
  BY <1>6 DEF Surjection
<1>9. IsFiniteSet(Findings(text))
  <2> HIDE DEF make
  <2> QED  BY <1>5, <1>8, FS_Surjection
<1>10. \A p \in Matches(text) : p[1] \in DOMAIN text /\ p[2] \in DOMAIN Rules
  BY DEF Matches
<1>11. \A f \in Findings(text) : f.line \in DOMAIN text /\ f.rule \in DOMAIN Rules
  BY <1>7, <1>10
<1> QED  BY <1>1, <1>2, <1>9, <1>11

\* apply_all() comes to one of the findings last.
LEMMA LastOfIsOne ==
    ASSUME NEW V, NEW text \in Seq(V), NEW fs \in SUBSET Findings(text), fs # {}
    PROVE  /\ LastOf(fs) \in fs
           /\ \A g \in fs : \/ g.line > LastOf(fs).line
                            \/ g.line = LastOf(fs).line /\ g.rule <= LastOf(fs).rule
<1>1. \A f \in fs : f.line \in Nat /\ f.rule \in 1 .. Len(Rules)
  BY FindingsAreFinite
<1>2. Len(Rules) \in Nat
  BY FindingsAreFinite
<1> DEFINE Lines == {f.line : f \in fs}
<1>3. Lines \in SUBSET Nat /\ Lines # {}
  BY <1>1
<1>4. PICK n \in Lines : \A m \in Lines : n <= m
  <2> HIDE DEF Lines
  <2> QED  BY <1>3, LeastNumber
<1> DEFINE There == {f.rule : f \in {g \in fs : g.line = n}}
<1>5. There \in SUBSET (1 .. Len(Rules)) /\ There # {}
  BY <1>1, <1>4
<1>6. Max(There) \in There /\ \A r \in There : r <= Max(There)
  <2> HIDE DEF There
  <2> QED  BY <1>2, <1>5, MaxIsGreatest
<1>7. PICK f \in fs : f.line = n /\ f.rule = Max(There)
  <2> DEFINE r == Max(There)
  <2>1. r \in There
    BY <1>6
  <2> HIDE DEF r
  <2>2. \E f \in fs : f.line = n /\ f.rule = r
    BY <2>1
  <2> QED  BY <2>2 DEF r
<1>8. \A g \in fs : g.line > f.line \/ (g.line = f.line /\ g.rule <= f.rule)
  <2> SUFFICES ASSUME NEW g \in fs
               PROVE  g.line > f.line \/ (g.line = f.line /\ g.rule <= f.rule)
    OBVIOUS
  <2>1. n <= g.line /\ n \in Nat /\ g.line \in Nat
    BY <1>1, <1>3, <1>4
  <2>2. g.line = n => g.rule \in There
    OBVIOUS
  <2> HIDE DEF There, Lines
  <2>3. g.line = n => g.rule <= f.rule
    BY <1>6, <1>7, <2>2
  <2> QED  BY <1>7, <2>1, <2>3
<1> QED  BY <1>8 DEF LastOf

\* apply_all() goes through the findings one by one.
FixedInTurn(iter, fs, text) ==
    /\ iter[{}] = [text |-> text, applied |-> {}]
    /\ \A s \in (SUBSET fs) \ {{}} : iter[s] = Applied(LastOf(s), iter[s \ {LastOf(s)}])

\* Its result is that of the last round.
LEMMA ApplyAllInTurn ==
    ASSUME NEW V, NewLines \subseteq V, NEW text \in Seq(V), NEW fs \in SUBSET Findings(text)
    PROVE  \E iter : FixedInTurn(iter, fs, text) /\ ApplyAll(fs, text) = iter[fs]
<1> DEFINE P == SUBSET fs
           A == [text : Seq(V), applied : P]
           base == [text |-> text, applied |-> {}]
           first == [s \in SUBSET fs |-> LastOf(s)]
           step == [f \in fs |-> [d \in A |-> Applied(f, d)]]
           Folds(g) == g = [s \in SUBSET fs |->
                              IF s = {} THEN base ELSE Applied(LastOf(s), g[s \ {LastOf(s)}])]
           fold == CHOOSE g : Folds(g)
<1>1. ApplyAll(fs, text) = fold[fs]
  BY DEF ApplyAll, MapThenFoldSet
<1>2. \A s \in (SUBSET fs) \ {{}} : LastOf(s) \in s
  BY LastOfIsOne
<1>3. IsFiniteSet(fs)
  BY FindingsAreFinite, FS_Subset
<1>4. base \in A
  OBVIOUS
<1>5. \A f \in fs, d \in A : Applied(f, d) \in A
  <2> SUFFICES ASSUME NEW f \in fs, NEW d \in A
               PROVE  Applied(f, d) \in A
    OBVIOUS
  <2> DEFINE made == Templates(f, d.text) \ {d.text}
             t == CHOOSE x \in made : TRUE
  <2>1. d.text \in Seq(V) /\ d.applied \in P
    OBVIOUS
  <2>2. \A x \in made : x \in Seq(V)
    BY <2>1, TemplatesMakeTexts
  <2>3. made = {} => Applied(f, d) = d
    BY DEF Applied
  <2>4. made # {} => Applied(f, d) = [text |-> t, applied |-> d.applied \cup {f}]
    BY DEF Applied
  <2> HIDE DEF made
  <2>5. made # {} => t \in Seq(V)
    BY <2>2
  <2>6. d.applied \cup {f} \in P
    BY <2>1
  <2> DEFINE u == d.applied \cup {f}
  <2>7. made # {} => Applied(f, d) = [text |-> t, applied |-> u] /\ t \in Seq(V) /\ u \in P
    BY <2>4, <2>5, <2>6
  <2> HIDE DEF t, u, P
  <2>8. made # {} => [text |-> t, applied |-> u] \in A
    BY <2>7
  <2> HIDE DEF A
  <2> QED  BY <2>3, <2>7, <2>8
<1> HIDE DEF A, base
<1>6. PICK g \in [SUBSET fs -> A] : IsFold(g, base, step, first, fs)
  <2>1. \A f \in fs, d \in A : step[f][d] \in A
    BY <1>5
  <2>2. Picks(first, fs)
    BY <1>2 DEF Picks
  <2> HIDE DEF step, first, P
  <2> QED  BY <1>3, <1>4, <2>1, <2>2, FoldExists
<1>7. ASSUME NEW s \in SUBSET fs, s # {}
      PROVE  g[s] = Applied(LastOf(s), g[s \ {LastOf(s)}])
  <2>1. first[s] = LastOf(s) /\ LastOf(s) \in fs /\ g[s \ {LastOf(s)}] \in A
    BY <1>2, <1>7
  <2>2. g[s] = step[LastOf(s)][g[s \ {LastOf(s)}]]
    BY <1>6, <1>7, <2>1 DEF IsFold
  <2> QED  BY <2>1, <2>2
<1>8. Folds(g)
  <2>1. g[{}] = base
    BY <1>6 DEF IsFold
  <2> QED  BY <1>7, <2>1
<1>9. Folds(fold)
  <2> HIDE DEF Folds
  <2> QED  BY <1>8
<1> HIDE DEF fold
<1>10. FixedInTurn(fold, fs, text)
  BY <1>9 DEF FixedInTurn, base
<1> QED  BY <1>1, <1>10

\* The fixes that apply_all() lists are among those it is given.
LEMMA ApplyAllLists ==
    ASSUME NEW V, NewLines \subseteq V, NEW text \in Seq(V), NEW fs \in SUBSET Findings(text)
    PROVE  ApplyAll(fs, text).applied \subseteq fs
<1>1. PICK iter : FixedInTurn(iter, fs, text) /\ ApplyAll(fs, text) = iter[fs]
  BY ApplyAllInTurn
<1>2. IsFiniteSet(fs)
  BY FindingsAreFinite, FS_Subset
<1> DEFINE B == {s \in SUBSET fs : ~(iter[s].applied \subseteq fs)}
<1>3. B = {}
  <2> SUFFICES ASSUME B # {}
               PROVE  FALSE
    OBVIOUS
  <2>1. B \in SUBSET (SUBSET fs)
    OBVIOUS
  <2>2. PICK s \in B : \A x \in s : s \ {x} \notin B
    <3> HIDE DEF B
    <3> QED  BY <1>2, <2>1, LeastSubset
  <2>3. s # {}
    <3>1. iter[{}].applied = {}
      <4>1. iter[{}] = [text |-> text, applied |-> {}]
        BY <1>1 DEF FixedInTurn
      <4> QED  BY <4>1
    <3> QED  BY <2>2, <3>1
  <2> DEFINE x == LastOf(s)
             d == iter[s \ {x}]
  <2>4. x \in s /\ x \in fs
    BY <2>3, LastOfIsOne
  <2>5. iter[s] = Applied(x, d)
    BY <1>1, <2>3 DEF FixedInTurn
  <2> HIDE DEF x
  <2>6. d.applied \subseteq fs
    BY <2>2, <2>4
  <2> HIDE DEF d
  <2>7. Applied(x, d).applied \subseteq d.applied \cup {x}
    BY DEF Applied
  <2> QED  BY <2>4, <2>5, <2>6, <2>7
<1> QED  BY <1>1, <1>3

\* What ApprovalTypeOK says of a review, and of the rest.
ReviewTypeOK(n, v) ==
    /\ [name |-> n, text |-> v.text] \in Files
    /\ \A f \in v.findings : f.line \in DOMAIN v.text
    /\ v.applied \subseteq v.included
    /\ v.included \subseteq v.fixable
    /\ v.fixable \cup v.approved \subseteq v.findings

KeysOK == \A k \in keys : k.name \in Names

FlightOK ==
    /\ Cardinality(flight) <= 1
    /\ \A q \in flight : q.keys \subseteq keys /\ Range(q.files) \subseteq Files

\* What is shown under a name is a review of a file of that name.
IsReview(n, v) ==
    \E file \in Files : \E ks, modelled : file.name = n /\ v = Review(file, ks, modelled)

ShownOK == \A n \in DOMAIN shown : IsReview(n, shown[n])

LogOK == \A d \in log : d.outcome \in {"suggested_included", "pending_review"}

BooleansOK == locked \in BOOLEAN /\ steady \in BOOLEAN

TypeParts == BooleansOK /\ KeysOK /\ FlightOK /\ ShownOK /\ LogOK

\* A review is what ApprovalTypeOK says.
LEMMA ReviewsAreTyped ==
    ASSUME NEW file \in Files, NEW ks, NEW modelled
    PROVE  ReviewTypeOK(file.name, Review(file, ks, modelled))
<1> DEFINE v == Review(file, ks, modelled)
<1>1. PICK V : NewLines \subseteq V /\ file.text \in Seq(V)
  BY FixesMakeTexts
<1>2. /\ v.text = file.text /\ v.findings = Findings(file.text)
      /\ v.applied = ApplyAll(v.included, file.text).applied
      /\ v.included \subseteq v.fixable
      /\ v.fixable \subseteq v.findings /\ v.approved \subseteq v.findings
  BY DEF Review
<1> HIDE DEF v
<1>3. v.applied \subseteq v.included
  <2> DEFINE fs == v.included
  <2>1. fs \in SUBSET Findings(file.text)
    BY <1>2
  <2> HIDE DEF fs
  <2>2. ApplyAll(fs, file.text).applied \subseteq fs
    BY <1>1, <2>1, ApplyAllLists
  <2> QED  BY <1>2, <2>2 DEF fs
<1>4. \A f \in v.findings : f.line \in DOMAIN v.text
  BY <1>1, <1>2, FindingsAreFinite
<1>5. [name |-> file.name, text |-> file.text] = file
  <2>1. file \in [name : DOMAIN AfterCommas, text : Seq(Range(file.text))]
    BY InputAssumption
  <2> QED  BY <2>1
<1>6. [name |-> file.name, text |-> v.text] \in Files
  BY <1>2, <1>5
<1>7. ReviewTypeOK(file.name, v)
  BY <1>2, <1>3, <1>4, <1>6 DEF ReviewTypeOK
<1> QED  BY <1>7 DEF v

\* A request asks about files, with no more keys than those held.
LEMMA RequestIsTyped ==
    ASSUME Chosen, RunAnalysis(keys')
    PROVE  FlightOK' /\ ShownOK'
<1>1. shown' = NoReviews /\ \A q \in flight' : q.files = Inputs /\ q.keys = keys'
  BY DEF RunAnalysis
<1>2. Range(Inputs) \subseteq Files
  <2>1. Inputs \in Seq(Files)
    BY InputsAreFiles
  <2>2. \A i \in DOMAIN Inputs : Inputs[i] \in Files
    BY <2>1, LenProperties, ElementOfSeq
  <2> QED  BY <2>2 DEF Range
<1>3. Cardinality(flight') <= 1
  <2>1. CASE Inputs = <<>>
    <3>1. flight' = {}
      BY <2>1 DEF RunAnalysis
    <3> QED  BY <3>1, FS_EmptySet
  <2>2. CASE Inputs # <<>>
    <3> DEFINE q == [files |-> Inputs, keys |-> keys']
    <3>1. flight' = {q}
      BY <2>2 DEF RunAnalysis
    <3>2. Cardinality({q}) = 1
      BY FS_Singleton, Zenon
    <3> HIDE DEF q
    <3> QED  BY <3>1, <3>2
  <2> QED  BY <2>1, <2>2
<1>4. DOMAIN shown' = {}
  BY <1>1 DEF NoReviews
<1> QED  BY <1>1, <1>2, <1>3, <1>4 DEF FlightOK, ShownOK

\* A record has one of two outcomes.
LEMMA DecisionsAreTyped ==
    ASSUME NEW n, NEW v, NEW fs, NEW d \in Decisions(n, v, fs)
    PROVE  d.outcome \in {"suggested_included", "pending_review"}
  BY DEF Decisions

\* So have all the records of a request.
LEMMA RecordsAreTyped ==
    ASSUME NEW q, NEW reviews, NEW n, NEW d \in Recorded(q, reviews, n)
    PROVE  d.outcome \in {"suggested_included", "pending_review"}
<1>1. \E i \in 1 .. n : d \in Decisions(q.files[i].name, reviews[i], reviews[i].findings)
  BY DEF Recorded
<1> QED  BY <1>1, DecisionsAreTyped

\* Every step preserves what is said of the page, the request and the ledger.
LEMMA TypeStep ==
    ASSUME IInv, TypeParts, [Next]_vars
    PROVE  TypeParts'
<1> USE DEF TypeParts
<1>1. CASE Type \/ Choose
  <2>1. keys' = keys /\ shown' = shown /\ flight' = flight /\ log' = log /\ steady' = FALSE
    BY <1>1 DEF Type, Choose
  <2>2. locked' \in BOOLEAN
    BY <1>1 DEF Type, Choose, BooleansOK
  <2> QED  BY <2>1, <2>2 DEF BooleansOK, KeysOK, FlightOK, ShownOK, LogOK
<1>2. CASE Click
  <2>1. keys' = {} /\ log' = {} /\ steady' = TRUE /\ locked' = locked /\ RunAnalysis(keys')
    BY <1>2 DEF Click, RunAnalysis
  <2>2. FlightOK' /\ ShownOK'
    BY <2>1, RequestIsTyped DEF IInv
  <2> QED  BY <2>1, <2>2 DEF BooleansOK, KeysOK, LogOK
<1>3. CASE Tick
  <2>1. log' = log /\ steady' = steady /\ locked' = locked /\ RunAnalysis(keys')
    BY <1>3 DEF Tick, RunAnalysis
  <2>2. PICK n \in DOMAIN shown : \E f : \E c : keys' = Toggled(Key(n, f), c)
    BY <1>3 DEF Tick
  <2>3. \A k \in keys' : k \in keys \/ k.name = n
    BY <2>2 DEF Toggled, Key
  <2>4. KeysOK'
    <3>1. n \in Names
      BY <2>2 DEF ShownOK, IsReview, Names
    <3> QED  BY <2>3, <3>1 DEF KeysOK
  <2>5. FlightOK' /\ ShownOK'
    BY <2>1, RequestIsTyped DEF IInv
  <2> QED  BY <2>1, <2>4, <2>5 DEF BooleansOK, LogOK
<1>4. CASE Serve
  <2>1. flight' = {} /\ keys' = keys /\ steady' = steady /\ locked' = locked
    BY <1>4 DEF Serve
  <2>2. PICK q \in flight : \E modelled : \A n \in DOMAIN shown' : \E i \in DOMAIN q.files :
            q.files[i].name = n /\ shown'[n] = Review(q.files[i], Sent(q.keys), modelled)
    BY <1>4, ServeFacts
  <2>3. \A i \in DOMAIN q.files : q.files[i] \in Files
    BY DEF FlightOK, Range
  <2>4. ShownOK'
    <3> SUFFICES ASSUME NEW n \in DOMAIN shown'
                 PROVE  IsReview(n, shown'[n])
      BY DEF ShownOK
    <3>1. \E modelled : \E i \in DOMAIN q.files :
             q.files[i].name = n /\ shown'[n] = Review(q.files[i], Sent(q.keys), modelled)
      BY <2>2
    <3>2. PICK modelled : \E i \in DOMAIN q.files :
             q.files[i].name = n /\ shown'[n] = Review(q.files[i], Sent(q.keys), modelled)
      BY <3>1
    <3>3. PICK i \in DOMAIN q.files :
             q.files[i].name = n /\ shown'[n] = Review(q.files[i], Sent(q.keys), modelled)
      BY <3>2
    <3> QED  BY <2>3, <3>3 DEF IsReview
  <2>5. LogOK'
    <3>1. PICK p \in flight : \E modelled \in Modelled(p) :
              log' = log \cup Recorded(p, Reviews(p, modelled), Len(p.files))
      BY <1>4 DEF Serve
    <3>2. PICK modelled \in Modelled(p) :
              log' = log \cup Recorded(p, Reviews(p, modelled), Len(p.files))
      BY <3>1
    <3> QED  BY <3>2, RecordsAreTyped DEF LogOK
  <2>6. FlightOK'
    BY <2>1, FS_EmptySet DEF FlightOK
  <2> QED  BY <2>1, <2>4, <2>5, <2>6 DEF BooleansOK, KeysOK
<1>5. CASE Fail
  <2>1. /\ shown' = NoReviews /\ flight' = {} /\ keys' = keys
        /\ steady' = steady /\ locked' = locked
    BY <1>5 DEF Fail
  <2>2. LogOK'
    <3>1. PICK q \in flight : \E modelled \in Modelled(q), i \in DOMAIN q.files :
              LET reviews == Reviews(q, modelled)
                  before  == log \cup Recorded(q, reviews, i - 1)
              IN \/ log' = before
                 \/ \E f \in reviews[i].findings :
                       log' = before \cup Decisions(q.files[i].name, reviews[i],
                                                   UpTo(f, reviews[i].findings))
      BY <1>5 DEF Fail
    <3>2. \E reviews, i, n, fs :
             log' \subseteq log \cup Recorded(q, reviews, i - 1)
                                \cup Decisions(n, reviews[i], fs)
      BY <3>1
    <3> QED  BY <3>2, RecordsAreTyped, DecisionsAreTyped DEF LogOK
  <2>3. DOMAIN shown' = {}
    BY <2>1 DEF NoReviews
  <2>4. FlightOK' /\ ShownOK'
    BY <2>1, <2>3, FS_EmptySet DEF FlightOK, ShownOK
  <2> QED  BY <2>1, <2>2, <2>4 DEF BooleansOK, KeysOK
<1>6. CASE UNCHANGED vars
  BY <1>6 DEF vars, BooleansOK, KeysOK, FlightOK, ShownOK, LogOK
<1> QED  BY <1>1, <1>2, <1>3, <1>4, <1>5, <1>6 DEF Next

\* So it holds of every state.
LEMMA TypePartsHold == Spec => []TypeParts
<1>1. Init => TypeParts
  <2> SUFFICES ASSUME Init
               PROVE  TypeParts
    OBVIOUS
  <2>1. DOMAIN shown = {} /\ flight = {} /\ keys = {} /\ log = {}
    BY DEF Init, NoReviews
  <2>2. FlightOK
    BY <2>1, FS_EmptySet DEF FlightOK
  <2> QED  BY <2>1, <2>2 DEF Init, TypeParts, BooleansOK, KeysOK, ShownOK, LogOK
<1>2. IInv /\ TypeParts /\ [Next]_vars => TypeParts'
  BY TypeStep
<1> QED  BY <1>1, <1>2, InvariantHolds, PTL DEF Spec

\* Everything on the page and in flight is about files the operator can choose
\* or paste, findings are on lines of their text, and what is listed as applied
\* was included, which only what has a fix is.
THEOREM ApprovalIsTyped == Spec => []ApprovalTypeOK
<1>1. IInv /\ TypeParts => ApprovalTypeOK
  <2> SUFFICES ASSUME IInv, TypeParts
               PROVE  ApprovalTypeOK
    OBVIOUS
  <2>1. \A n \in DOMAIN shown : n \in Names /\ ReviewTypeOK(n, shown[n])
    BY ReviewsAreTyped DEF TypeParts, ShownOK, IsReview, Names
  <2> QED  BY <2>1 DEF IInv, Chosen, TypeParts, BooleansOK, KeysOK, FlightOK, ReviewTypeOK,
                       LogOK, ApprovalTypeOK
<1> QED  BY <1>1, InvariantHolds, TypePartsHold, PTL

-----------------------------------------------------------------------------
(* Bottom-up.                                                              *)

\* The template that would be a finding's, and whether it is.
Spot(f, t) == <<f.cwe, t[f.line]>>

Fits(f, t) ==
    /\ f.line \in DOMAIN t
    /\ Spot(f, t) \in DOMAIN Fixes
    /\ f.line = Len(t) \/ t[f.line + 1] \notin Fixes[Spot(f, t)].unless

\* LineFix() by these.
LEMMA LineFixIs ==
    ASSUME NEW f, NEW t
    PROVE  /\ Fits(f, t) => LineFix(f, t) = {Fixes[Spot(f, t)]}
           /\ ~Fits(f, t) => LineFix(f, t) = {}
<1> DEFINE made == {q \in DOMAIN Fixes : /\ f.line \in DOMAIN t
                                         /\ q = <<f.cwe, t[f.line]>>
                                         /\ \/ f.line = Len(t)
                                            \/ t[f.line + 1] \notin Fixes[q].unless}
<1>1. LineFix(f, t) = {Fixes[p] : p \in made}
  BY DEF LineFix
<1>2. CASE Fits(f, t)
  <2>1. made = {Spot(f, t)}
    BY <1>2 DEF Fits, Spot
  <2> HIDE DEF made
  <2> QED  BY <1>1, <1>2, <2>1
<1>3. CASE ~Fits(f, t)
  <2>1. made = {}
    BY <1>3 DEF Fits, Spot
  <2> HIDE DEF made
  <2> QED  BY <1>1, <1>3, <2>1
<1> QED  BY <1>2, <1>3

\* Of the findings on a line, one CWE has one that could have a template.
LEMMA OneFits ==
    ASSUME NEW V, NEW text \in Seq(V), NEW f \in Findings(text), NEW g \in Findings(text),
           f.line = g.line, f.cwe = g.cwe, Spot(f, text) \in DOMAIN Fixes
    PROVE  f = g
<1>1. PICK p \in Matches(text) :
          f = [line |-> p[1], rule |-> p[2], cwe |-> Rules[p[2]].cwe, scope |-> Scope(text, p[1])]
  BY DEF Findings
<1>2. PICK q \in Matches(text) :
          g = [line |-> q[1], rule |-> q[2], cwe |-> Rules[q[2]].cwe, scope |-> Scope(text, q[1])]
  BY DEF Findings
<1>3. /\ p[2] \in DOMAIN Rules /\ text[p[1]] \in Rules[p[2]].hits
      /\ q[2] \in DOMAIN Rules /\ text[q[1]] \in Rules[q[2]].hits
      /\ p[1] = q[1] /\ Rules[p[2]].cwe = Rules[q[2]].cwe
      /\ Spot(f, text) = <<Rules[p[2]].cwe, text[p[1]]>>
  <2>1. f.line = p[1] /\ g.line = q[1] /\ f.cwe = Rules[p[2]].cwe /\ g.cwe = Rules[q[2]].cwe
    BY <1>1, <1>2
  <2> QED  BY <2>1 DEF Matches, Spot
<1>4. p[2] = q[2]
  <2> DEFINE i == p[2]
             j == q[2]
             at == Spot(f, text)
  <2>1. /\ i \in DOMAIN Rules /\ j \in DOMAIN Rules /\ at \in DOMAIN Fixes
        /\ Rules[i].cwe = at[1] /\ at[2] \in Rules[i].hits
        /\ Rules[j].cwe = at[1] /\ at[2] \in Rules[j].hits
    BY <1>3
  <2> HIDE DEF i, j, at
  <2>2. i = j
    BY <2>1, FixesAssumption
  <2> QED  BY <2>2 DEF i, j
<1> QED  BY <1>1, <1>2, <1>3, <1>4

\* Of the findings on a line, at most one has a template.
LEMMA OneFix ==
    ASSUME NEW V, NEW text \in Seq(V), NEW f \in Findings(text), NEW g \in Findings(text),
           f.line = g.line, Fits(f, text), Fits(g, text)
    PROVE  f = g
<1>1. Spot(f, text) \in DOMAIN Fixes /\ Spot(g, text) \in DOMAIN Fixes
  BY DEF Fits
<1>2. Spot(f, text)[2] = Spot(g, text)[2] /\ Spot(f, text)[1] = f.cwe /\ Spot(g, text)[1] = g.cwe
  BY DEF Spot
<1>3. f.cwe = g.cwe
  <2> DEFINE p == Spot(f, text)
             q == Spot(g, text)
  <2>1. p \in DOMAIN Fixes /\ q \in DOMAIN Fixes /\ p[2] = q[2]
    BY <1>1, <1>2
  <2> HIDE DEF p, q
  <2>2. p[1] = q[1]
    BY <2>1, FixesAssumption
  <2> QED  BY <1>2, <2>2 DEF p, q
<1> QED  BY <1>1, <1>3, OneFits

\* Merged(), line by line.
RowOf(there, text, i) ==
    LET fixes == UNION {LineFix(f, text) : f \in there}
    IN IF fixes = {} THEN <<text[i]>> ELSE (CHOOSE x \in fixes : TRUE).new

Row(fs, text, i) == RowOf({g \in fs : g.line = i}, text, i)

Rows(fs, text) == [i \in DOMAIN text |-> Row(fs, text, i)]

\* Merged() concatenates these.
LEMMA MergedIsFlat == \A fs, text : Merged(fs, text) = FlattenSeq(Rows(fs, text))
BY DEF Merged, Rows, Row, RowOf

\* A line becomes what its one fix makes of it, or stays.
LEMMA RowIs ==
    ASSUME NEW V, NEW text \in Seq(V), NEW fs \in SUBSET Findings(text), NEW i
    PROVE  /\ \A f \in fs : f.line = i /\ Fits(f, text) => Row(fs, text, i) = Fixes[Spot(f, text)].new
           /\ (\A f \in fs : f.line = i => ~Fits(f, text)) => Row(fs, text, i) = <<text[i]>>
<1> DEFINE there == {g \in fs : g.line = i}
           fixes == UNION {LineFix(f, text) : f \in there}
<1>1. Row(fs, text, i) = IF fixes = {} THEN <<text[i]>> ELSE (CHOOSE x \in fixes : TRUE).new
  BY DEF Row, RowOf
<1>2. ASSUME NEW f \in fs, f.line = i, Fits(f, text)
      PROVE  Row(fs, text, i) = Fixes[Spot(f, text)].new
  <2>1. \A g \in there : g # f => LineFix(g, text) = {}
    <3> SUFFICES ASSUME NEW g \in fs, g.line = i, g # f
                 PROVE  LineFix(g, text) = {}
      OBVIOUS
    <3>1. ~Fits(g, text)
      BY <1>2, OneFix
    <3> QED  BY <3>1, LineFixIs
  <2>2. LineFix(f, text) = {Fixes[Spot(f, text)]} /\ f \in there
    BY <1>2, LineFixIs
  <2> HIDE DEF there
  <2>3. fixes = {Fixes[Spot(f, text)]}
    BY <2>1, <2>2
  <2> HIDE DEF fixes
  <2> QED  BY <1>1, <2>3
<1>3. ASSUME \A f \in fs : f.line = i => ~Fits(f, text)
      PROVE  Row(fs, text, i) = <<text[i]>>
  <2>1. \A f \in there : LineFix(f, text) = {}
    BY <1>3, LineFixIs
  <2> HIDE DEF there
  <2>2. fixes = {}
    BY <2>1
  <2> QED  BY <1>1, <2>2
<1> QED  BY <1>2, <1>3

\* A line that triggers no heuristic.
Calm(v) == \A h \in Heuristics : v \notin h.triggers

\* A text of calm lines becomes one, and what a line becomes shows a fix to be
\* made to the line above exactly if the line did.
Stays(v, row) == \A p \in DOMAIN Fixes : row[1] \in Fixes[p].unless <=> v \in Fixes[p].unless

\* A line of a calm text becomes calm lines.
LEMMA RowsAreLines ==
    ASSUME NEW V, NewLines \subseteq V, NEW text \in Seq({v \in V : Calm(v)}),
           NEW fs \in SUBSET Findings(text), NEW i \in DOMAIN text
    PROVE  /\ Row(fs, text, i) \in Seq({v \in V : Calm(v)})
           /\ Len(Row(fs, text, i)) > 0
           /\ Stays(text[i], Row(fs, text, i))
<1> DEFINE K == {v \in V : Calm(v)}
           v == text[i]
           row == Row(fs, text, i)
<1>1. v \in K
  BY LenProperties, ElementOfSeq
<1>2. CASE \A f \in fs : f.line = i => ~Fits(f, text)
  <2>1. row = <<v>>
    BY <1>2, RowIs
  <2> HIDE DEF row, v, K
  <2> QED  BY <1>1, <2>1 DEF Stays, row, v, K
<1>3. CASE \E f \in fs : f.line = i /\ Fits(f, text)
  <2>1. PICK f \in fs : f.line = i /\ Fits(f, text)
    BY <1>3
  <2> DEFINE p == Spot(f, text)
  <2>2. row = Fixes[p].new
    BY <2>1, RowIs
  <2>3. p \in DOMAIN Fixes /\ p[2] = v
    BY <2>1 DEF Fits, Spot
  <2> HIDE DEF row, p, v
  <2>4. IsSequence(row) /\ Len(row) > 0
    BY <2>2, <2>3, TemplatesAssumption
  <2>5. Stays(v, row)
    BY <2>2, <2>3, FixesAssumption DEF Stays
  <2>6. Range(row) \subseteq K
    <3>1. Range(row) \subseteq FixLines
      BY <2>2, <2>3, Zenon DEF FixLines
    <3>2. \A h \in Heuristics : Range(row) \cap h.triggers = {}
      BY <1>1, <2>2, <2>3, FixesAssumption DEF Calm
    <3> QED  BY <3>1, <3>2 DEF Calm, NewLines
  <2>7. row \in Seq(K)
    <3> HIDE DEF K
    <3> QED  BY <2>4, <2>6, SequenceOver
  <2> QED  BY <2>4, <2>5, <2>7 DEF row, v
<1> QED  BY <1>2, <1>3

\* Two lists of parts that differ in one: what is before it, and what is after.
Around(before, part, after, whole) == whole = (before \o part) \o after

Follows(after, parts, i) ==
    /\ i = Len(parts) => after = <<>>
    /\ i < Len(parts) => after # <<>> /\ after[1] = parts[i + 1][1]

\* A concatenation and its first element.
OneMore(V, a, b) ==
    /\ a \o b \in Seq(V) /\ a \o b # <<>>
    /\ (a \o b)[1] = IF a = <<>> THEN b[1] ELSE a[1]

LEMMA ConcatOneMore ==
    ASSUME NEW V, NEW a \in Seq(V), NEW b \in Seq(V), Len(b) > 0
    PROVE  OneMore(V, a, b)
<1>1. /\ Len(a) \in Nat /\ Len(b) \in Nat
      /\ a \o b \in Seq(V) /\ Len(a \o b) = Len(a) + Len(b)
      /\ \A k \in 1 .. Len(a) + Len(b) :
            (a \o b)[k] = IF k <= Len(a) THEN a[k] ELSE b[k - Len(a)]
  BY LenProperties, ConcatProperties
<1>2. a \o b # <<>>
  BY <1>1, EmptySeq
<1>3. (a \o b)[1] = IF a = <<>> THEN b[1] ELSE a[1]
  BY <1>1, EmptySeq
<1> QED  BY <1>1, <1>2, <1>3 DEF OneMore

\* Concatenation is associative, for parts with names of their own.
Longer(x, a, b, s, t) == s = x \o a /\ t = s \o b => t = x \o (a \o b)

\* It is, for sequences.
LEMMA LongerIs ==
    ASSUME NEW V, NEW x \in Seq(V), NEW a \in Seq(V), NEW b \in Seq(V), NEW s, NEW t
    PROVE  Longer(x, a, b, s, t)
<1>1. (x \o a) \o b = x \o (a \o b)
  BY ConcatAssociative
<1> QED  BY <1>1 DEF Longer

\* One list and another are joined in the same way after i.
Continues(f, g, i, j, a, parts) ==
    /\ f[j] = f[i] \o a
    /\ g[j] = g[i] \o a
    /\ j = i => a = <<>>
    /\ j > i => a # <<>> /\ a[1] = parts[i + 1][1]

\* So they are, if they have the same parts there.
LEMMA SameAfter ==
    ASSUME NEW V, NEW n \in Nat, NEW i \in 0 .. n,
           NEW one, NEW two, \A j \in i + 1 .. n : two[j] = one[j] /\ one[j] \in Seq(V) /\ Len(one[j]) > 0,
           NEW f \in [0 .. n -> Seq(V)], Joined(f, one, n),
           NEW g \in [0 .. n -> Seq(V)], Joined(g, two, n)
    PROVE  \E a \in Seq(V) : Continues(f, g, i, n, a, one)
<1> DEFINE U == {j \in 0 .. n : i <= j => \E a \in Seq(V) : Continues(f, g, i, j, a, one)}
<1>1. \A j \in 0 .. n : f[j] \in Seq(V) /\ g[j] \in Seq(V)
  OBVIOUS
<1>2. Continues(f, g, i, i, <<>>, one) /\ <<>> \in Seq(V)
  <2>1. f[i] = f[i] \o <<>> /\ g[i] = g[i] \o <<>>
    BY <1>1, ConcatEmptySeq
  <2> QED  BY <2>1, EmptySeq DEF Continues
<1>3. 0 \in U
  <2>1. CASE i = 0
    BY <1>2, <2>1
  <2>2. CASE i # 0
    BY <2>2
  <2> QED  BY <2>1, <2>2
<1>4. ASSUME NEW j \in 0 .. n - 1, j \in U
      PROVE  j + 1 \in U
  <2> SUFFICES ASSUME i <= j + 1
               PROVE  \E a \in Seq(V) : Continues(f, g, i, j + 1, a, one)
    OBVIOUS
  <2>1. CASE i = j + 1
    BY <1>2, <2>1
  <2>2. CASE i # j + 1
    <3>1. PICK a \in Seq(V) : Continues(f, g, i, j, a, one)
      BY <1>4, <2>2
    <3> DEFINE k == j + 1
               b == one[k]
    <3>2. k \in 1 .. n /\ k - 1 = j /\ k \in i + 1 .. n /\ k > i /\ k # i /\ (j = i => k = i + 1)
      BY <2>2
    <3>3. j > i \/ j = i
      BY <2>2
    <3>4. b \in Seq(V) /\ Len(b) > 0
      BY <3>2
    <3>5. f[k] = f[j] \o b /\ g[k] = g[j] \o b
      <4>1. two[k] = one[k]
        BY <3>2
      <4>2. f[k] = f[k - 1] \o one[k] /\ g[k] = g[k - 1] \o two[k]
        BY <3>2 DEF Joined
      <4> HIDE DEF k
      <4> QED  BY <3>2, <4>1, <4>2
    <3>6. j = i => b = one[i + 1]
      BY <3>2
    <3> HIDE DEF k, b, U
    <3>7. f[i] \in Seq(V) /\ g[i] \in Seq(V)
      BY <1>1
    <3>8. /\ a \o b \in Seq(V) /\ a \o b # <<>>
          /\ (a \o b)[1] = IF a = <<>> THEN b[1] ELSE a[1]
      <4>1. OneMore(V, a, b)
        BY <3>4, ConcatOneMore, Zenon
      <4> QED  BY <4>1, Zenon DEF OneMore
    <3>9. (a \o b)[1] = one[i + 1][1]
      <4>1. CASE j = i
        <5>1. a = <<>>
          BY <3>1, <4>1 DEF Continues
        <5> QED  BY <3>6, <3>8, <4>1, <5>1
      <4>2. CASE j > i
        <5>1. a # <<>> /\ a[1] = one[i + 1][1]
          BY <3>1, <4>2 DEF Continues
        <5> QED  BY <3>8, <5>1
      <4> QED  BY <3>3, <4>1, <4>2
    <3>10. f[k] = f[i] \o (a \o b) /\ g[k] = g[i] \o (a \o b)
      <4>1. f[j] = f[i] \o a /\ g[j] = g[i] \o a
        BY <3>1 DEF Continues
      <4>2. Longer(f[i], a, b, f[j], f[k]) /\ Longer(g[i], a, b, g[j], g[k])
        BY <3>4, <3>7, LongerIs, Zenon
      <4> QED  BY <3>5, <4>1, <4>2 DEF Longer
    <3>11. Continues(f, g, i, k, a \o b, one)
      BY <3>2, <3>8, <3>9, <3>10 DEF Continues
    <3> QED  BY <3>8, <3>11 DEF k
  <2> QED  BY <2>1, <2>2
<1>5. n \in U
  <2> HIDE DEF U
  <2>1. 0 .. n \subseteq U
    BY <1>3, <1>4, CountingUp
  <2> QED  BY <2>1
<1> QED  BY <1>5

\* Two lists that differ in part i, below which they have one line each.
Differ(one, two, i) ==
    /\ Len(one) = Len(two)
    /\ \A j \in 1 .. Len(one) : Len(one[j]) > 0 /\ (j # i => one[j] = two[j])

LEMMA FlattenAround ==
    ASSUME NEW V, NEW one \in Seq(Seq(V)), NEW two \in Seq(Seq(V)),
           NEW i \in 1 .. Len(one), Differ(one, two, i),
           NEW lines \in Seq(V), Singly(one, lines, i - 1)
    PROVE  \E after \in Seq(V) :
              /\ Follows(after, one, i)
              /\ Around(SubSeq(lines, 1, i - 1), one[i], after, FlattenSeq(one))
              /\ Around(SubSeq(lines, 1, i - 1), two[i], after, FlattenSeq(two))
<1> DEFINE n == Len(one)
           before == SubSeq(lines, 1, i - 1)
<1>1. n \in Nat /\ i \in 1 .. n /\ Len(two) = n /\ i - 1 \in 0 .. n /\ i \in 0 .. n
  BY LenProperties DEF Differ
<1>2. \A j \in 1 .. n : one[j] \in Seq(V) /\ two[j] \in Seq(V)
  BY <1>1, ElementOfSeq
<1>3. PICK f \in [0 .. n -> Seq(V)] :
          f[0] = <<>> /\ (\A j \in 1 .. n : f[j] = f[j - 1] \o one[j]) /\ FlattenSeq(one) = f[n]
  BY FlattenIsStepwise
<1>4. PICK g \in [0 .. n -> Seq(V)] :
          g[0] = <<>> /\ (\A j \in 1 .. n : g[j] = g[j - 1] \o two[j]) /\ FlattenSeq(two) = g[n]
  <2>1. \E g \in [0 .. Len(two) -> Seq(V)] :
            /\ g[0] = <<>>
            /\ \A j \in 1 .. Len(two) : g[j] = g[j - 1] \o two[j]
            /\ FlattenSeq(two) = g[Len(two)]
    BY FlattenIsStepwise
  <2>2. Len(two) = n
    BY <1>1
  <2> HIDE DEF n
  <2> QED  BY <2>1, <2>2
<1>5. \A j \in 1 .. n : j # i => one[j] = two[j]
  BY DEF Differ
<1>6. \A j \in 1 .. n : Len(one[j]) > 0
  BY DEF Differ
<1> HIDE DEF n
<1>7. Joined(f, one, n) /\ Joined(g, two, n)
  BY <1>3, <1>4 DEF Joined
<1>8. f[i - 1] = before /\ g[i - 1] = before
  <2> DEFINE m == i - 1
  <2>1. m \in 0 .. n /\ Singly(one, lines, m)
    BY <1>1
  <2>2. \A j \in 1 .. m : j \in 1 .. n /\ j # i
    BY <1>1
  <2>3. Singly(two, lines, m)
    <3> HIDE DEF m
    <3> QED  BY <1>5, <2>1, <2>2 DEF Singly
  <2> HIDE DEF m
  <2>4. Reads(f, lines, m)
    BY <1>1, <1>3, <1>7, <2>1, LinesJoined
  <2>5. Reads(g, lines, m)
    BY <1>1, <1>4, <1>7, <2>1, <2>3, LinesJoined
  <2> QED  BY <2>4, <2>5 DEF m, before, Reads
<1> HIDE DEF before
<1>9. f[i] = before \o one[i] /\ g[i] = before \o two[i]
  BY <1>1, <1>3, <1>4, <1>8
<1>10. PICK a \in Seq(V) : Continues(f, g, i, n, a, one)
  <2>1. \A j \in i + 1 .. n : two[j] = one[j] /\ one[j] \in Seq(V) /\ Len(one[j]) > 0
    <3>1. \A j \in i + 1 .. n : j \in 1 .. n /\ j # i
      BY <1>1
    <3> QED  BY <1>2, <1>5, <1>6, <3>1
  <2> QED  BY <1>1, <1>7, <2>1, SameAfter
<1>11. Follows(a, one, i)
  BY <1>1, <1>10 DEF Follows, Continues, n
<1>12. FlattenSeq(one) = (before \o one[i]) \o a /\ FlattenSeq(two) = (before \o two[i]) \o a
  BY <1>3, <1>4, <1>9, <1>10 DEF Continues
<1> QED  BY <1>11, <1>12 DEF Around, before

\* A part of a text, what is before it and what is after.
PartAt(b, r, a, t) ==
    /\ Len(b) + 1 \in DOMAIN t
    /\ t[Len(b) + 1] = r[1]
    /\ Len(t) = Len(b) + Len(r) + Len(a)

\* Its first line and the length of the text.
LEMMA PartOf ==
    ASSUME NEW V, NEW b \in Seq(V), NEW r \in Seq(V), Len(r) > 0, NEW a \in Seq(V),
           NEW t, Around(b, r, a, t)
    PROVE  t \in Seq(V) /\ PartAt(b, r, a, t)
<1>1. Len(b) \in Nat /\ Len(r) \in Nat /\ Len(a) \in Nat
  BY LenProperties
<1>2. /\ b \o r \in Seq(V) /\ Len(b \o r) = Len(b) + Len(r)
      /\ (b \o r)[Len(b) + 1] = r[1]
  BY <1>1, ConcatProperties
<1> DEFINE s == b \o r
<1>3. t = s \o a
  BY DEF Around
<1> HIDE DEF s
<1>4. /\ t \in Seq(V) /\ Len(t) = Len(s) + Len(a)
      /\ \A k \in 1 .. Len(s) : t[k] = s[k]
  BY <1>1, <1>2, <1>3, ConcatProperties DEF s
<1>5. Len(s) = Len(b) + Len(r) /\ s[Len(b) + 1] = r[1]
  BY <1>2 DEF s
<1> QED  BY <1>1, <1>4, <1>5, LenProperties DEF PartAt

\* A part that is one line.
LineAt(b, a, t) ==
    /\ SubSeq(t, 1, Len(b)) = b
    /\ SubSeq(t, Len(b) + 2, Len(t)) = a
    /\ a # <<>> => t[Len(b) + 2] = a[1]

\* The text before and after it.
LEMMA LineOf ==
    ASSUME NEW V, NEW b \in Seq(V), NEW v \in V, NEW a \in Seq(V),
           NEW t, Around(b, <<v>>, a, t)
    PROVE  LineAt(b, a, t)
<1> DEFINE r == <<v>>
           n == Len(b)
           m == Len(a)
           s == b \o r
<1>1. n \in Nat /\ m \in Nat /\ r \in Seq(V) /\ Len(r) = 1
  BY LenProperties
<1>2. /\ s \in Seq(V) /\ Len(s) = n + 1
      /\ \A k \in 1 .. n : s[k] = b[k]
  BY <1>1, ConcatProperties
<1>3. t = s \o a
  BY DEF Around
<1> HIDE DEF s, r
<1>4. /\ t \in Seq(V) /\ Len(t) = n + 1 + m
      /\ \A k \in 1 .. n + 1 : t[k] = s[k]
      /\ \A k \in 1 .. m : t[n + 1 + k] = a[k]
  <2>1. /\ t \in Seq(V) /\ Len(t) = Len(s) + m
        /\ \A k \in 1 .. Len(s) + m : t[k] = IF k <= Len(s) THEN s[k] ELSE a[k - Len(s)]
    <3>1. s \in Seq(V)
      BY <1>2
    <3>2. /\ s \o a \in Seq(V) /\ Len(s \o a) = Len(s) + Len(a)
          /\ \A k \in 1 .. Len(s) + Len(a) :
                (s \o a)[k] = IF k <= Len(s) THEN s[k] ELSE a[k - Len(s)]
      BY <3>1, ConcatProperties
    <3> QED  BY <1>3, <3>2
  <2> HIDE DEF n, m
  <2>2. \A k \in 1 .. n + 1 : t[k] = s[k]
    BY <1>1, <1>2, <2>1
  <2>3. ASSUME NEW k \in 1 .. m
        PROVE  t[n + 1 + k] = a[k]
    <3> DEFINE j == n + 1 + k
    <3>1. j \in 1 .. n + 1 + m /\ ~(j <= n + 1) /\ j - (n + 1) = k
      BY <1>1
    <3> HIDE DEF j
    <3>2. t[j] = a[k]
      BY <1>2, <2>1, <3>1
    <3> QED  BY <3>2 DEF j
  <2> QED  BY <1>2, <2>1, <2>2, <2>3
<1> DEFINE low == SubSeq(t, 1, n)
           high == SubSeq(t, n + 2, Len(t))
<1>5. \A k \in 1 .. Len(t) : t[k] \in V
  BY <1>4, ElementOfSeq
<1>6. low = b
  <2>1. low \in Seq(V) /\ Len(low) = n /\ \A k \in 1 .. n : low[k] = t[k]
    BY <1>1, <1>4, <1>5
  <2> HIDE DEF low, n, m
  <2>2. \A k \in 1 .. n : low[k] = b[k]
    BY <1>1, <1>2, <1>4, <2>1
  <2> QED  BY <1>1, <2>1, <2>2, SeqEqual DEF n
<1>7. high = a
  <2>1. high \in Seq(V) /\ Len(high) = m /\ \A k \in 1 .. m : high[k] = t[n + 1 + k]
    BY <1>1, <1>4, <1>5
  <2> HIDE DEF high, n, m
  <2>2. \A k \in 1 .. m : high[k] = a[k]
    BY <1>4, <2>1
  <2> QED  BY <1>1, <2>1, <2>2, SeqEqual DEF m
<1>8. a # <<>> => t[n + 2] = a[1]
  <2> SUFFICES ASSUME a # <<>>
               PROVE  t[n + 2] = a[1]
    OBVIOUS
  <2>1. m # 0
    BY EmptySeq
  <2> HIDE DEF n, m
  <2>2. 1 \in 1 .. m /\ n + 1 + 1 = n + 2
    BY <1>1, <2>1
  <2> QED  BY <1>4, <2>2
<1> QED  BY <1>6, <1>7, <1>8 DEF LineAt

\* A text of which the lines below i are as they were, and what line i became.
Parted(m, text, rows, i, after) ==
    /\ Around(SubSeq(text, 1, i - 1), rows[i], after, m)
    /\ Follows(after, rows, i)
    /\ \A j \in DOMAIN text : Len(rows[j]) > 0 /\ Stays(text[j], rows[j])
    /\ DOMAIN rows = DOMAIN text

\* On a line not yet touched a finding's template is what it was.
LEMMA FitsAsBefore ==
    ASSUME NEW V, NEW text \in Seq(V), NEW f, f.line \in DOMAIN text,
           NEW m, NEW rows, NEW after \in Seq(V), Len(rows) = Len(text),
           Parted(m, text, rows, f.line, after), rows[f.line] = <<text[f.line]>>
    PROVE  /\ Fits(f, m) <=> Fits(f, text)
           /\ Spot(f, m) = Spot(f, text)
<1> DEFINE i == f.line
           n == Len(text)
           b == SubSeq(text, 1, i - 1)
           v == text[i]
           after1 == after[1]
           next == rows[i + 1]
<1>1. n \in Nat /\ i \in 1 .. n /\ DOMAIN text = 1 .. n /\ \A j \in 1 .. n : text[j] \in V
  BY LenProperties, ElementOfSeq
<1>2. b \in Seq(V) /\ Len(b) = i - 1
  BY <1>1
<1>3. Around(b, <<v>>, after, m)
  BY DEF Parted
<1>4. v \in V /\ <<v>> \in Seq(V) /\ Len(<<v>>) = 1 /\ <<v>>[1] = v
  BY <1>1
<1>5. i = n => after = <<>>
  BY DEF Parted, Follows
<1>6. i < n => after # <<>> /\ after1 = next[1]
  BY DEF Parted, Follows
<1>7. i < n => \A p \in DOMAIN Fixes : next[1] \in Fixes[p].unless <=> text[i + 1] \in Fixes[p].unless
  BY <1>1 DEF Parted, Stays
<1> HIDE DEF b, i, n, after1, next, v
<1>8. Len(after) \in Nat /\ (after = <<>> <=> Len(after) = 0)
  BY LenProperties, EmptySeq
<1>9. i \in DOMAIN m /\ m[i] = v /\ Len(m) = i + Len(after)
  <2>1. Len(b) + 1 = i
    BY <1>1, <1>2
  <2> DEFINE r == <<v>>
  <2>2. r \in Seq(V) /\ Len(r) > 0 /\ Around(b, r, after, m) /\ Len(r) = 1 /\ r[1] = v
    BY <1>3, <1>4
  <2> HIDE DEF r
  <2>3. PartAt(b, r, after, m)
    BY <1>2, <2>2, PartOf
  <2> QED  BY <1>1, <1>2, <1>8, <2>1, <2>2, <2>3 DEF PartAt
<1>10. i < n => m[i + 1] = next[1]
  <2>1. after # <<>> => m[Len(b) + 2] = after[1]
    <3>1. LineAt(b, after, m)
      BY <1>2, <1>3, <1>4, LineOf
    <3> QED  BY <3>1 DEF LineAt
  <2>2. Len(b) + 2 = i + 1
    BY <1>1, <1>2
  <2> QED  BY <1>6, <2>1, <2>2 DEF after1
<1>11. i = Len(m) <=> i = n
  BY <1>1, <1>5, <1>6, <1>8, <1>9
<1>12. Spot(f, m) = Spot(f, text)
  BY <1>9 DEF Spot, i, v
<1>13. Fits(f, m) <=> /\ Spot(f, text) \in DOMAIN Fixes
                      /\ i = Len(m) \/ m[i + 1] \notin Fixes[Spot(f, text)].unless
  BY <1>9, <1>12 DEF Fits, i
<1>14. Fits(f, text) <=> /\ Spot(f, text) \in DOMAIN Fixes
                         /\ i = n \/ text[i + 1] \notin Fixes[Spot(f, text)].unless
  BY DEF Fits, i, n
<1> QED  BY <1>1, <1>7, <1>10, <1>11, <1>12, <1>13, <1>14

\* Where nothing triggers a heuristic, a finding has at most its line's template.
Fixed(f, t) ==
    SubSeq(t, 1, f.line - 1) \o Fixes[Spot(f, t)].new \o SubSeq(t, f.line + 1, Len(t))

\* There is none but this.
LEMMA CalmTemplates ==
    ASSUME NEW V, NEW t \in Seq({v \in V : Calm(v)}), NEW f
    PROVE  Templates(f, t) = IF Fits(f, t) THEN {Fixed(f, t)} ELSE {}
<1>1. \A v \in Range(t) : Calm(v)
  <2>1. \A i \in DOMAIN t : t[i] \in {v \in V : Calm(v)}
    BY LenProperties, ElementOfSeq
  <2> QED  BY <2>1 DEF Range
<1>2. Heuristic(f, t) = {}
  <2>1. {g \in Heuristics : f.cwe \in g.cwes /\ Range(t) \cap g.triggers # {}} = {}
    BY <1>1 DEF Calm
  <2> QED  BY <2>1 DEF Heuristic
<1>3. Templates(f, t) = Generic(f, t)
  BY <1>2 DEF Templates
<1>4. CASE Fits(f, t)
  <2>1. LineFix(f, t) = {Fixes[Spot(f, t)]}
    BY <1>4, LineFixIs
  <2> QED  BY <1>3, <1>4, <2>1 DEF Generic, Fixed
<1>5. CASE ~Fits(f, t)
  <2>1. LineFix(f, t) = {}
    BY <1>5, LineFixIs
  <2> QED  BY <1>3, <1>5, <2>1 DEF Generic
<1> QED  BY <1>4, <1>5

\* Before and after the round for the last finding.
LEMMA RowsApart ==
    ASSUME NEW V, NewLines \subseteq V, NEW text \in Seq({v \in V : Calm(v)}),
           NEW fs \in SUBSET Findings(text), fs # {}, NEW x, x = LastOf(fs), NEW i, i = x.line,
           NEW rest, rest = fs \ {x}
    PROVE  \E after \in Seq({v \in V : Calm(v)}) :
              /\ Parted(Merged(rest, text), text, Rows(rest, text), i, after)
              /\ Around(SubSeq(text, 1, i - 1), Row(fs, text, i), after, Merged(fs, text))
<1> DEFINE K == {v \in V : Calm(v)}
           n == Len(text)
           one == Rows(rest, text)
           two == Rows(fs, text)
           below == SubSeq(text, 1, i - 1)
<1>1. n \in Nat /\ DOMAIN text = 1 .. n
  BY LenProperties
<1>2. x \in fs /\ (\A g \in fs : g.line >= i) /\ i \in 1 .. n /\ \A g \in fs : g.line \in 1 .. n
  <2>1. \A g \in fs : g.line \in DOMAIN text
    BY FindingsAreFinite
  <2> QED  BY <1>1, <2>1, LastOfIsOne
<1>3. rest \in SUBSET Findings(text)
  OBVIOUS
<1>4. \A j \in 1 .. n : one[j] = Row(rest, text, j) /\ two[j] = Row(fs, text, j)
  BY <1>1 DEF Rows
<1>5. DOMAIN one = 1 .. n /\ DOMAIN two = 1 .. n
  BY <1>1 DEF Rows
<1>6. \A j \in 1 .. n : /\ one[j] \in Seq(K) /\ Len(one[j]) > 0 /\ Stays(text[j], one[j])
                        /\ two[j] \in Seq(K)
  <2> SUFFICES ASSUME NEW j \in 1 .. n
               PROVE  /\ one[j] \in Seq(K) /\ Len(one[j]) > 0 /\ Stays(text[j], one[j])
                      /\ two[j] \in Seq(K)
    OBVIOUS
  <2>1. j \in DOMAIN text
    BY <1>1
  <2>2. /\ Row(rest, text, j) \in Seq(K) /\ Len(Row(rest, text, j)) > 0
        /\ Stays(text[j], Row(rest, text, j))
    BY <1>3, <2>1, RowsAreLines
  <2>3. Row(fs, text, j) \in Seq(K)
    BY <2>1, RowsAreLines
  <2>4. one[j] = Row(rest, text, j) /\ two[j] = Row(fs, text, j)
    BY <1>4
  <2> HIDE DEF K, one, two
  <2> QED  BY <2>2, <2>3, <2>4
<1>7. one = [j \in 1 .. n |-> one[j]] /\ two = [j \in 1 .. n |-> two[j]]
  BY <1>1 DEF Rows
<1> HIDE DEF one, two, n, below
<1>8. one \in Seq(Seq(K)) /\ two \in Seq(Seq(K)) /\ Len(one) = n /\ Len(two) = n
  <2> DEFINE A == Seq(K)
  <2>1. \A j \in 1 .. n : one[j] \in A /\ two[j] \in A
    BY <1>6
  <2> HIDE DEF K, A
  <2>2. [j \in 1 .. n |-> one[j]] \in Seq(A)
    BY <1>1, <2>1, IsASeq
  <2>3. [j \in 1 .. n |-> two[j]] \in Seq(A)
    BY <1>1, <2>1, IsASeq
  <2>4. one \in Seq(A) /\ two \in Seq(A)
    BY <1>7, <2>2, <2>3
  <2>5. Len(one) \in Nat /\ 1 .. Len(one) = 1 .. n /\ Len(two) \in Nat /\ 1 .. Len(two) = 1 .. n
    BY <1>5, <2>4, LenProperties
  <2>6. Len(one) = n /\ Len(two) = n
    BY <1>1, <2>5
  <2> QED  BY <2>4, <2>6 DEF A
<1>9. \A j \in 1 .. n : j # i => one[j] = two[j]
  <2> SUFFICES ASSUME NEW j \in 1 .. n, j # i
               PROVE  Row(rest, text, j) = Row(fs, text, j)
    BY <1>4
  <2>1. {g \in rest : g.line = j} = {g \in fs : g.line = j}
    OBVIOUS
  <2> QED  BY <2>1, Zenon DEF Row
<1>10. \A j \in 1 .. i - 1 : one[j] = <<text[j]>>
  <2> SUFFICES ASSUME NEW j \in 1 .. i - 1
               PROVE  one[j] = <<text[j]>>
    OBVIOUS
  <2>1. j \in 1 .. n /\ \A g \in rest : g.line # j
    BY <1>1, <1>2
  <2>2. Row(rest, text, j) = <<text[j]>>
    BY <1>3, <2>1, RowIs
  <2> QED  BY <1>4, <2>1, <2>2
<1>11. PICK after \in Seq(K) : /\ Follows(after, one, i)
                               /\ Around(below, one[i], after, FlattenSeq(one))
                               /\ Around(below, two[i], after, FlattenSeq(two))
  <2>1. i \in 1 .. Len(one)
    BY <1>2, <1>8
  <2>2. Differ(one, two, i)
    BY <1>6, <1>8, <1>9 DEF Differ
  <2>3. Singly(one, text, i - 1)
    BY <1>1, <1>2, <1>10 DEF Singly, n
  <2>4. text \in Seq(K)
    OBVIOUS
  <2> HIDE DEF K
  <2> QED  BY <1>8, <2>1, <2>2, <2>3, <2>4, FlattenAround DEF below
<1>12. Merged(rest, text) = FlattenSeq(one) /\ Merged(fs, text) = FlattenSeq(two)
  BY MergedIsFlat DEF one, two
<1>13. two[i] = Row(fs, text, i)
  BY <1>2, <1>4
<1>14. Parted(Merged(rest, text), text, one, i, after)
  BY <1>1, <1>5, <1>6, <1>11, <1>12 DEF Parted, below
<1>15. Around(below, Row(fs, text, i), after, Merged(fs, text))
  BY <1>11, <1>12, <1>13
<1> QED  BY <1>14, <1>15 DEF one, below

\* A text is what is before a line, the line, and what is after it.
LEMMA TextAround ==
    ASSUME NEW V, NEW t \in Seq(V), NEW i \in 1 .. Len(t)
    PROVE  Around(SubSeq(t, 1, i - 1), <<t[i]>>, SubSeq(t, i + 1, Len(t)), t)
<1> DEFINE n == Len(t)
           b == SubSeq(t, 1, i - 1)
           r == <<t[i]>>
           a == SubSeq(t, i + 1, n)
           s == b \o r
<1>1. n \in Nat /\ i \in 1 .. n /\ \A k \in 1 .. n : t[k] \in V
  BY LenProperties, ElementOfSeq
<1>2. b \in Seq(V) /\ Len(b) = i - 1 /\ \A k \in 1 .. i - 1 : b[k] = t[k]
  BY <1>1
<1>3. a \in Seq(V) /\ Len(a) = n - i /\ \A k \in 1 .. n - i : a[k] = t[i + k]
  BY <1>1
<1>4. r \in Seq(V) /\ Len(r) = 1 /\ r[1] = t[i]
  BY <1>1
<1> HIDE DEF a, b, r, n
<1>5. s \in Seq(V) /\ Len(s) = i /\ \A k \in 1 .. i : s[k] = t[k]
  <2> HIDE DEF s
  <2>0. /\ s \in Seq(V) /\ Len(s) = Len(b) + Len(r)
        /\ \A k \in 1 .. Len(b) + Len(r) : s[k] = IF k <= Len(b) THEN b[k] ELSE r[k - Len(b)]
    BY <1>2, <1>4, ConcatProperties DEF s
  <2>1. s \in Seq(V) /\ Len(s) = i
    BY <1>1, <1>2, <1>4, <2>0
  <2>2. \A k \in 1 .. i : s[k] = IF k <= i - 1 THEN b[k] ELSE r[k - (i - 1)]
    BY <1>1, <1>2, <1>4, <2>0
  <2>3. \A k \in 1 .. i : k <= i - 1 \/ k = i
    BY <1>1
  <2>4. \A k \in 1 .. i : k <= i - 1 => s[k] = t[k]
    BY <1>1, <1>2, <2>2
  <2>5. s[i] = t[i]
    <3>1. i \in 1 .. i /\ ~(i <= i - 1) /\ i - (i - 1) = 1
      BY <1>1
    <3> QED  BY <1>4, <2>2, <3>1
  <2> QED  BY <2>1, <2>3, <2>4, <2>5
<1> HIDE DEF s
<1> DEFINE u == s \o a
<1> HIDE DEF u
<1>6. u \in Seq(V) /\ Len(u) = n
  <2>1. u \in Seq(V) /\ Len(u) = Len(s) + Len(a)
    BY <1>3, <1>5, ConcatProperties DEF u
  <2> QED  BY <1>1, <1>3, <1>5, <2>1
<1>7. \A k \in 1 .. n : u[k] = t[k]
  <2>1. \A k \in 1 .. n : u[k] = IF k <= i THEN s[k] ELSE a[k - i]
    <3>1. \A k \in 1 .. Len(s) + Len(a) : u[k] = IF k <= Len(s) THEN s[k] ELSE a[k - Len(s)]
      BY <1>3, <1>5, ConcatProperties DEF u
    <3>2. Len(s) = i /\ Len(s) + Len(a) = n
      BY <1>1, <1>3, <1>5
    <3> QED  BY <3>1, <3>2
  <2> SUFFICES ASSUME NEW k \in 1 .. n
               PROVE  u[k] = t[k]
    OBVIOUS
  <2>2. CASE k <= i
    BY <1>1, <1>5, <2>1, <2>2
  <2>3. CASE ~(k <= i)
    <3> DEFINE j == k - i
    <3>1. j \in 1 .. n - i /\ i + j = k
      BY <1>1, <2>3
    <3>2. u[k] = a[j]
      BY <2>1, <2>3
    <3> HIDE DEF j
    <3> QED  BY <1>3, <3>1, <3>2
  <2> QED  BY <2>2, <2>3
<1>8. u = t
  BY <1>6, <1>7, SeqEqual DEF n
<1> QED  BY <1>8 DEF Around, u, s, a, b, r, n

\* Another part makes another text.
LEMMA OtherPart ==
    ASSUME NEW V, NEW b \in Seq(V), NEW v \in V, NEW r \in Seq(V), Len(r) > 0, NEW a \in Seq(V),
           NEW t, Around(b, <<v>>, a, t), Around(b, r, a, t)
    PROVE  r = <<v>>
<1> DEFINE s == <<v>>
<1>1. s \in Seq(V) /\ Len(s) = 1 /\ Len(s) > 0 /\ s[1] = v
  OBVIOUS
<1>2. Around(b, s, a, t)
  OBVIOUS
<1> HIDE DEF s
<1>3. PartAt(b, s, a, t) /\ PartAt(b, r, a, t)
  <2>1. PartAt(b, s, a, t)
    BY <1>1, <1>2, PartOf
  <2>2. PartAt(b, r, a, t)
    BY PartOf
  <2> QED  BY <2>1, <2>2
<1>4. Len(a) \in Nat /\ Len(b) \in Nat /\ Len(r) \in Nat
  BY LenProperties
<1>5. Len(r) = 1 /\ r[1] = v
  BY <1>1, <1>3, <1>4 DEF PartAt
<1>6. r = s
  <2>1. \A k \in 1 .. Len(r) : r[k] = s[k]
    BY <1>1, <1>5
  <2> QED  BY <1>1, <1>5, <2>1, SeqEqual
<1> QED  BY <1>6 DEF s

\* What apply_all() should have made of a text for some findings.
Listed(fs, text) == {f \in fs : LineFix(f, text) # {}}

Made(fs, text) == [text |-> Merged(fs, text), applied |-> Listed(fs, text)]

\* The last finding has a template: its line is the only change.
LEMMA FixedLast ==
    ASSUME NEW V, NewLines \subseteq V, NEW text \in Seq({v \in V : Calm(v)}),
           NEW fs \in SUBSET Findings(text), fs # {}, NEW x, x = LastOf(fs),
           NEW rest, rest = fs \ {x},
           Fits(x, text), Templates(x, text) # {text}
    PROVE  Applied(x, Made(rest, text)) = Made(fs, text)
<1> DEFINE K == {v \in V : Calm(v)}
           i == x.line
           v == text[i]
           m == Merged(rest, text)
           rows == Rows(rest, text)
           below == SubSeq(text, 1, i - 1)
           new == Fixes[Spot(x, text)].new
           merged == Merged(fs, text)
<1>1. x \in fs /\ i \in DOMAIN text
  BY FindingsAreFinite, LastOfIsOne
<1>2. i \in 1 .. Len(text) /\ Len(text) \in Nat /\ v \in K
  BY <1>1, LenProperties, ElementOfSeq
<1>3. PICK after \in Seq(K) : /\ Parted(m, text, rows, i, after)
                              /\ Around(below, Row(fs, text, i), after, merged)
  BY RowsApart
<1>4. rows[i] = <<v>> /\ Len(rows) = Len(text)
  <2>1. \A f \in rest : f.line = i => ~Fits(f, text)
    BY <1>1, OneFix
  <2>2. Row(rest, text, i) = <<v>>
    BY <2>1, RowIs
  <2> QED  BY <1>1, <1>2, <2>2 DEF Rows
<1>5. Row(fs, text, i) = new /\ new \in Seq(K) /\ Len(new) > 0
  <2>1. Row(fs, text, i) = new
    BY <1>1, RowIs
  <2>2. Row(fs, text, i) \in Seq(K) /\ Len(Row(fs, text, i)) > 0
    BY <1>1, RowsAreLines
  <2> QED  BY <2>1, <2>2
<1>6. Fits(x, m) /\ Spot(x, m) = Spot(x, text)
  <2>1. Parted(m, text, rows, x.line, after) /\ rows[x.line] = <<text[x.line]>>
    BY <1>3, <1>4
  <2> HIDE DEF m, rows, K
  <2> QED  BY <1>1, <1>4, <2>1, FitsAsBefore DEF K
<1>7. Around(below, <<v>>, after, m) /\ Around(below, new, after, merged)
  BY <1>3, <1>4, <1>5 DEF Parted
<1>8. below \in Seq(K) /\ Len(below) = i - 1
  <2>1. \A k \in 1 .. i - 1 : text[k] \in K
    BY <1>2, ElementOfSeq
  <2> HIDE DEF K
  <2> QED  BY <1>2, <2>1
<1> HIDE DEF K, i, v, m, rows, below, new, merged
<1>9. m \in Seq(K)
  <2> DEFINE r == <<v>>
  <2>1. r \in Seq(K) /\ Len(r) > 0
    BY <1>2
  <2>2. Around(below, r, after, m)
    BY <1>7
  <2> HIDE DEF r
  <2> QED  BY <1>8, <2>1, <2>2, PartOf
<1>10. SubSeq(m, 1, i - 1) = below /\ SubSeq(m, i + 1, Len(m)) = after
  <2>1. SubSeq(m, 1, Len(below)) = below /\ SubSeq(m, Len(below) + 2, Len(m)) = after
    <3>1. LineAt(below, after, m)
      BY <1>2, <1>7, <1>8, LineOf
    <3> QED  BY <3>1 DEF LineAt
  <2>2. Len(below) + 2 = i + 1
    BY <1>2, <1>8
  <2> QED  BY <1>8, <2>1, <2>2
<1>11. Templates(x, m) = {merged}
  <2>1. Templates(x, m) = {Fixed(x, m)}
    BY <1>6, <1>9, CalmTemplates DEF K
  <2>2. Fixed(x, m) = SubSeq(m, 1, i - 1) \o new \o SubSeq(m, i + 1, Len(m))
    BY <1>6 DEF Fixed, i, new
  <2>3. Fixed(x, m) = merged
    BY <1>7, <1>10, <2>2 DEF Around
  <2> QED  BY <2>1, <2>3
<1>12. new # <<v>>
  <2> SUFFICES ASSUME new = <<v>>
               PROVE  FALSE
    OBVIOUS
  <2>1. Templates(x, text) = {Fixed(x, text)}
    BY CalmTemplates
  <2>2. Fixed(x, text) = SubSeq(text, 1, i - 1) \o <<v>> \o SubSeq(text, i + 1, Len(text))
    BY DEF Fixed, i, new
  <2>3. Fixed(x, text) = text
    BY <1>2, <2>2, TextAround DEF Around, v
  <2> QED  BY <2>1, <2>3
<1>13. merged # m
  BY <1>2, <1>5, <1>7, <1>8, <1>12, OtherPart
<1>14. Listed(fs, text) = Listed(rest, text) \cup {x}
  <2>1. LineFix(x, text) # {}
    BY LineFixIs
  <2> QED  BY <1>1, <2>1 DEF Listed
<1>15. Applied(x, Made(rest, text)) = [text |-> merged, applied |-> Listed(rest, text) \cup {x}]
  <2> DEFINE d == Made(rest, text)
             l == Listed(rest, text)
  <2>1. d.text = m /\ d.applied = l
    BY DEF Made, m
  <2> HIDE DEF d, l
  <2>2. Templates(x, d.text) \ {d.text} = {merged}
    BY <1>11, <1>13, <2>1
  <2>3. Applied(x, d) = [text |-> merged, applied |-> d.applied \cup {x}]
    BY <2>2 DEF Applied
  <2> QED  BY <2>1, <2>3 DEF d, l
<1> QED  BY <1>14, <1>15 DEF Made, merged

\* It has none: nor does it find one on what its line has become.
LEMMA UnfixedLast ==
    ASSUME NEW V, NewLines \subseteq V, NEW text \in Seq({v \in V : Calm(v)}),
           NEW fs \in SUBSET Findings(text), fs # {}, NEW x, x = LastOf(fs),
           NEW rest, rest = fs \ {x},
           ~Fits(x, text)
    PROVE  Applied(x, Made(rest, text)) = Made(fs, text)
<1> DEFINE K == {v \in V : Calm(v)}
           i == x.line
           v == text[i]
           m == Merged(rest, text)
           rows == Rows(rest, text)
           below == SubSeq(text, 1, i - 1)
           merged == Merged(fs, text)
<1>1. x \in fs /\ i \in DOMAIN text
  BY FindingsAreFinite, LastOfIsOne
<1>2. i \in 1 .. Len(text) /\ Len(text) \in Nat /\ v \in K
  BY <1>1, LenProperties, ElementOfSeq
<1>3. PICK after \in Seq(K) : /\ Parted(m, text, rows, i, after)
                              /\ Around(below, Row(fs, text, i), after, merged)
  BY RowsApart
<1>4. rows[i] = Row(rest, text, i) /\ Len(rows) = Len(text)
  BY <1>1, <1>2 DEF Rows
<1>5. Row(rest, text, i) \in Seq(K) /\ Len(Row(rest, text, i)) > 0
  BY <1>1, RowsAreLines
<1>6. below \in Seq(K) /\ Len(below) = i - 1
  <2>1. \A k \in 1 .. i - 1 : text[k] \in K
    BY <1>2, ElementOfSeq
  <2> HIDE DEF K
  <2> QED  BY <1>2, <2>1
<1>7. Around(below, rows[i], after, m)
  BY <1>3 DEF Parted
<1>8. m \in Seq(K) /\ PartAt(below, rows[i], after, m)
  <2> DEFINE r == rows[i]
  <2>1. r \in Seq(K) /\ Len(r) > 0 /\ Around(below, r, after, m)
    BY <1>4, <1>5, <1>7
  <2> HIDE DEF K, m, r, below
  <2> QED  BY <1>6, <2>1, PartOf DEF r
<1>9. m[i] = rows[i][1]
  BY <1>2, <1>6, <1>8 DEF PartAt
<1>10. merged = m /\ ~Fits(x, m)
  <2>1. CASE \A f \in rest : f.line = i => ~Fits(f, text)
    <3>1. \A f \in fs : f.line = i => ~Fits(f, text)
      BY <2>1
    <3>2. Row(rest, text, i) = <<v>>
      BY <2>1, RowIs
    <3>3. Row(fs, text, i) = <<v>>
      BY <3>1, RowIs
    <3>4. ~Fits(x, m)
      <4>1. Parted(m, text, rows, x.line, after) /\ rows[x.line] = <<text[x.line]>>
        BY <1>3, <1>4, <3>2
      <4> HIDE DEF m, rows, K
      <4> QED  BY <1>1, <1>4, <4>1, FitsAsBefore DEF K
    <3> QED  BY <1>3, <1>4, <1>7, <3>2, <3>3, <3>4 DEF Around
  <2>2. CASE \E f \in rest : f.line = i /\ Fits(f, text)
    <3>1. PICK f \in rest : f.line = i /\ Fits(f, text)
      BY <2>2
    <3> DEFINE p == Spot(f, text)
               q == Spot(x, m)
               new == Fixes[p].new
    <3>2. Row(rest, text, i) = new
      <4>1. rest \in SUBSET Findings(text)
        OBVIOUS
      <4> QED  BY <3>1, <4>1, RowIs
    <3>3. Row(fs, text, i) = new
      BY <3>1, RowIs
    <3>4. p \in DOMAIN Fixes /\ p[1] = f.cwe
      BY <3>1 DEF Fits, Spot
    <3>5. q[1] = x.cwe /\ q[2] = Fixes[p].new[1]
      BY <1>4, <1>9, <3>2 DEF Spot
    <3>6. ~Fits(x, m)
      <4> SUFFICES ASSUME Fits(x, m)
                   PROVE  FALSE
        OBVIOUS
      <4>1. q \in DOMAIN Fixes
        BY DEF Fits
      <4> HIDE DEF p, q, new, m
      <4>2. q[1] = p[1]
        BY <3>4, <3>5, <4>1, FixesAssumption
      <4>3. f = x
        BY <1>1, <3>1, <3>4, <3>5, <4>2, OneFits DEF p
      <4> QED  BY <3>1, <4>3
    <3> HIDE DEF new
    <3> QED  BY <1>3, <1>4, <1>7, <3>2, <3>3, <3>6 DEF Around
  <2> QED  BY <2>1, <2>2
<1> HIDE DEF K, i, v, m, rows, below, merged
<1>11. Templates(x, m) = {}
  BY <1>8, <1>10, CalmTemplates DEF K
<1>12. Listed(fs, text) = Listed(rest, text)
  <2>1. LineFix(x, text) = {}
    BY LineFixIs
  <2> QED  BY <2>1 DEF Listed
<1>13. Made(fs, text) = Made(rest, text)
  BY <1>10, <1>12 DEF Made, m, merged
<1>14. Applied(x, Made(rest, text)) = Made(rest, text)
  <2> DEFINE d == Made(rest, text)
  <2>1. d.text = m
    BY DEF Made, m
  <2> HIDE DEF d
  <2>2. Templates(x, d.text) \ {d.text} = {}
    BY <1>11, <2>1
  <2>3. Applied(x, d) = d
    BY <2>2 DEF Applied
  <2> QED  BY <2>3 DEF d
<1> QED  BY <1>13, <1>14

\* No findings: the text as it is.
LEMMA NothingMerged ==
    ASSUME NEW V, NEW text \in Seq(V)
    PROVE  Made({}, text) = [text |-> text, applied |-> {}]
<1> DEFINE n == Len(text)
           rows == Rows({}, text)
           A == Seq(V)
<1>1. n \in Nat /\ DOMAIN text = 1 .. n /\ \A i \in 1 .. n : text[i] \in V
  BY LenProperties, ElementOfSeq
<1>2. \A i \in 1 .. n : Row({}, text, i) = <<text[i]>>
  <2>1. {} \in SUBSET Findings(text)
    OBVIOUS
  <2> QED  BY <2>1, RowIs
<1>3. rows = [i \in 1 .. n |-> <<text[i]>>]
  BY <1>1, <1>2 DEF Rows
<1> HIDE DEF n, rows
<1>4. rows \in Seq(A) /\ Len(rows) = n
  <2>1. \A i \in 1 .. n : <<text[i]>> \in A
    BY <1>1
  <2> HIDE DEF A
  <2>2. [i \in 1 .. n |-> <<text[i]>>] \in Seq(A)
    BY <1>1, <2>1, IsASeq
  <2> QED  BY <1>1, <1>3, <2>2
<1>5. PICK flat \in [0 .. n -> Seq(V)] :
          flat[0] = <<>> /\ Joined(flat, rows, n) /\ FlattenSeq(rows) = flat[n]
  <2>1. \E flat \in [0 .. Len(rows) -> Seq(V)] :
            /\ flat[0] = <<>>
            /\ \A i \in 1 .. Len(rows) : flat[i] = flat[i - 1] \o rows[i]
            /\ FlattenSeq(rows) = flat[Len(rows)]
    BY <1>4, FlattenIsStepwise
  <2> QED  BY <1>4, <2>1 DEF Joined
<1>6. Reads(flat, text, n)
  <2>1. n \in 0 .. n
    BY <1>1
  <2>2. Singly(rows, text, n)
    BY <1>1, <1>3 DEF Singly, n
  <2> QED  BY <1>1, <1>5, <2>1, <2>2, LinesJoined
<1>7. Merged({}, text) = text
  BY <1>4, <1>5, <1>6, MergedIsFlat, SubSeqFull DEF n, rows, Reads
<1> QED  BY <1>7 DEF Made, Listed

\* The rounds of apply_all() one after the other.
LEMMA BottomUp ==
    ASSUME NEW V, NewLines \subseteq V, NEW text \in Seq({v \in V : Calm(v)}),
           NEW fs \in SUBSET Findings(text), \A f \in fs : Templates(f, text) # {text}
    PROVE  ApplyAll(fs, text) = Made(fs, text)
<1>1. text \in Seq(V)
  BY SeqMonotonic
<1>2. PICK iter : FixedInTurn(iter, fs, text) /\ ApplyAll(fs, text) = iter[fs]
  BY <1>1, ApplyAllInTurn
<1>3. IsFiniteSet(fs)
  BY <1>1, FindingsAreFinite, FS_Subset
<1> DEFINE B == {s \in SUBSET fs : iter[s] # Made(s, text)}
<1>4. B = {}
  <2> SUFFICES ASSUME B # {}
               PROVE  FALSE
    OBVIOUS
  <2>1. B \in SUBSET (SUBSET fs)
    OBVIOUS
  <2>2. PICK s \in B : \A x \in s : s \ {x} \notin B
    <3> HIDE DEF B
    <3> QED  BY <1>3, <2>1, LeastSubset
  <2>3. s \in SUBSET fs /\ iter[s] # Made(s, text)
    BY <2>2
  <2>4. s # {}
    <3>1. iter[{}] = Made({}, text)
      BY <1>1, <1>2, NothingMerged DEF FixedInTurn
    <3> QED  BY <2>3, <3>1
  <2> DEFINE x == LastOf(s)
             rest == s \ {x}
  <2>5. s \in SUBSET Findings(text)
    BY <2>3
  <2>6. x \in s
    BY <1>1, <2>4, <2>5, LastOfIsOne
  <2>7. iter[s] = Applied(x, iter[rest])
    BY <1>2, <2>3, <2>4 DEF FixedInTurn
  <2>8. iter[rest] = Made(rest, text)
    BY <2>2, <2>3, <2>6
  <2>9. x = LastOf(s) /\ rest = s \ {x} /\ Templates(x, text) # {text}
    BY <2>3, <2>6
  <2> HIDE DEF x, rest
  <2>10. Applied(x, Made(rest, text)) = Made(s, text)
    <3>1. CASE Fits(x, text)
      BY <2>4, <2>5, <2>9, <3>1, FixedLast
    <3>2. CASE ~Fits(x, text)
      BY <2>4, <2>5, <2>9, <3>2, UnfixedLast
    <3> QED  BY <3>1, <3>2
  <2> QED  BY <2>3, <2>7, <2>8, <2>10
<1> QED  BY <1>2, <1>4

\* What apply_all() makes of a file in which nothing triggers a heuristic is
\* each finding's fix on the finding's own line, whatever the findings, the
\* fixes and their order, and the fixes it lists are those it made.
THEOREM CalmTextsAreMerged == Spec => []BottomUpMerges
<1>1. TypeParts => BottomUpMerges
  <2> SUFFICES ASSUME TypeParts, NEW n \in DOMAIN shown,
                      \A h \in Heuristics : Range(shown[n].text) \cap h.triggers = {}
               PROVE  /\ shown[n].patched = Merged(shown[n].included, shown[n].text)
                      /\ shown[n].applied = Listed(shown[n].included, shown[n].text)
    BY DEF BottomUpMerges, Listed
  <2> DEFINE v == shown[n]
             fs == v.included
             text == v.text
  <2>1. PICK file \in Files : \E ks, modelled : file.name = n /\ v = Review(file, ks, modelled)
    BY DEF TypeParts, ShownOK, IsReview
  <2>2. PICK ks, modelled : v = Review(file, ks, modelled)
    BY <2>1
  <2>3. /\ text = file.text /\ fs \subseteq Findings(text)
        /\ \A f \in fs : Templates(f, text) # {text}
        /\ v.patched = ApplyAll(fs, text).text /\ v.applied = ApplyAll(fs, text).applied
    BY <2>2 DEF Review
  <2>4. \A h \in Heuristics : Range(text) \cap h.triggers = {}
    OBVIOUS
  <2> HIDE DEF v, fs, text
  <2>5. PICK V : NewLines \subseteq V /\ text \in Seq(V)
    BY <2>3, FixesMakeTexts
  <2>6. text \in Seq({w \in V : Calm(w)})
    <3>1. text \in Seq(Range(text))
      BY <2>3, InputAssumption
    <3>2. Range(text) \subseteq {w \in V : Calm(w)}
      <4>1. \A i \in DOMAIN text : text[i] \in V
        BY <2>5, LenProperties, ElementOfSeq
      <4> QED  BY <2>4, <4>1 DEF Calm, Range
    <3> QED  BY <3>1, <3>2, SeqMonotonic
  <2>7. ApplyAll(fs, text) = Made(fs, text)
    BY <2>3, <2>5, <2>6, BottomUp
  <2>8. v.patched = Merged(fs, text) /\ v.applied = Listed(fs, text)
    BY <2>3, <2>7 DEF Made
  <2> QED  BY <2>8 DEF v, fs, text
<1> QED  BY <1>1, TypePartsHold, PTL

=============================================================================
