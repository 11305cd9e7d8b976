------------------------------ MODULE Approval ------------------------------
(***************************************************************************)
(* The dashboard's analysis page and POST /api/analyze: frontend/app.js    *)
(* lines 202-379 and analyze_upload() of backend/app/main.py.              *)
(*                                                                         *)
(* An operator pastes a text or chooses files, has them analysed, and      *)
(* ticks the gated findings whose fixes are to be in the corrected file.   *)
(* Each tick analyses again what is chosen by then, with the keys ticked   *)
(* since the last click on ANALYZE.  The server keeps nothing between      *)
(* requests but the ledger.                                                *)
(***************************************************************************)
EXTENDS PatchAgent, UnifiedDiff

CONSTANTS Texts,       \* what may be pasted
          Selections,  \* what may be chosen: sequences of files
          Pasted,      \* the name each pasted text is given, by its language
          Blank,       \* the empty textarea
          Placeholder, \* the textarea once files are chosen
          AfterCommas, \* what a file name is after its last comma
          Network      \* whether a language model is configured

Files == (UNION {Range(c) : c \in Selections})
            \cup {[name |-> Pasted[t], text |-> t] : t \in Texts}

Names == {f.name : f \in Files}

ASSUME InputAssumption ==
    /\ {Blank, Placeholder} \subseteq Texts
    /\ \A c \in Selections : c # <<>> /\ c \in Seq(Files)
    /\ \A f \in Files : f \in [name : DOMAIN AfterCommas, text : Seq(Range(f.text))]
    /\ \A f \in Files : \A i \in DOMAIN f.text : f.text[i] \in Unended => i = Len(f.text)
    /\ \A n \in DOMAIN AfterCommas :
          /\ AfterCommas[n] \in DOMAIN AfterCommas
          /\ AfterCommas[AfterCommas[n]] = AfterCommas[n]
    /\ Network \in BOOLEAN

VARIABLES files,   \* selectedFiles
          box,     \* the textarea's text
          locked,  \* whether the textarea is disabled
          keys,    \* currentApprovedKeys
          shown,   \* the answer on the page: for each file name, a review
          flight,  \* the request in flight: none or one
          log,     \* the decisions recorded in the ledger since ANALYZE
          steady   \* history: nothing pasted or chosen since ANALYZE

vars == <<files, box, locked, keys, shown, flight, log, steady>>

\* f"{filename}:{finding.cwe}:{finding.line}"
Key(name, f) == [name |-> name, cwe |-> f.cwe, line |-> f.line]

\* The page joins the keys with commas and the server splits them there.
Sent(ks) ==
    {[name |-> AfterCommas[k.name], cwe |-> k.cwe, line |-> k.line] : k \in ks}

\* What ANALYZE and the checkboxes send: the files, or else the text.
Inputs ==
    IF files # <<>> THEN files
    ELSE IF box = Blank THEN <<>>
    ELSE <<[name |-> Pasted[box], text |-> box]>>

NoReviews == <<>>

ApprovalTypeOK ==
    /\ files \in Selections \cup {<<>>}
    /\ box \in Texts
    /\ locked \in BOOLEAN /\ steady \in BOOLEAN
    /\ \A k \in keys : k.name \in Names
    /\ Cardinality(flight) <= 1
    /\ \A q \in flight : q.keys \subseteq keys /\ Range(q.files) \subseteq Files
    /\ DOMAIN shown \subseteq Names
    /\ \A n \in DOMAIN shown :
          LET v == shown[n]
          IN /\ [name |-> n, text |-> v.text] \in Files
             /\ \A f \in v.findings : f.line \in DOMAIN v.text
             /\ v.applied \subseteq v.included
             /\ v.included \subseteq v.fixable
             /\ v.fixable \cup v.approved \subseteq v.findings
    /\ \A d \in log : d.outcome \in {"suggested_included", "pending_review"}

Init ==
    /\ files = <<>>
    /\ box = Blank
    /\ locked = FALSE
    /\ keys = {}
    /\ shown = NoReviews
    /\ flight = {}
    /\ log = {}
    /\ steady = FALSE

-----------------------------------------------------------------------------
(* The server.                                                             *)

\* The body of the loop of analyze_upload() for one file.  Findings for which
\* no template changes the text may get a patch from the language model.
Review(file, approvedKeys, modelled) ==
    LET text     == file.text
        findings == Findings(text)
        gated    == {f \in findings : RequiresReview(file.name, f)}
        approved == {f \in findings : Key(file.name, f) \in approvedKeys}
        fixable  == {f \in findings :
                        \/ Templates(f, text) \ {text} # {}
                        \/ Templates(f, text) = {} /\ f \in modelled}
        included == fixable \ (gated \ approved)
        combined == ApplyAll(included, text)
    IN [text     |-> text,
        findings |-> findings,
        gated    |-> gated,
        approved |-> approved,
        fixable  |-> fixable,
        included |-> included,
        applied  |-> combined.applied,
        patched  |-> combined.text]

\* patch.diff of synthesize(), for each text and what a template makes of it.
PatchDiffs ==
    LET Made(text) == UNION {Templates(f, text) : f \in Findings(text)}
    IN {[text |-> p[1], fixed |-> p[2], diff |-> Diff(p[1], p[2])] :
           p \in UNION {{f.text} \X Made(f.text) : f \in Files}}

\* What ledger.record() is called with for the findings fs of a file.
Decisions(name, v, fs) ==
    {[key     |-> Key(name, f),
      text    |-> v.text,
      outcome |-> IF f \in v.included THEN "suggested_included" ELSE "pending_review"] :
        f \in fs \cap v.fixable}

\* The order of the findings of a file.
UpTo(f, fs) == {g \in fs : g.line < f.line \/ (g.line = f.line /\ g.rule <= f.rule)}

\* The third tier of synthesize(): the findings of a request, without a
\* template, that the language model may offer a patch for.
Modelled(q) ==
    IF Network
    THEN SUBSET UNION {{f \in Findings(x.text) : Templates(f, x.text) = {}} :
                          x \in Range(q.files)}
    ELSE {{}}

Reviews(q, modelled) ==
    [i \in DOMAIN q.files |-> Review(q.files[i], Sent(q.keys), modelled)]

\* The records of the first n files of a request.
Recorded(q, reviews, n) ==
    UNION {Decisions(q.files[i].name, reviews[i], reviews[i].findings) : i \in 1 .. n}

\* per_file_results: of two files of one name, the later one's.
ByName(q, reviews, answer) ==
    \E last \in [{f.name : f \in Range(q.files)} -> DOMAIN q.files] :
        /\ \A n \in DOMAIN last :
              /\ q.files[last[n]].name = n
              /\ \A i \in DOMAIN q.files : q.files[i].name = n => i <= last[n]
        /\ answer = [n \in DOMAIN last |-> reviews[last[n]]]

\* The request is served and its answer rendered.
Serve ==
    /\ \E q \in flight : \E modelled \in Modelled(q) :
          LET reviews == Reviews(q, modelled)
          IN /\ log' = log \cup Recorded(q, reviews, Len(q.files))
             /\ ByName(q, reviews, shown')
    /\ flight' = {}
    /\ UNCHANGED <<files, box, locked, keys, steady>>

\* The request is lost or refused, or fails in a call of ledger.record(),
\* or its answer is lost: after any number of records, and with an error on
\* the page.
Fail ==
    /\ \E q \in flight : \E modelled \in Modelled(q), i \in DOMAIN q.files :
          LET reviews == Reviews(q, modelled)
              before  == log \cup Recorded(q, reviews, i - 1)
          IN \/ log' = before
             \/ \E f \in reviews[i].findings :
                   log' = before \cup Decisions(q.files[i].name, reviews[i],
                                               UpTo(f, reviews[i].findings))
    /\ shown' = NoReviews
    /\ flight' = {}
    /\ UNCHANGED <<files, box, locked, keys, steady>>

-----------------------------------------------------------------------------
(* The page.                                                               *)

\* The operator types or pastes, also while a request is in flight.
Type ==
    /\ ~locked
    /\ \E t \in Texts \ {box, Placeholder} : box' = t
    /\ steady' = FALSE
    /\ UNCHANGED <<files, locked, keys, shown, flight, log>>

\* The change event of the file input: an empty choice drops the files and
\* leaves the textarea as it is.
Choose ==
    /\ \E c \in (Selections \cup {<<>>}) \ {files} :
          /\ files' = c
          /\ box' = IF c = <<>> THEN box ELSE Placeholder
          /\ locked' = (locked \/ c # <<>>)
    /\ steady' = FALSE
    /\ UNCHANGED <<keys, shown, flight, log>>

\* runAnalysis() with the keys ks: the results leave the page, and with them
\* the checkboxes, until the answer is there; ANALYZE is disabled as long.
RunAnalysis(ks) ==
    /\ shown' = NoReviews
    /\ flight' = IF Inputs = <<>> THEN {} ELSE {[files |-> Inputs, keys |-> ks]}
    /\ UNCHANGED <<files, box, locked>>

\* A plausible mutant of the next definition: the approvals are kept.
ClickKeeping ==
    /\ flight = {}
    /\ UNCHANGED keys
    /\ log' = {}
    /\ steady' = TRUE
    /\ RunAnalysis(keys)

\* A click on ANALYZE forgets the approvals.
Click ==
    /\ flight = {}
    /\ keys' = {}
    /\ log' = {}
    /\ steady' = TRUE
    /\ RunAnalysis({})

\* The keys after the change event of a checkbox that was rendered for k.
Toggled(k, checked) == IF checked THEN keys \ {k} ELSE keys \cup {k}

\* A plausible mutant of the next definition: the analysis is asked for first.
TickLate ==
    /\ flight = {}
    /\ \E n \in DOMAIN shown : \E f \in shown[n].gated \cap shown[n].fixable :
          keys' = Toggled(Key(n, f), f \in shown[n].approved)
    /\ RunAnalysis(keys)
    /\ UNCHANGED <<log, steady>>

\* A checkbox is ticked or cleared: one for each gated finding with a fix.
Tick ==
    /\ flight = {}
    /\ \E n \in DOMAIN shown : \E f \in shown[n].gated \cap shown[n].fixable :
          keys' = Toggled(Key(n, f), f \in shown[n].approved)
    /\ RunAnalysis(keys')
    /\ UNCHANGED <<log, steady>>

Next == Type \/ Choose \/ Click \/ Tick \/ Serve \/ Fail

Spec == Init /\ [][Next]_vars

-----------------------------------------------------------------------------
(* Properties.                                                             *)

\* "Editing bottom-up means earlier line numbers never shift out from under a
\* not-yet-processed finding": where no heuristic is triggered, apply_all()
\* makes each finding's fix on the finding's own line, and lists it.
BottomUpMerges ==
    \A n \in DOMAIN shown :
        LET v == shown[n]
        IN (\A h \in Heuristics : Range(v.text) \cap h.triggers = {}) =>
              /\ v.patched = Merged(v.included, v.text)
              /\ v.applied = {f \in v.included : LineFix(f, v.text) # {}}

\* "Applies a unified diff (as produced by difflib.unified_diff)": the diff
\* shown for a finding, replayed on the text, is the fixed text, whichever
\* places of the file the fix changes, if none of its lines is mistaken.
DiffsApply ==
    \A n \in DOMAIN shown : \A p \in PatchDiffs :
        p.text = shown[n].text /\ Unmistakable(p.text, p.diff)
            => ApplyDiff(p.text, p.diff) = p.fixed

\* What the docstring says of any diff, of a text that readlines() reads as
\* difflib was given it: also where the last line has no line ending.
EveryDiffApplies ==
    \A n \in DOMAIN shown : \A p \in PatchDiffs :
        p.text = shown[n].text /\ Range(p.text) \cap Paged = {}
            => ApplyDiff(p.text, p.diff) = p.fixed

\* No two files are mistaken for each other by their keys.
Unambiguous ==
    \A i, j \in DOMAIN Inputs :
        AfterCommas[Inputs[i].name] = AfterCommas[Inputs[j].name] => i = j

\* Unless another text was pasted or chosen since the last click on ANALYZE,
\* a gated fix is included only after it was shown pending: since that click
\* the ledger was given its pending_review record, for this very text.
GatedWasPending ==
    steady /\ Unambiguous =>
        \A n \in DOMAIN shown : \A f \in shown[n].gated \cap shown[n].included :
            [key     |-> Key(n, f),
             text    |-> shown[n].text,
             outcome |-> "pending_review"] \in log

\* The approvals on the page are the approvals held, where no name among them
\* has a comma: no answer to an earlier request, with other keys, is ever left.
PageShowsKeysHeld ==
    (\A k \in keys : AfterCommas[k.name] = k.name) =>
        \A n \in DOMAIN shown :
            shown[n].approved = {f \in shown[n].findings : Key(n, f) \in keys}

\* "Findings requiring human review are excluded from the combined
\* corrected-file output unless explicitly approved": a function whose
\* findings are gated and none of them approved is left as it is.
UnapprovedIsLeftAsIs ==
    \A n \in DOMAIN shown :
        LET v == shown[n]
        IN \A fn \in {f.scope : f \in v.gated} :
              {f \in v.findings : f.scope = fn} \subseteq v.gated \ v.approved
                  => Body(v.patched, fn) = Body(v.text, fn)

=============================================================================
