----------------------------- MODULE PatchAgent -----------------------------
(***************************************************************************)
(* Findings in a text and the fixes for them: analyze_source() of          *)
(* kavach/analyzers/static_analyzer.py, evaluate() of                      *)
(* kavach/agents/review_gate.py, and the templates of                      *)
(* kavach/agents/patch_agent.py, one at a time (synthesize) and folded     *)
(* into one file (apply_all).                                              *)
(*                                                                         *)
(* A text is a sequence of lines and a line is an opaque value.  What the  *)
(* regular expressions and templates make of a line is given by constants. *)
(***************************************************************************)
EXTENDS SequencesExt, Integers

CONSTANTS Rules,      \* the rules, in the order they are tried on a line
          Opens,      \* the function that each opening line opens
          Sensitive,  \* files and functions that name something sensitive
          Heuristics, \* templates that look for their own places in a file
          Fixes       \* templates for the line of the finding, by CWE and line

\* A sequence, of whatever.
IsSequence(t) == t \in Seq(Range(t))

\* Whatever the text: a rule knows its CWE, the lines it matches, and whether
\* CWE, severity, description or language alone ask for a review.  A heuristic
\* is tried when one of its triggers is in the text, and replaces each of its
\* old blocks by the new one; no two are for one CWE.  A fix turns a line into
\* several, unless the next one shows that it has been made.
ASSUME TemplatesAssumption ==
    /\ IsSequence(Rules)
    /\ \A i \in DOMAIN Rules : Rules[i].gated \in BOOLEAN
    /\ \A g, h \in Heuristics : g # h => g.cwes \cap h.cwes = {}
    /\ \A h \in Heuristics : /\ IsSequence(h.edits)
                             /\ \A e \in Range(h.edits) :
                                   IsSequence(e.old) /\ IsSequence(e.new) /\ Len(e.old) > 0
    /\ \A p \in DOMAIN Fixes : IsSequence(Fixes[p].new) /\ Len(Fixes[p].new) > 0

\* Of the templates for a line, one rule and CWE have one: they begin with what
\* the line is (a free(), a malloc(), a parameter...).  The first line a fix
\* makes has none for another CWE, and shows another fix to be made only if the
\* line itself did; and no fix brings in what triggers a heuristic.
ASSUME FixesAssumption ==
    /\ \A p, q \in DOMAIN Fixes : p[2] = q[2] => p[1] = q[1]
    /\ \A i, j \in DOMAIN Rules : \A p \in DOMAIN Fixes :
          /\ Rules[i].cwe = p[1] /\ p[2] \in Rules[i].hits
          /\ Rules[j].cwe = p[1] /\ p[2] \in Rules[j].hits
          => i = j
    /\ \A p, q \in DOMAIN Fixes :
          /\ q[2] = Fixes[p].new[1] => q[1] = p[1]
          /\ Fixes[p].new[1] \in Fixes[q].unless <=> p[2] \in Fixes[q].unless
    /\ \A p \in DOMAIN Fixes, h \in Heuristics :
          Range(Fixes[p].new) \cap h.triggers # {} => p[2] \in h.triggers

\* The function a line is in: the last one opened at it or above.
Scope(text, i) ==
    LET opened == {j \in 1 .. i : text[j] \in DOMAIN Opens}
    IN IF opened = {} THEN "" ELSE Opens[text[Max(opened)]]

\* The lines of a text and the rules that match them.
Matches(text) ==
    {p \in (DOMAIN text) \X (DOMAIN Rules) : text[p[1]] \in Rules[p[2]].hits}

\* A plausible mutant of the next definition: lines are counted from 0.
FindingsFromZero(text) ==
    {[line |-> p[1] - 1, rule |-> p[2], cwe |-> Rules[p[2]].cwe,
      scope |-> Scope(text, p[1])] : p \in Matches(text)}

\* analyze_source(): every rule on every line.
Findings(text) ==
    {[line |-> p[1], rule |-> p[2], cwe |-> Rules[p[2]].cwe,
      scope |-> Scope(text, p[1])] : p \in Matches(text)}

\* evaluate(): the criteria that rule, function and file meet.
RequiresReview(name, f) ==
    Rules[f.rule].gated \/ f.scope \in Sensitive \/ name \in Sensitive

-----------------------------------------------------------------------------
(* The templates.  "No fix" is the empty set, a fix the set of one text.   *)

\* str.replace() on a block that a text holds at most once.
Replaced(text, e) == ReplaceFirstSubSeq(e.new, e.old, text)

\* _apply_heuristic(): what triggers it may be anywhere in the file, and if
\* the old blocks are not there it returns the text as it is.
Heuristic(f, text) ==
    {FoldLeft(Replaced, text, h.edits) :
        h \in {g \in Heuristics : f.cwe \in g.cwes /\ Range(text) \cap g.triggers # {}}}

\* The template, if any, for the line a finding names.
LineFix(f, text) ==
    {Fixes[p] : p \in {q \in DOMAIN Fixes : /\ f.line \in DOMAIN text
                                            /\ q = <<f.cwe, text[f.line]>>
                                            /\ \/ f.line = Len(text)
                                               \/ text[f.line + 1] \notin Fixes[q].unless}}

\* _apply_generic_pattern_fix(): one line becomes the template's.
Generic(f, text) ==
    {SubSeq(text, 1, f.line - 1) \o x.new \o SubSeq(text, f.line + 1, Len(text)) :
        x \in LineFix(f, text)}

\* The first two tiers of synthesize(): a heuristic comes before the line.
Templates(f, text) ==
    IF Heuristic(f, text) # {} THEN Heuristic(f, text) ELSE Generic(f, text)

-----------------------------------------------------------------------------
(* apply_all(): the fixes of a set of findings, from the last line up.      *)

\* One round of the loop: a fix that changes nothing is not listed.
Applied(f, done) ==
    LET candidates == Templates(f, done.text) \ {done.text}
    IN IF candidates = {}
       THEN done
       ELSE [text |-> CHOOSE t \in candidates : TRUE,
             applied |-> done.applied \cup {f}]

\* A plausible mutant of the next definition: top-down.
FirstOf(fs) ==
    CHOOSE f \in fs : \A g \in fs : \/ g.line < f.line
                                    \/ g.line = f.line /\ g.rule <= f.rule

\* The finding the loop comes to last: the sort is by line, reversed, and
\* keeps the order of the rules.
LastOf(fs) ==
    CHOOSE f \in fs : \A g \in fs : \/ g.line > f.line
                                    \/ g.line = f.line /\ g.rule <= f.rule

ApplyAll(fs, text) ==
    MapThenFoldSet(Applied, [text |-> text, applied |-> {}], LAMBDA f : f, LastOf, fs)

-----------------------------------------------------------------------------
(* References for the properties.                                          *)

\* Each finding's fix on the finding's own line, all at once.
Merged(fs, text) ==
    FlattenSeq([i \in DOMAIN text |->
        LET fixes == UNION {LineFix(f, text) : f \in {g \in fs : g.line = i}}
        IN IF fixes = {} THEN <<text[i]>> ELSE (CHOOSE x \in fixes : TRUE).new])

\* The lines of one function.
Body(text, fn) ==
    LET at == SetToSortSeq({i \in DOMAIN text : Scope(text, i) = fn}, <)
    IN [i \in DOMAIN at |-> text[at[i]]]

=============================================================================
