---------------------------- MODULE UnifiedDiff ----------------------------
(***************************************************************************)
(* Diffs: how synthesize() of kavach/agents/patch_agent.py has difflib     *)
(* make one, and how _apply_unified_diff() of kavach/sandbox/patcher.py    *)
(* replays one on the lines of a file.                                     *)
(*                                                                         *)
(* A text is the sequence of the lines that splitlines() makes of it, each *)
(* with its line ending; only the last may have none.  A line of a diff is *)
(* a record of its first character and the line it is about; the line that *)
(* opens a hunk holds the old line number instead.                         *)
(***************************************************************************)
EXTENDS SequencesExt, Integers

CONSTANTS Context,    \* the unchanged lines around a change in a hunk
          PlusPlus,   \* the lines that start with ++
          MinusMinus, \* the lines that start with --
          Unended,    \* the lines without a line ending
          Paged       \* the lines that end in \f, \v, U+2028...: for
                      \* splitlines(), but not for readlines()

ASSUME ContextAssumption == Context \in Nat \ {0}

-----------------------------------------------------------------------------
(* difflib.unified_diff().                                                 *)

Kept(x)    == [op |-> " ", line |-> x]
Added(x)   == [op |-> "+", line |-> x]
Removed(x) == [op |-> "-", line |-> x]
Hunk(n)    == [op |-> "@", start |-> n]

Changes(script) == {i \in DOMAIN script : script[i].op # " "}

\* A shortest edit script that turns a into b, removals first.
Script(a, b) ==
    LET script[p \in (0 .. Len(a)) \X (0 .. Len(b))] ==
            LET i == p[1]
                j == p[2]
                added   == Append(script[<<i, j - 1>>], Added(b[j]))
                removed == Append(script[<<i - 1, j>>], Removed(a[i]))
            IN CASE i = 0 /\ j = 0 -> <<>>
                 [] i = 0 /\ j > 0 -> added
                 [] i > 0 /\ j = 0 -> removed
                 [] i > 0 /\ j > 0 /\ a[i] = b[j] ->
                        Append(script[<<i - 1, j - 1>>], Kept(a[i]))
                 [] i > 0 /\ j > 0 /\ a[i] # b[j] ->
                        IF Len(removed) < Len(added) THEN removed ELSE added
    IN script[<<Len(a), Len(b)>>]

\* The lines of a script that its hunks show, and those of them that open one.
Near(script) ==
    {i \in DOMAIN script : \E c \in Changes(script) : i \in c - Context .. c + Context}

Opening(script) == {i \in Near(script) : i - 1 \notin Near(script)}

\* A hunk's old lines are numbered from 1; one without any names the line above.
OldStart(script, i) ==
    LET above == Cardinality({j \in 1 .. i - 1 : script[j].op # "+"})
        hunk  == {j \in i .. Len(script) : i .. j \subseteq Near(script)}
    IN IF \A j \in hunk : script[j].op = "+" THEN above ELSE above + 1

\* The hunks of a script, each behind the line that opens it.
Unified(script) ==
    FlattenSeq([i \in DOMAIN script |->
        CASE i \in Opening(script) -> <<Hunk(OldStart(script, i)), script[i]>>
          [] i \in Near(script) \ Opening(script) -> <<script[i]>>
          [] OTHER -> <<>>])

Diff(a, b) == Unified(Script(a, b))

-----------------------------------------------------------------------------
(* From the lines of difflib to a text, and back to lines.                 *)

Unfinished(d) == d.op # "@" /\ d.line \in Unended

\* The lines of the text that "".join(diff_lines) is.  A line that has no line
\* ending is one with the next: the rest of a line that removes something,
\* and as such skipped.  (Lines that keep or add such a line are the last.)
Resplit(diff) ==
    FlattenSeq([i \in DOMAIN diff |->
        IF i > 1 /\ Unfinished(diff[i - 1]) THEN <<>> ELSE <<diff[i]>>])

-----------------------------------------------------------------------------
(* _apply_unified_diff().                                                  *)

\* A diff line that starts with +++ or --- is taken for a header, also when
\* it adds a line that starts with ++ or removes one that starts with --.
Header(d) ==
    \/ d.op = "+" /\ d.line \in PlusPlus
    \/ d.op = "-" /\ d.line \in MinusMinus

\* Where the lines end that readlines() makes of a text: original_lines.
Ends(text) == {i \in DOMAIN text : text[i] \notin Paged \/ i = Len(text)}

EndOf(text, n) ==
    CHOOSE e \in {0} \cup Ends(text) : Cardinality(Ends(text) \cap 1 .. e) = n

\* The lines of the original from orig_idx on, up to line n.  A line past the
\* last raises an IndexError, which stands in the result for all that follows.
CopyTo(original, s, n) ==
    CASE s.next > n -> s
      [] s.next <= n /\ n <= Cardinality(Ends(original)) ->
            [next   |-> n + 1,
             result |-> s.result \o SubSeq(original, EndOf(original, s.next - 1) + 1,
                                                     EndOf(original, n))]
      [] OTHER -> [s EXCEPT !.result = Append(@, "IndexError")]

\* A plausible mutant of the next definition: a context line is copied, but
\* not counted.
ReplayUncounted(original, s, d) ==
    CASE d.op = "@" -> CopyTo(original, s, d.start - 1)
      [] d.op = "+" /\ ~Header(d) -> [s EXCEPT !.result = Append(@, d.line)]
      [] d.op = "-" /\ ~Header(d) -> [s EXCEPT !.next = @ + 1]
      [] d.op = " " -> [s EXCEPT !.result = Append(@, d.line)]
      [] OTHER -> s

\* One line of the diff.
Replay(original, s, d) ==
    CASE d.op = "@" -> CopyTo(original, s, d.start - 1)
      [] d.op = "+" /\ ~Header(d) -> [s EXCEPT !.result = Append(@, d.line)]
      [] d.op = "-" /\ ~Header(d) -> [s EXCEPT !.next = @ + 1]
      [] d.op = " " -> [next |-> s.next + 1, result |-> Append(s.result, d.line)]
      [] OTHER -> s

\* The result: the diff replayed, then what is left of the original.
ApplyDiff(original, diff) ==
    CopyTo(original,
           FoldLeft(LAMBDA s, d : Replay(original, s, d),
                    [next |-> 1, result |-> <<>>], Resplit(diff)),
           Cardinality(Ends(original))).result

-----------------------------------------------------------------------------
(* Reference for the properties.                                           *)

\* Nothing in a text and its diff is mistaken on the way: lines are the same
\* for readlines(), each line of the diff ends before the next, and none reads
\* as a header.
Unmistakable(text, diff) ==
    /\ Range(text) \cap Paged = {}
    /\ \A i \in DOMAIN diff : ~Header(diff[i]) /\ (i < Len(diff) => ~Unfinished(diff[i]))

=============================================================================
