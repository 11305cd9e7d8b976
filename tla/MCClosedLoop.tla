---------------------------- MODULE MCClosedLoop ----------------------------
(* Small instances of ClosedLoop: the benchmark auth_session, whose patch  *)
(* needs the header patched too, and a target patched by a language model  *)
(* whose patches may fail.                                                 *)
EXTENDS ClosedLoop, TLC

Static == [pipeline |-> "software", highRiskCWE |-> FALSE,
           sensitiveKeyword |-> FALSE, severity |-> "high", patchable |-> TRUE]

Crash == [Static EXCEPT !.severity = "critical"]

MCFindings == {Static, Crash}

MCHeaders == {"h0", "h1", "torn"}

\* orig goes with header h0, fixed with h1, fragile and asanless with both.
T(s, h) == [src |-> s, hdr |-> h]

MCSources == {"orig", "fixed", "fragile", "asanless", "garbled", "torn"}

MCInitTrees == {T("orig", "h0")}

MCPlainBuilds == {T("orig", "h0"), T("fixed", "h1")}
                   \cup [src : {"fragile", "asanless"}, hdr : {"h0", "h1"}]

MCAsanBuilds == MCPlainBuilds \ [src : {"asanless"}, hdr : {"h0", "h1"}]

MCAsanClean == {T("fixed", "h1")} \cup [src : {"fragile"}, hdr : {"h0", "h1"}]

MCPlainExits ==
    [t \in [src : MCSources, hdr : MCHeaders] |->
        CASE t.src = "orig" -> {TRUE, FALSE}
          [] t.src \in {"fixed", "asanless"} -> {TRUE}
          [] OTHER -> {FALSE}]

\* companion_header_patch() for CWE-416: the declaration is replaced once.
MCCompanion == ("h0" :> "h1") @@ ("h1" :> NoPatch) @@ ("torn" :> NoPatch)

\* The heuristic of the benchmark: a source that has its patch, or that lost
\* the lines it looks for, yields an empty diff.
Heuristic == [s \in MCSources |-> IF s = "orig" THEN {"fixed"} ELSE {NoPatch}]

\* A language model: any other answer, or none.
Model == [s \in MCSources |->
            (({"fixed", "fragile", "asanless"}) \ {s}) \cup {NoPatch}]

=============================================================================
