------------------------------ MODULE MCFuzzing ------------------------------
(* Small instances of Fuzzing: the benchmark packet_parser, patched by its *)
(* heuristic, at its real widths.                                          *)
EXTENDS Fuzzing, TLC

MCSources == {"orig", "fixed", "garbled", "torn"}

MCHeaders == {"h0", "torn"}

T(s) == [src |-> s, hdr |-> "h0"]

MCRuns == Sessions \X (1 .. Iterations)

MCInitTrees == {T("orig")}

\* The standalone harness replays a frame of 400 bytes; "fixed" refuses it.
Exploit == [head |-> <<144, 1>>, size |-> 512]

MCBuilds == {T("orig"), T("fixed")}

MCAsanClean == {t \in MCBuilds : ~Reported(t.src \in Checked, Exploit)}

MCPlainExits ==
    [t \in [src : MCSources, hdr : MCHeaders] |->
        CASE t = T("orig") -> {TRUE, FALSE}
          [] t = T("fixed") -> {TRUE}
          [] OTHER -> {FALSE}]

MCSuggest == [s \in MCSources |-> IF s = "orig" THEN {"fixed"} ELSE {NoPatch}]

MCCompanion == [h \in MCHeaders |-> NoPatch]

MCFindings == {ToFinding(Parse(Stderr(kind))) : kind \in Kinds}

\* The repository's seeds hold a byte each; the other directory adds a frame
\* with more bytes than it declares, one flip away from an overrun.
Short == [head |-> <<10>>, size |-> 1]

Slack == [head |-> <<32, 0>>, size |-> 300]

MCSeedDirs == {{}, {Short}, {Short, Slack}}

=============================================================================
