---------------------------- MODULE CrashAnalysis ----------------------------
(***************************************************************************)
(* kavach/analyzers/crash_analyzer.py: an ASan log becomes a crash report, *)
(* and the report a finding.                                               *)
(*                                                                         *)
(* A log is the types its ERROR and its SUMMARY line name, "" without such *)
(* a line, and its frames; own tells the frames under src/ or include/     *)
(* from those of libc and of ASan's runtime.                               *)
(***************************************************************************)
EXTENDS Naturals, Sequences, FiniteSets

CONSTANT Templated  \* the CWEs synthesize() has a patch for, in this target

\* CrashAnalyzer.parse(): the first frame of the project's own, else the first.
Location(frames) ==
    LET own == {i \in DOMAIN frames : frames[i].own}
    IN  CASE own # {} -> frames[CHOOSE i \in own : \A j \in own : i <= j]
          [] own = {} /\ frames # << >> -> frames[1]
          [] frames = << >> -> [own |-> FALSE, sensitive |-> FALSE]

Parse(log) == [crash_type |-> IF log.error # "" THEN log.error ELSE log.summary,
               at         |-> Location(log.frames)]

\* The mutated form of Cwe: the stack's overflows are not in the table.
CweUnlessStack(type) ==
    IF type \in {"heap-buffer-overflow", "global-buffer-overflow", "SEGV"}
    THEN "CWE-119"
    ELSE ""

\* _CRASH_TYPE_TO_CWE
Cwe(type) ==
    CASE type \in {"heap-buffer-overflow", "stack-buffer-overflow",
                   "global-buffer-overflow", "SEGV"} -> "CWE-119"
      [] type \in {"use-after-free", "heap-use-after-free"} -> "CWE-416"
      [] OTHER -> ""

\* The mutated form of ToFinding: severity follows the CWE.
ToFindingRated(report) ==
    [pipeline         |-> "software",
     highRiskCWE      |-> FALSE,
     sensitiveKeyword |-> report.at.sensitive,
     severity         |-> IF Cwe(report.crash_type) = "CWE-416" THEN "critical" ELSE "high",
     patchable        |-> Cwe(report.crash_type) \in Templated]

\* to_finding(): a crash is CRITICAL, and of the language C; no CWE of the table
\* is a high-risk one.
ToFinding(report) ==
    [pipeline         |-> "software",
     highRiskCWE      |-> FALSE,
     sensitiveKeyword |-> report.at.sensitive,
     severity         |-> "critical",
     patchable        |-> Cwe(report.crash_type) \in Templated]

=============================================================================
