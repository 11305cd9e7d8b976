-------------------------- MODULE CertifiedSource --------------------------
(***************************************************************************)
(* What the closed loop promises of a target's source (orchestrator.py,    *)
(* README "Per-finding retry/backtrack" and "Every decision is logged"):   *)
(* the source in effect changes only to a proven one, together with a      *)
(* certified record that names it; any other decision leaves a record and  *)
(* the source as it was.                                                   *)
(***************************************************************************)
EXTENDS Sequences

CONSTANTS Trees,   \* contents of the source and its header
          Proven   \* the trees that pass the Triple-Lock

VARIABLES released,  \* the tree in effect
          log        \* the decisions, in order

Init ==
    /\ released \in Trees
    /\ log = << >>

Release ==
    \E t \in Proven :
        /\ released' = t
        /\ log' = Append(log, [outcome |-> "certified", sha |-> t.src])

Refuse ==
    /\ \E how \in {"rejected", "pending_review"} :
          log' = Append(log, [outcome |-> how, sha |-> ""])
    /\ UNCHANGED released

Next == Release \/ Refuse

Spec == Init /\ [][Next]_<<released, log>>

=============================================================================
