---------------------------- MODULE MCLedgerView ----------------------------
(* Small instance of LedgerView: writers, readers and payloads are model   *)
(* values that nothing tells apart.                                        *)
EXTENDS LedgerView, TLC

Symmetry == Permutations(Writers) \cup Permutations(Payloads)

=============================================================================
