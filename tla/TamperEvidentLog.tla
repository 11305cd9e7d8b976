-------------------------- MODULE TamperEvidentLog --------------------------
(***************************************************************************)
(* What the audit ledger promises its readers (audit_ledger.py, module     *)
(* docstring and verify_chain): records are only ever added at the end,    *)
(* and the verdict on the chain is positive exactly when what is stored is *)
(* what was recorded.                                                      *)
(***************************************************************************)
EXTENDS Naturals, Sequences

CONSTANT Payloads

VARIABLES log,     \* what was recorded, in order
          stored,  \* what the table holds now
          verdict  \* what verify_chain() says of it

Init ==
    /\ log = << >>
    /\ stored = << >>
    /\ verdict = TRUE

Judge == verdict' = (stored' = log')

Record ==
    /\ \E p \in Payloads :
          /\ log' = Append(log, p)
          /\ stored' = Append(stored, p)
    /\ Judge

Edit ==
    /\ \E i \in DOMAIN stored, p \in Payloads :
          stored' = [stored EXCEPT ![i] = p]
    /\ UNCHANGED log
    /\ Judge

Next == Record \/ Edit

Spec == Init /\ [][Next]_<<log, stored, verdict>>

=============================================================================
