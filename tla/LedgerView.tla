----------------------------- MODULE LedgerView -----------------------------
(***************************************************************************)
(* The ledger in use: writers that call record(), readers that ask for     *)
(* GET /api/ledger (or `kavach ledger`), and retroactive edits of a stored *)
(* row, the event the chain exists to reveal.                              *)
(*                                                                         *)
(* In the backend each request runs on a thread of its own with its own    *)
(* connection, so calls of record() overlap.  The command line and         *)
(* run_demo.py, where one call ends before the next begins, are the        *)
(* behaviours among these in which no table forks.                         *)
(***************************************************************************)
EXTENDS AuditLedger, FiniteSets

CONSTANTS Readers,  \* requests for the ledger
          MaxRows   \* bound: no call starts once the table has this many rows

ASSUME MaxRowsAssumption == MaxRows \in Nat

VARIABLES written,  \* history: the payloads inserted, by seq
          view      \* the answer each reader is putting together

vars == <<ledgerVars, written, view>>

NoView == [pc |-> "idle"]

Listings == Seq([shown : Payloads, hash : Hashes])

Views == [pc : {"idle"}]
           \cup [pc : {"listed"}, records : Listings]
           \cup [pc : {"answered"}, records : Listings, ok : BOOLEAN]

\* Type invariant: every variable keeps the shape the actions give it.
ViewTypeOK ==
    /\ TypeOK
    /\ written \in Seq(Payloads)
    /\ view \in [Readers -> Views]

ViewInit ==
    /\ Init
    /\ written = << >>
    /\ view = [r \in Readers |-> NoView]

-----------------------------------------------------------------------------
(* The writers: AuditLedger's operations, with the history of what they    *)
(* insert.                                                                 *)

Request(w) ==
    /\ Len(rows) < MaxRows
    /\ \E p \in Payloads : Call(w, p)
    /\ UNCHANGED <<written, view>>

SelectLast(w) ==
    /\ Select(w)
    /\ UNCHANGED <<written, view>>

InsertRow(w) ==
    /\ Insert(w)
    /\ written' = Append(written, call[w].payload)
    /\ UNCHANGED view

Leave(w) ==
    /\ Raise(w) \/ Return(w)
    /\ UNCHANGED <<written, view>>

-----------------------------------------------------------------------------
(* Stored rows edited in place after they were written: the payload, at    *)
(* most once per row, or the columns beside it.                            *)

Edited == {i \in DOMAIN rows : rows[i].payload # written[i]}

EditedColumns == {i \in DOMAIN rows : rows[i].shown # written[i]}

EditPayload ==
    /\ \E i \in DOMAIN rows \ Edited, p \in Payloads :
          /\ p # rows[i].payload
          /\ rows' = [rows EXCEPT ![i].payload = p]
    /\ UNCHANGED <<call, written, view>>

EditColumns ==
    /\ \E i \in DOMAIN rows \ EditedColumns, p \in Payloads :
          /\ p # rows[i].shown
          /\ rows' = [rows EXCEPT ![i].shown = p]
    /\ UNCHANGED <<call, written, view>>

-----------------------------------------------------------------------------
(* get_ledger() and cmd_ledger(): all_records(), then verify_chain(), two  *)
(* SELECTs that do not share a transaction.                                *)

List(r) ==
    /\ view[r].pc = "idle"
    /\ view' = [view EXCEPT ![r] = [pc |-> "listed", records |-> AllRecords(rows)]]
    /\ UNCHANGED <<ledgerVars, written>>

Answer(r) ==
    /\ view[r].pc = "listed"
    /\ view' = [view EXCEPT ![r] = [pc      |-> "answered",
                                    records |-> view[r].records,
                                    ok      |-> VerifyChain(rows)]]
    /\ UNCHANGED <<ledgerVars, written>>

\* The dashboard drops the answer and may ask again.
Refresh(r) ==
    /\ view[r].pc = "answered"
    /\ view' = [view EXCEPT ![r] = NoView]
    /\ UNCHANGED <<ledgerVars, written>>

Read == \E r \in Readers : List(r) \/ Answer(r) \/ Refresh(r)

WriterStep(w) == Request(w) \/ SelectLast(w) \/ InsertRow(w) \/ Leave(w)

Next ==
    \/ \E w \in Writers : WriterStep(w)
    \/ EditPayload
    \/ EditColumns
    \/ Read

Spec == ViewInit /\ [][Next]_vars

-----------------------------------------------------------------------------
(* Properties.                                                             *)

\* Two rows that chain to the same hash: both were inserted after the same
\* SELECT result.
Forked == \E i, j \in DOMAIN rows : i # j /\ rows[i].prev = rows[j].prev

\* verify_chain() is FALSE for exactly two reasons, whatever the interleaving
\* of writers and edits: the payload of some row is not the one recorded, or
\* two calls of record() chained to the same row.
VerdictExplained == VerifyChain(rows) <=> (Edited = {} /\ ~Forked)

\* An answer that shows the chain as intact lists row hashes that form one
\* chain of the payloads recorded, although rows may have been inserted and
\* edited between its listing and its verdict.
GreenListIsOneChain ==
    \A r \in Readers :
        view[r].pc = "answered" /\ view[r].ok =>
            LET hash(i) == IF i = 0 THEN GenesisHash ELSE view[r].records[i].hash
            IN  \A i \in DOMAIN view[r].records :
                    hash(i) = Hash(hash(i - 1), written[i])

\* verify_chain()'s docstring read as a promise to an honest user: a table
\* nobody edited verifies.
UntamperedVerifies == Edited = {} /\ EditedColumns = {} => VerifyChain(rows)

\* The inductive strengthening of VerdictExplained and GreenListIsOneChain.
RowsRecorded ==
    /\ Len(rows) = Len(written)
    /\ \A i \in DOMAIN rows : rows[i].hash = Hash(rows[i].prev, written[i])

\* A call between its two statements holds a hash the table has.
PendingPrev ==
    \A w \in Writers :
        call[w].pc = "insert" =>
            \/ call[w].prev = GenesisHash
            \/ \E i \in DOMAIN rows : call[w].prev = rows[i].hash

\* A table without a fork is linked, and a linked one has no two equal
\* hashes, for their lengths differ.
LinkedUnlessForked ==
    /\ ~Forked => Linked(rows)
    /\ Linked(rows) => \A i \in DOMAIN rows : Len(rows[i].prev) = i - 1

\* A reader's listing is a prefix of the table as it is now.
ListedPrefix ==
    \A r \in Readers :
        view[r].pc \in {"listed", "answered"} =>
            /\ Len(view[r].records) <= Len(rows)
            /\ \A i \in DOMAIN view[r].records :
                  view[r].records[i].hash = rows[i].hash

ChainInv ==
    /\ ViewTypeOK
    /\ RowsRecorded
    /\ PendingPrev
    /\ LinkedUnlessForked
    /\ ListedPrefix
    /\ GreenListIsOneChain

Stored == [i \in DOMAIN rows |-> rows[i].payload]

\* What the ledger promises: it is a log whose verdict is positive exactly
\* when the payloads stored are those recorded.
Promise == INSTANCE TamperEvidentLog
             WITH log     <- written,
                  stored  <- Stored,
                  verdict <- VerifyChain(rows)

\* The ledger keeps that promise, whatever writers, readers and edits do, up
\* to the step in which two calls of record() chain to the same row; with one
\* writer at a time that step never comes.
TamperEvident ==
    /\ Promise!Init
    /\ [][~Forked' => [Promise!Next]_<<written, Stored, VerifyChain(rows)>>]_vars

=============================================================================
