---------------------------- MODULE AuditLedger ----------------------------
(***************************************************************************)
(* The audit ledger of kavach/ledger/audit_ledger.py: an SQLite table each *)
(* of whose rows stores the hash of its own payload chained to the hash of *)
(* the row before it.  record() runs two SQL statements in two separate    *)
(* transactions: a SELECT of the last row_hash, then an INSERT with a      *)
(* commit.  Every Orchestrator and every request to the backend opens its  *)
(* own connection, so the calls of different writers interleave between    *)
(* the two statements.                                                     *)
(*                                                                         *)
(* SHA-256 is taken to be collision free: the hash of a payload chained to *)
(* prev is the sequence prev with the payload appended, so two hashes are  *)
(* equal exactly when everything hashed into them is.                      *)
(***************************************************************************)
EXTENDS Naturals, Sequences

CONSTANTS Writers,   \* connections on which record() is called
          Payloads   \* the AuditRecords, as the JSON text that is hashed

VARIABLES rows,  \* the table audit_log, by seq
          call   \* the record() call each writer is in

ledgerVars == <<rows, call>>

GenesisHash == << >>

Hash(prev, payload) == Append(prev, payload)

Hashes == Seq(Payloads)

\* shown stands for the columns record_id to recorded_at, which repeat the
\* fields of the payload and are what all_records() reads.
Rows == [shown : Payloads, payload : Payloads, prev : Hashes, hash : Hashes]

Idle == [pc |-> "idle"]

Calls == [pc : {"idle"}]
           \cup [pc : {"select"}, payload : Payloads]
           \cup [pc : {"insert"}, payload : Payloads, prev : Hashes]
           \cup [pc : {"returned", "raised"}, payload : Payloads]

TypeOK ==
    /\ rows \in Seq(Rows)
    /\ call \in [Writers -> Calls]

Init ==
    /\ rows = << >>
    /\ call = [w \in Writers |-> Idle]

-----------------------------------------------------------------------------
(* record(), split where another connection can run.                       *)

\* The mutated form of LastHash: the order of the SELECT is reversed.
LastHashAscending(rs) == IF rs = << >> THEN GenesisHash ELSE rs[1].hash

\* _last_hash(): the hash of the row with the highest seq.
LastHash(rs) == IF rs = << >> THEN GenesisHash ELSE rs[Len(rs)].hash

\* record() is entered with an AuditRecord.
Call(w, p) ==
    /\ call[w].pc = "idle"
    /\ call' = [call EXCEPT ![w] = [pc |-> "select", payload |-> p]]
    /\ UNCHANGED rows

\* The SELECT of _last_hash().
Select(w) ==
    /\ call[w].pc = "select"
    /\ call' = [call EXCEPT ![w] = [pc      |-> "insert",
                                    payload |-> call[w].payload,
                                    prev    |-> LastHash(rows)]]
    /\ UNCHANGED rows

\* The row record() inserts: it chains to the hash the SELECT returned.
NewRow(c) == [shown   |-> c.payload,
              payload |-> c.payload,
              prev    |-> c.prev,
              hash    |-> Hash(c.prev, c.payload)]

\* The mutated form of Finish: the hash of the last SELECT is kept.
FinishKeeping(w, how) == call' = [call EXCEPT ![w].pc = how]

Finish(w, how) ==
    call' = [call EXCEPT ![w] = [pc |-> how, payload |-> call[w].payload]]

\* The INSERT and its commit; AUTOINCREMENT puts the row last.
Insert(w) ==
    /\ call[w].pc = "insert"
    /\ rows' = Append(rows, NewRow(call[w]))
    /\ Finish(w, "returned")

\* sqlite3.OperationalError ("database is locked" after the busy timeout, a
\* full disk) leaves record() from either statement; no row is added.
Raise(w) ==
    /\ call[w].pc \in {"select", "insert"}
    /\ Finish(w, "raised")
    /\ UNCHANGED rows

\* The caller of record() goes on.
Return(w) ==
    /\ call[w].pc \in {"returned", "raised"}
    /\ call' = [call EXCEPT ![w] = Idle]
    /\ UNCHANGED rows

-----------------------------------------------------------------------------
(* verify_chain(): one pass over the rows, carrying the expected previous  *)
(* hash.                                                                   *)

ExpectedPrev(rs, i) == IF i = 1 THEN GenesisHash ELSE rs[i - 1].hash

\* Each row's prev_hash is the row_hash of the row before it.
Linked(rs) == \A i \in DOMAIN rs : rs[i].prev = ExpectedPrev(rs, i)

\* Each row's row_hash is the one recomputed from its payload.
Rehashed(rs) == \A i \in DOMAIN rs : rs[i].hash = Hash(rs[i].prev, rs[i].payload)

\* Mutated forms of VerifyChain: one of its two tests is left out.
VerifyHashes(rs) == Rehashed(rs)
VerifyLinks(rs) == Linked(rs)

VerifyChain(rs) == Linked(rs) /\ Rehashed(rs)

\* all_records(): the columns and the row_hash, without the payload.
AllRecords(rs) == [i \in DOMAIN rs |-> [shown |-> rs[i].shown, hash |-> rs[i].hash]]

=============================================================================
