-------------------------- MODULE LedgerViewProofs --------------------------
(***************************************************************************)
(* What TLC shows of LedgerView on small instances, proved for any number  *)
(* of writers, readers, payloads and rows.                                 *)
(***************************************************************************)
EXTENDS LedgerView, SequenceTheorems, TLAPS

-----------------------------------------------------------------------------
(* The collision-free hash.                                                *)

\* A hash is the hash of one payload and one previous hash only, and longer
\* than the hash it chains to.
LEMMA HashFacts ==
    ASSUME NEW h \in Hashes, NEW p \in Payloads
    PROVE  /\ Hash(h, p) \in Hashes
           /\ Len(Hash(h, p)) = Len(h) + 1
           /\ \A g \in Hashes, q \in Payloads : Hash(h, p) = Hash(g, q) => p = q
  BY AppendProperties, AppendInjective DEF Hash, Hashes

\* The genesis hash is the hash of nothing.
LEMMA GenesisHashType == GenesisHash \in Hashes /\ Len(GenesisHash) = 0
  BY EmptySeq DEF GenesisHash, Hashes

-----------------------------------------------------------------------------
(* What a table is, and what the three actions that change it do to it.    *)

\* The rows of a well typed table are rows.
LEMMA RowsFacts ==
    ASSUME ViewTypeOK
    PROVE  /\ Len(rows) \in Nat
           /\ DOMAIN rows = 1 .. Len(rows)
           /\ \A i \in DOMAIN rows :
                 /\ rows[i] \in Rows
                 /\ rows[i].prev \in Hashes
                 /\ rows[i].hash \in Hashes
                 /\ rows[i].payload \in Payloads
                 /\ rows[i].shown \in Payloads
<1>1. rows \in Seq(Rows)
  BY DEF ViewTypeOK, TypeOK
<1>2. Len(rows) \in Nat /\ DOMAIN rows = 1 .. Len(rows)
  BY <1>1, LenProperties
<1>3. \A i \in DOMAIN rows : rows[i] \in Rows
  BY <1>1, <1>2, ElementOfSeq
<1> QED  BY <1>2, <1>3 DEF Rows

\* The history holds payloads.
LEMMA WrittenFacts ==
    ASSUME ViewTypeOK
    PROVE  /\ Len(written) \in Nat
           /\ DOMAIN written = 1 .. Len(written)
           /\ \A i \in DOMAIN written : written[i] \in Payloads
  BY LenProperties, ElementOfSeq DEF ViewTypeOK

\* _last_hash() answers with a hash: the genesis hash or that of a row.
LEMMA LastHashType ==
    ASSUME ViewTypeOK
    PROVE  LastHash(rows) \in Hashes
<1>1. CASE rows = << >>
  BY <1>1, GenesisHashType DEF LastHash
<1>2. CASE rows # << >>
  <2>1. Len(rows) \in DOMAIN rows
    BY <1>2, RowsFacts, EmptySeq DEF ViewTypeOK, TypeOK
  <2> QED  BY <1>2, <2>1, RowsFacts DEF LastHash
<1> QED  BY <1>1, <1>2

\* A call about to insert has the fields of a row.
LEMMA InsertingCall ==
    ASSUME ViewTypeOK, NEW w \in Writers, call[w].pc = "insert"
    PROVE  /\ call[w].payload \in Payloads
           /\ call[w].prev \in Hashes
           /\ NewRow(call[w]) \in Rows
<1>1. call[w] \in [pc : {"insert"}, payload : Payloads, prev : Hashes]
  BY DEF ViewTypeOK, TypeOK, Calls
<1> QED
  BY <1>1, HashFacts DEF NewRow, Rows

\* InsertRow adds one row, chained to the hash that was read, at the end.
LEMMA InsertEffect ==
    ASSUME ViewTypeOK, NEW w \in Writers, InsertRow(w)
    PROVE  /\ call[w].pc = "insert"
           /\ rows' \in Seq(Rows)
           /\ written' \in Seq(Payloads)
           /\ Len(rows') = Len(rows) + 1
           /\ DOMAIN rows' = 1 .. Len(rows) + 1
           /\ \A i \in DOMAIN rows : rows'[i] = rows[i]
           /\ rows'[Len(rows) + 1] = NewRow(call[w])
           /\ Len(written') = Len(written) + 1
           /\ DOMAIN written' = 1 .. Len(written) + 1
           /\ \A i \in DOMAIN written : written'[i] = written[i]
           /\ written'[Len(written) + 1] = call[w].payload
<1>1. /\ call[w].pc = "insert"
      /\ rows' = Append(rows, NewRow(call[w]))
      /\ written' = Append(written, call[w].payload)
  BY DEF InsertRow, Insert
<1>2. rows \in Seq(Rows) /\ written \in Seq(Payloads)
  BY DEF ViewTypeOK, TypeOK
<1>3. NewRow(call[w]) \in Rows /\ call[w].payload \in Payloads
  BY <1>1, InsertingCall
<1>4. rows' \in Seq(Rows) /\ written' \in Seq(Payloads)
  BY <1>1, <1>2, <1>3, AppendProperties
<1>5. DOMAIN rows' = 1 .. Len(rows') /\ DOMAIN written' = 1 .. Len(written')
  BY <1>4, LenProperties
<1> QED
  BY <1>1, <1>2, <1>3, <1>4, <1>5, AppendProperties, LenProperties

\* An edit leaves every link and every stored hash as it is.
LEMMA EditEffect ==
    ASSUME ViewTypeOK, EditPayload \/ EditColumns
    PROVE  /\ rows' \in Seq(Rows)
           /\ Len(rows') = Len(rows)
           /\ DOMAIN rows' = DOMAIN rows
           /\ \A i \in DOMAIN rows : /\ rows'[i].prev = rows[i].prev
                                     /\ rows'[i].hash = rows[i].hash
           /\ UNCHANGED <<call, written, view>>
<1>1. UNCHANGED <<call, written, view>>
  BY DEF EditPayload, EditColumns
<1>2. PICK i \in DOMAIN rows, r \in Rows :
         /\ rows' = [rows EXCEPT ![i] = r]
         /\ r.prev = rows[i].prev
         /\ r.hash = rows[i].hash
  <2>1. CASE EditPayload
    <3>1. PICK i \in DOMAIN rows, p \in Payloads :
             rows' = [rows EXCEPT ![i].payload = p]
      BY <2>1 DEF EditPayload
    <3>2. [rows[i] EXCEPT !.payload = p] \in Rows
      BY RowsFacts DEF Rows
    <3>3. rows' = [rows EXCEPT ![i] = [rows[i] EXCEPT !.payload = p]]
      BY <3>1
    <3>4. /\ [rows[i] EXCEPT !.payload = p].prev = rows[i].prev
          /\ [rows[i] EXCEPT !.payload = p].hash = rows[i].hash
      BY RowsFacts DEF Rows
    <3> QED  BY <3>2, <3>3, <3>4
  <2>2. CASE EditColumns
    <3>1. PICK i \in DOMAIN rows, p \in Payloads :
             rows' = [rows EXCEPT ![i].shown = p]
      BY <2>2 DEF EditColumns
    <3>2. [rows[i] EXCEPT !.shown = p] \in Rows
      BY RowsFacts DEF Rows
    <3>3. rows' = [rows EXCEPT ![i] = [rows[i] EXCEPT !.shown = p]]
      BY <3>1
    <3>4. /\ [rows[i] EXCEPT !.shown = p].prev = rows[i].prev
          /\ [rows[i] EXCEPT !.shown = p].hash = rows[i].hash
      BY RowsFacts DEF Rows
    <3> QED  BY <3>2, <3>3, <3>4
  <2> QED  BY <2>1, <2>2
<1>3. rows \in Seq(Rows)
  BY DEF ViewTypeOK, TypeOK
<1>4. /\ rows' \in Seq(Rows)
      /\ Len(rows') = Len(rows)
      /\ \A j \in 1 .. Len(rows) : rows'[j] = IF j = i THEN r ELSE rows[j]
  BY <1>2, <1>3, RowsFacts, ExceptSeq
<1>5. DOMAIN rows' = 1 .. Len(rows')
  BY <1>4, LenProperties
<1> QED
  BY <1>1, <1>2, <1>4, <1>5, RowsFacts

-----------------------------------------------------------------------------
(* Type correctness.                                                       *)

\* all_records() answers with a listing.
LEMMA ListingType ==
    ASSUME ViewTypeOK
    PROVE  /\ AllRecords(rows) \in Listings
           /\ Len(AllRecords(rows)) = Len(rows)
           /\ DOMAIN AllRecords(rows) = DOMAIN rows
           /\ \A i \in DOMAIN rows : AllRecords(rows)[i].hash = rows[i].hash
<1> DEFINE L == AllRecords(rows)
           E == [shown : Payloads, hash : Hashes]
<1>1. L \in [1 .. Len(rows) -> E]
  BY RowsFacts DEF AllRecords
<1>2. L \in Seq(E)
  <2>1. Len(rows) \in Nat
    BY RowsFacts
  <2> HIDE DEF L, E
  <2> QED  BY <1>1, <2>1, SeqDef
<1>3. DOMAIN L = 1 .. Len(L) /\ Len(L) \in Nat
  BY <1>2, LenProperties
<1>4. Len(L) = Len(rows)
  BY <1>1, <1>3, RowsFacts
<1> QED  BY <1>1, <1>2, <1>4, RowsFacts DEF AllRecords, Listings

\* Any step of the concurrent system keeps the types.
LEMMA TypeStep ==
    ASSUME ViewTypeOK, [Next]_vars
    PROVE  ViewTypeOK'
<1> USE DEF ViewTypeOK, TypeOK
<1>1. ASSUME NEW w \in Writers, Request(w)
      PROVE  ViewTypeOK'
  BY <1>1 DEF Request, Call, Calls
<1>2. ASSUME NEW w \in Writers, SelectLast(w)
      PROVE  ViewTypeOK'
  <2>1. call[w].payload \in Payloads
    BY <1>2 DEF SelectLast, Select, Calls
  <2>2. LastHash(rows) \in Hashes
    BY LastHashType
  <2> QED  BY <1>2, <2>1, <2>2 DEF SelectLast, Select, Calls
<1>3. ASSUME NEW w \in Writers, InsertRow(w)
      PROVE  ViewTypeOK'
  <2>1. rows' \in Seq(Rows) /\ written' \in Seq(Payloads)
    BY <1>3, InsertEffect
  <2>2. call[w].payload \in Payloads
    BY <1>3, InsertEffect, InsertingCall
  <2>3. /\ call' = [call EXCEPT ![w] = [pc |-> "returned", payload |-> call[w].payload]]
        /\ view' = view
    BY <1>3 DEF InsertRow, Insert, Finish
  <2> QED  BY <2>1, <2>2, <2>3 DEF Calls
<1>4. ASSUME NEW w \in Writers, Leave(w)
      PROVE  ViewTypeOK'
  BY <1>4 DEF Leave, Raise, Return, Finish, Idle, Calls
<1>5. CASE EditPayload \/ EditColumns
  BY <1>5, EditEffect
<1>6. ASSUME NEW r \in Readers, List(r)
      PROVE  ViewTypeOK'
  BY <1>6, ListingType DEF List, Views, ledgerVars
<1>7. ASSUME NEW r \in Readers, Answer(r)
      PROVE  ViewTypeOK'
  <2>1. VerifyChain(rows) \in BOOLEAN
    BY DEF VerifyChain
  <2>2. view[r].records \in Listings
    BY <1>7 DEF Answer, Views
  <2> HIDE DEF ViewTypeOK, TypeOK
  <2>3. view \in [Readers -> Views]
    BY DEF ViewTypeOK
  <2>4. /\ view' = [view EXCEPT ![r] = [pc      |-> "answered",
                                        records |-> view[r].records,
                                        ok      |-> VerifyChain(rows)]]
        /\ UNCHANGED <<rows, call, written>>
    BY <1>7 DEF Answer, ledgerVars
  <2>5. view' \in [Readers -> Views]
    BY <2>1, <2>2, <2>3, <2>4 DEF Views
  <2> QED  BY <2>4, <2>5 DEF ViewTypeOK, TypeOK
<1>8. ASSUME NEW r \in Readers, Refresh(r)
      PROVE  ViewTypeOK'
  BY <1>8 DEF Refresh, NoView, Views, ledgerVars
<1>9. CASE UNCHANGED vars
  BY <1>9 DEF vars, ledgerVars
<1> QED
  BY <1>1, <1>2, <1>3, <1>4, <1>5, <1>6, <1>7, <1>8, <1>9
     DEF Next, WriterStep, Read

\* The empty ledger is well typed.
LEMMA TypeInit == ViewInit => ViewTypeOK
  BY EmptySeq
     DEF ViewInit, Init, ViewTypeOK, TypeOK, Idle, Calls, NoView, Views

\* Whatever the writers, readers and edits do, the table, the pending calls
\* and the answers keep their types.
THEOREM TypeCorrect == Spec => []ViewTypeOK
<1>1. ViewTypeOK /\ [Next]_vars => ViewTypeOK'
  BY TypeStep
<1> QED  BY <1>1, TypeInit, PTL DEF Spec

-----------------------------------------------------------------------------
(* The chain: one lemma per conjunct of ChainInv that a step can disturb.  *)

\* Each row keeps the hash it was recorded with, and no other is stored.
LEMMA RowsRecordedStep ==
    ASSUME ChainInv, [Next]_vars
    PROVE  RowsRecorded'
<1> ViewTypeOK /\ RowsRecorded
  BY DEF ChainInv
<1>1. ASSUME NEW w \in Writers, InsertRow(w)
      PROVE  RowsRecorded'
  <2>1. /\ DOMAIN rows = DOMAIN written
        /\ DOMAIN rows' = 1 .. Len(rows) + 1
        /\ Len(rows') = Len(written')
    BY <1>1, InsertEffect, RowsFacts, WrittenFacts DEF RowsRecorded
  <2>2. ASSUME NEW i \in 1 .. Len(rows)
        PROVE  rows'[i].hash = Hash(rows'[i].prev, written'[i])
    BY <1>1, <2>1, InsertEffect, RowsFacts DEF RowsRecorded
  <2>3. LET i == Len(rows) + 1
        IN  rows'[i].hash = Hash(rows'[i].prev, written'[i])
    <3>1. /\ rows'[Len(rows) + 1] = NewRow(call[w])
          /\ written'[Len(rows) + 1] = call[w].payload
      BY <1>1, InsertEffect DEF RowsRecorded
    <3> QED  BY <3>1 DEF NewRow
  <2> QED  BY <2>1, <2>2, <2>3, RowsFacts DEF RowsRecorded
<1>2. CASE EditPayload \/ EditColumns
  BY <1>2, EditEffect DEF RowsRecorded
<1>3. CASE UNCHANGED <<rows, written>>
  BY <1>3 DEF RowsRecorded
<1> QED
  BY <1>1, <1>2, <1>3
     DEF Next, WriterStep, Request, Call, SelectLast, Select, Leave, Raise, Return,
         Read, List, Answer, Refresh, vars, ledgerVars

\* The hash a call has read stays in the table until it inserts.
LEMMA PendingPrevStep ==
    ASSUME ChainInv, [Next]_vars
    PROVE  PendingPrev'
<1> ViewTypeOK /\ PendingPrev
  BY DEF ChainInv
<1>1. ASSUME NEW w \in Writers, SelectLast(w)
      PROVE  PendingPrev'
  <2>1. /\ rows' = rows
        /\ call' = [call EXCEPT ![w] = [pc      |-> "insert",
                                       payload |-> call[w].payload,
                                       prev    |-> LastHash(rows)]]
    BY <1>1 DEF SelectLast, Select
  <2>2. LastHash(rows) = GenesisHash \/ \E i \in DOMAIN rows : LastHash(rows) = rows[i].hash
    BY RowsFacts, EmptySeq DEF LastHash, ViewTypeOK, TypeOK
  <2> QED  BY <2>1, <2>2 DEF PendingPrev, ViewTypeOK, TypeOK
<1>2. ASSUME NEW w \in Writers, InsertRow(w)
      PROVE  PendingPrev'
  <2>1. call' = [call EXCEPT ![w] = [pc |-> "returned", payload |-> call[w].payload]]
    BY <1>2 DEF InsertRow, Insert, Finish
  <2>2. \A i \in DOMAIN rows : i \in DOMAIN rows' /\ rows'[i] = rows[i]
    BY <1>2, InsertEffect, RowsFacts
  <2> QED  BY <2>1, <2>2 DEF PendingPrev, ViewTypeOK, TypeOK
<1>3. CASE EditPayload \/ EditColumns
  BY <1>3, EditEffect DEF PendingPrev
<1>4. ASSUME NEW w \in Writers, Request(w) \/ Leave(w)
      PROVE  PendingPrev'
  <2>1. ASSUME NEW c, call' = [call EXCEPT ![w] = c], c.pc # "insert", UNCHANGED rows
        PROVE  PendingPrev'
    BY <2>1 DEF PendingPrev, ViewTypeOK, TypeOK
  <2> DEFINE Done(how) == [pc |-> how, payload |-> call[w].payload]
  <2>2. CASE Request(w)
    <3> DEFINE Begun(p) == [pc |-> "select", payload |-> p]
    <3>1. PICK p : call' = [call EXCEPT ![w] = Begun(p)] /\ UNCHANGED rows
      BY <2>2 DEF Request, Call
    <3>2. Begun(p).pc # "insert"
      OBVIOUS
    <3> HIDE DEF Begun
    <3> QED  BY <2>1, <3>1, <3>2
  <2>3. CASE Raise(w)
    <3>1. call' = [call EXCEPT ![w] = Done("raised")] /\ UNCHANGED rows
      BY <2>3 DEF Raise, Finish
    <3>2. Done("raised").pc # "insert"
      OBVIOUS
    <3> HIDE DEF Done
    <3> QED  BY <2>1, <3>1, <3>2
  <2>4. CASE Return(w)
    <3>1. call' = [call EXCEPT ![w] = Idle] /\ UNCHANGED rows
      BY <2>4 DEF Return
    <3>2. Idle.pc # "insert"
      BY DEF Idle
    <3> QED  BY <2>1, <3>1, <3>2
  <2> QED  BY <1>4, <2>2, <2>3, <2>4 DEF Leave
<1>5. CASE UNCHANGED <<rows, call>>
  BY <1>5 DEF PendingPrev
<1> QED
  BY <1>1, <1>2, <1>3, <1>4, <1>5
     DEF Next, WriterStep, Read, List, Answer, Refresh, vars, ledgerVars

\* The heart of the argument: a row inserted after a linked table either
\* chains to its last row, or forks at the row it chains to.
LEMMA LinkedStep ==
    ASSUME ChainInv, [Next]_vars
    PROVE  LinkedUnlessForked'
<1> ViewTypeOK /\ RowsRecorded /\ PendingPrev /\ LinkedUnlessForked
  BY DEF ChainInv
<1>1. ASSUME NEW w \in Writers, InsertRow(w)
      PROVE  LinkedUnlessForked'
  <2> DEFINE n == Len(rows)
             new == rows'[n + 1]
  <2>1. /\ n \in Nat
        /\ DOMAIN rows = 1 .. n
        /\ DOMAIN rows' = 1 .. n + 1
        /\ \A i \in 1 .. n : rows'[i] = rows[i]
        /\ new.prev = call[w].prev
        /\ new.prev \in Hashes
    <3>1. new = NewRow(call[w]) /\ call[w].prev \in Hashes
      BY <1>1, InsertEffect, InsertingCall
    <3>2. new.prev = call[w].prev
      BY <3>1 DEF NewRow
    <3> HIDE DEF new
    <3> QED  BY <1>1, <3>1, <3>2, RowsFacts, InsertEffect
  <2>2. new.prev = GenesisHash \/ \E i \in 1 .. n : new.prev = rows[i].hash
    BY <1>1, <2>1, InsertEffect DEF PendingPrev
  <2> HIDE DEF new, n
  <2>3. ~Forked' => ~Forked
    BY <2>1 DEF Forked
  <2>4. Linked(rows') => Linked(rows)
    BY <2>1 DEF Linked, ExpectedPrev
  <2>5. ASSUME ~Forked'
        PROVE  Linked(rows')
    <3>1. Linked(rows)
      BY <2>3, <2>5 DEF LinkedUnlessForked
    <3>2. \A i \in 1 .. n : new.prev # rows[i].prev
      BY <2>1, <2>5 DEF Forked, new
    <3>3. CASE n = 0
      <4>1. new.prev = GenesisHash
        BY <2>2, <3>3
      <4> QED  BY <2>1, <3>3, <4>1 DEF Linked, ExpectedPrev, new
    <3>4. CASE n # 0
      <4>1. rows[1].prev = GenesisHash
        BY <2>1, <3>1, <3>4 DEF Linked, ExpectedPrev
      <4>2. PICK i \in 1 .. n : new.prev = rows[i].hash
        BY <2>1, <2>2, <3>2, <3>4, <4>1
      <4>3. ASSUME i # n
            PROVE  FALSE
        <5>1. i + 1 \in 1 .. n /\ i + 1 # 1 /\ (i + 1) - 1 = i
          BY <2>1, <4>3
        <5>2. rows[i + 1].prev = rows[i].hash
          BY <2>1, <3>1, <5>1 DEF Linked, ExpectedPrev
        <5> QED  BY <3>2, <4>2, <5>1, <5>2
      <4> QED  BY <2>1, <3>1, <3>4, <4>2, <4>3 DEF Linked, ExpectedPrev, new
    <3> QED  BY <3>3, <3>4
  <2>6. ASSUME Linked(rows')
        PROVE  \A i \in DOMAIN rows' : Len(rows'[i].prev) = i - 1
    <3>1. \A i \in 1 .. n : Len(rows[i].prev) = i - 1
      BY <2>1, <2>4, <2>6 DEF LinkedUnlessForked
    <3>2. Len(new.prev) = n
      <4>1. CASE n = 0
        BY <2>2, <4>1, GenesisHashType
      <4>2. CASE n # 0
        <5>1. n \in DOMAIN rows /\ n \in DOMAIN written
          BY <2>1, <4>2, WrittenFacts DEF RowsRecorded, n
        <5>2. new.prev = rows[n].hash
          BY <2>1, <2>6, <4>2 DEF Linked, ExpectedPrev, new
        <5>3. rows[n].hash = Hash(rows[n].prev, written[n])
          BY <5>1 DEF RowsRecorded
        <5>4. Len(rows[n].hash) = Len(rows[n].prev) + 1
          BY <5>1, <5>3, RowsFacts, WrittenFacts, HashFacts
        <5> QED  BY <2>1, <3>1, <4>2, <5>2, <5>4
      <4> QED  BY <4>1, <4>2
    <3>3. ASSUME NEW i \in 1 .. n + 1
          PROVE  Len(rows'[i].prev) = i - 1
      <4>1. CASE i = n + 1
        BY <2>1, <3>2, <4>1 DEF new
      <4>2. CASE i # n + 1
        <5>1. i \in 1 .. n
          BY <2>1, <4>2
        <5>2. rows'[i].prev = rows[i].prev
          BY <2>1, <5>1
        <5> QED  BY <3>1, <5>1, <5>2
      <4> QED  BY <4>1, <4>2
    <3> QED  BY <2>1, <3>3
  <2> QED  BY <2>5, <2>6 DEF LinkedUnlessForked
<1>2. ASSUME /\ DOMAIN rows' = DOMAIN rows
             /\ \A i \in DOMAIN rows : /\ rows'[i].prev = rows[i].prev
                                       /\ rows'[i].hash = rows[i].hash
      PROVE  LinkedUnlessForked'
  <2>1. Forked' <=> Forked
    BY <1>2 DEF Forked
  <2>2. Linked(rows') <=> Linked(rows)
    BY <1>2, RowsFacts DEF Linked, ExpectedPrev
  <2> QED  BY <1>2, <2>1, <2>2 DEF LinkedUnlessForked
<1>3. CASE EditPayload \/ EditColumns
  BY <1>2, <1>3, EditEffect
<1>4. CASE UNCHANGED rows
  BY <1>2, <1>4
<1> QED
  BY <1>1, <1>3, <1>4
     DEF Next, WriterStep, Request, Call, SelectLast, Select, Leave, Raise, Return,
         Read, List, Answer, Refresh, vars, ledgerVars

\* Steps only add rows, and leave the links and the history that are there.
LEMMA TableGrows ==
    ASSUME ChainInv, [Next]_vars
    PROVE  /\ Len(rows') \in Nat /\ Len(rows) <= Len(rows')
           /\ \A i \in DOMAIN rows : /\ i \in DOMAIN rows'
                                     /\ rows'[i].hash = rows[i].hash
                                     /\ written'[i] = written[i]
<1> ViewTypeOK /\ RowsRecorded
  BY DEF ChainInv
<1>1. ASSUME NEW w \in Writers, InsertRow(w)
      PROVE  /\ Len(rows') = Len(rows) + 1
             /\ \A i \in DOMAIN rows : /\ i \in DOMAIN rows'
                                       /\ rows'[i].hash = rows[i].hash
                                       /\ written'[i] = written[i]
  BY <1>1, InsertEffect, RowsFacts, WrittenFacts DEF RowsRecorded
<1>2. CASE EditPayload \/ EditColumns
  BY <1>2, EditEffect, RowsFacts
<1>3. CASE UNCHANGED <<rows, written>>
  BY <1>3, RowsFacts
<1> QED
  BY <1>1, <1>2, <1>3, RowsFacts
     DEF Next, WriterStep, Request, Call, SelectLast, Select, Leave, Raise, Return,
         Read, List, Answer, Refresh, vars, ledgerVars

\* A reader's own steps: what it lists is the table, and what it answers is
\* what it listed.
LEMMA ViewStep ==
    ASSUME ViewTypeOK, [Next]_vars, NEW r \in Readers
    PROVE  \/ view'[r] = view[r]
           \/ view'[r].pc = "idle"
           \/ /\ UNCHANGED <<rows, written>>
              /\ view'[r] = [pc |-> "listed", records |-> AllRecords(rows)]
           \/ /\ UNCHANGED <<rows, written>>
              /\ view[r].pc = "listed"
              /\ view'[r] = [pc      |-> "answered",
                             records |-> view[r].records,
                             ok      |-> VerifyChain(rows)]
<1>1. ASSUME NEW s \in Readers, List(s) \/ Answer(s) \/ Refresh(s), s # r
      PROVE  view'[r] = view[r]
  BY <1>1 DEF List, Answer, Refresh, ViewTypeOK
<1>2. CASE List(r)
  BY <1>2 DEF List, ViewTypeOK, ledgerVars
<1>3. CASE Answer(r)
  BY <1>3 DEF Answer, ViewTypeOK, ledgerVars
<1>4. CASE Refresh(r)
  BY <1>4 DEF Refresh, NoView, ViewTypeOK
<1>5. CASE UNCHANGED view
  BY <1>5
<1>6. \/ UNCHANGED view
      \/ \E s \in Readers : List(s) \/ Answer(s) \/ Refresh(s)
  BY DEF Next, WriterStep, Request, SelectLast, InsertRow, Leave, EditPayload,
         EditColumns, Read, vars
<1> QED  BY <1>1, <1>2, <1>3, <1>4, <1>5, <1>6

\* A listing in a view is a listing.
LEMMA ListedRecords ==
    ASSUME ViewTypeOK, NEW r \in Readers, view[r].pc \in {"listed", "answered"}
    PROVE  /\ Len(view[r].records) \in Nat
           /\ DOMAIN view[r].records = 1 .. Len(view[r].records)
<1>1. view[r].records \in Listings
  BY DEF ViewTypeOK, Views
<1> QED  BY <1>1, LenProperties DEF Listings

\* A listing stays a prefix of the table, for rows are only added.
LEMMA ListedPrefixStep ==
    ASSUME ChainInv, [Next]_vars
    PROVE  ListedPrefix'
<1> ViewTypeOK /\ ListedPrefix
  BY DEF ChainInv
<1> SUFFICES ASSUME NEW r \in Readers, view'[r].pc \in {"listed", "answered"}
             PROVE  /\ Len(view'[r].records) <= Len(rows')
                    /\ \A i \in DOMAIN view'[r].records :
                          view'[r].records[i].hash = rows'[i].hash
  BY DEF ListedPrefix
<1>1. ASSUME view[r].pc \in {"listed", "answered"}, view'[r].records = view[r].records
      PROVE  /\ Len(view'[r].records) <= Len(rows')
             /\ \A i \in DOMAIN view'[r].records :
                   view'[r].records[i].hash = rows'[i].hash
  <2>1. Len(view[r].records) <= Len(rows)
    BY <1>1 DEF ListedPrefix
  <2>2. \A i \in DOMAIN view[r].records :
           i \in DOMAIN rows /\ view[r].records[i].hash = rows[i].hash
    BY <1>1, <2>1, ListedRecords, RowsFacts DEF ListedPrefix
  <2> QED  BY <1>1, <2>1, <2>2, TableGrows, RowsFacts, ListedRecords
<1>2. CASE view'[r] = view[r]
  BY <1>1, <1>2
<1>3. CASE /\ UNCHANGED <<rows, written>>
           /\ view'[r] = [pc |-> "listed", records |-> AllRecords(rows)]
  BY <1>3, ListingType, RowsFacts
<1>4. CASE /\ view[r].pc = "listed"
           /\ view'[r] = [pc      |-> "answered",
                          records |-> view[r].records,
                          ok      |-> VerifyChain(rows)]
  BY <1>1, <1>4
<1> QED  BY <1>2, <1>3, <1>4, ViewStep

\* A verdict given on a linked, unedited table covers the listing made before.
LEMMA GreenListStep ==
    ASSUME ChainInv, [Next]_vars
    PROVE  GreenListIsOneChain'
<1> ViewTypeOK /\ RowsRecorded /\ ListedPrefix /\ GreenListIsOneChain
  BY DEF ChainInv
<1> DEFINE hash(v, i) == IF i = 0 THEN GenesisHash ELSE v.records[i].hash
<1> SUFFICES ASSUME NEW r \in Readers, view'[r].pc = "answered", view'[r].ok,
                    NEW i \in DOMAIN view'[r].records
             PROVE  hash(view'[r], i) = Hash(hash(view'[r], i - 1), written'[i])
  BY DEF GreenListIsOneChain
<1>1. CASE view'[r] = view[r]
  <2>1. i \in DOMAIN rows
    BY <1>1, ListedRecords, RowsFacts DEF ListedPrefix
  <2> QED  BY <1>1, <2>1, TableGrows DEF GreenListIsOneChain
<1>2. CASE /\ UNCHANGED <<rows, written>>
           /\ view[r].pc = "listed"
           /\ view'[r] = [pc      |-> "answered",
                          records |-> view[r].records,
                          ok      |-> VerifyChain(rows)]
  <2> DEFINE v == view[r].records
  <2>1. /\ DOMAIN v = 1 .. Len(v) /\ Len(v) \in Nat
        /\ i \in DOMAIN v
        /\ \A j \in DOMAIN v : j \in DOMAIN rows /\ v[j].hash = rows[j].hash
    BY <1>2, ListedRecords, RowsFacts DEF ListedPrefix
  <2>2. rows[i].prev = hash(view[r], i - 1)
    <3>1. rows[i].prev = ExpectedPrev(rows, i)
      <4>1. view'[r].ok = VerifyChain(rows)
        BY <1>2
      <4>2. VerifyChain(rows)
        BY <4>1, Zenon
      <4> QED  BY <2>1, <4>2 DEF VerifyChain, Linked
    <3>2. CASE i = 1
      BY <3>1, <3>2 DEF ExpectedPrev
    <3>3. CASE i # 1
      <4>1. i - 1 # 0 /\ i - 1 \in DOMAIN v
        BY <2>1, <3>3
      <4> QED  BY <2>1, <3>1, <3>3, <4>1 DEF ExpectedPrev
    <3> QED  BY <3>2, <3>3
  <2>3. rows[i].hash = Hash(rows[i].prev, written[i])
    BY <2>1 DEF RowsRecorded
  <2>4. i # 0
    BY <2>1
  <2> QED  BY <1>2, <2>1, <2>2, <2>3, <2>4
<1> QED  BY <1>1, <1>2, ViewStep

\* A row's stored hash is the one recomputed from its payload exactly when
\* its payload is the one recorded.
LEMMA RehashedUnlessEdited ==
    ASSUME ViewTypeOK, RowsRecorded
    PROVE  Rehashed(rows) <=> Edited = {}
<1>1. \A i \in DOMAIN rows :
         rows[i].hash = Hash(rows[i].prev, rows[i].payload)
           <=> rows[i].payload = written[i]
  <2> TAKE i \in DOMAIN rows
  <2>1. /\ rows[i].prev \in Hashes
        /\ rows[i].payload \in Payloads
        /\ written[i] \in Payloads
    BY RowsFacts, WrittenFacts DEF RowsRecorded
  <2>2. rows[i].hash = Hash(rows[i].prev, written[i])
    BY DEF RowsRecorded
  <2> QED  BY <2>1, <2>2, HashFacts
<1> QED  BY <1>1 DEF Rehashed, Edited

\* Equal previous hashes have equal lengths, which a linked table rules out.
LEMMA LinkedIffUnforked ==
    ASSUME ViewTypeOK, LinkedUnlessForked
    PROVE  Linked(rows) <=> ~Forked
<1>1. ASSUME Linked(rows), NEW i \in DOMAIN rows, NEW j \in DOMAIN rows,
             rows[i].prev = rows[j].prev
      PROVE  i = j
  <2>1. Len(rows[i].prev) = i - 1 /\ Len(rows[j].prev) = j - 1
    BY <1>1 DEF LinkedUnlessForked
  <2> QED  BY <1>1, <2>1, RowsFacts
<1> QED  BY <1>1 DEF Forked, LinkedUnlessForked

\* The inductive invariant says why verify_chain() is negative.
LEMMA VerdictFollows == ChainInv => VerdictExplained
  BY RehashedUnlessEdited, LinkedIffUnforked
     DEF ChainInv, VerdictExplained, VerifyChain

\* The empty ledger satisfies the inductive invariant.
LEMMA ChainInit == ViewInit => ChainInv
<1> SUFFICES ASSUME ViewInit
             PROVE  ChainInv
  OBVIOUS
<1>1. /\ rows = << >> /\ written = << >>
      /\ \A w \in Writers : call[w].pc = "idle"
      /\ \A r \in Readers : view[r].pc = "idle"
  BY DEF ViewInit, Init, Idle, NoView
<1>2. Len(rows) = Len(written) /\ DOMAIN rows = {}
  BY <1>1
<1> QED
  BY <1>1, <1>2, TypeInit
     DEF ChainInv, RowsRecorded, PendingPrev, LinkedUnlessForked, Linked, Forked,
         ListedPrefix, GreenListIsOneChain

\* Every step of the concurrent ledger preserves the inductive invariant.
LEMMA ChainStep == ChainInv /\ [Next]_vars => ChainInv'
<1>1. ChainInv => ViewTypeOK
  BY DEF ChainInv
<1> QED
  BY <1>1, TypeStep, RowsRecordedStep, PendingPrevStep, LinkedStep, ListedPrefixStep,
     GreenListStep
     DEF ChainInv

\* verify_chain() returns False exactly when a payload was edited or two
\* overlapping calls of record() forked the chain, for any number of writers.
THEOREM VerdictIsExplained == Spec => []VerdictExplained
<1>1. Spec => []ChainInv
  BY ChainInit, ChainStep, PTL DEF Spec
<1> QED  BY <1>1, VerdictFollows, PTL

\* A positive answer of GET /api/ledger never lists row hashes that do not
\* form one chain over the payloads recorded.
THEOREM GreenListsAreChains == Spec => []GreenListIsOneChain
<1>1. Spec => []ChainInv
  BY ChainInit, ChainStep, PTL DEF Spec
<1>2. ChainInv => GreenListIsOneChain
  BY DEF ChainInv
<1> QED  BY <1>1, <1>2, PTL

-----------------------------------------------------------------------------
(* Until the table forks, the ledger implements its promise.               *)

\* No step takes a fork away.
LEMMA ForksStay ==
    ASSUME ChainInv, [Next]_vars, Forked
    PROVE  Forked'
<1> ViewTypeOK /\ RowsRecorded
  BY DEF ChainInv
<1>1. \A i \in DOMAIN rows : i \in DOMAIN rows' /\ rows'[i].prev = rows[i].prev
  <2>1. ASSUME NEW w \in Writers, InsertRow(w)
        PROVE  \A i \in DOMAIN rows : i \in DOMAIN rows' /\ rows'[i].prev = rows[i].prev
    BY <2>1, InsertEffect, RowsFacts
  <2>2. CASE EditPayload \/ EditColumns
    BY <2>2, EditEffect
  <2>3. CASE UNCHANGED rows
    BY <2>3
  <2> QED
    BY <2>1, <2>2, <2>3
       DEF Next, WriterStep, Request, Call, SelectLast, Select, Leave, Raise, Return,
           Read, List, Answer, Refresh, vars, ledgerVars
<1>2. PICK i \in DOMAIN rows, j \in DOMAIN rows : i # j /\ rows[i].prev = rows[j].prev
  BY DEF Forked
<1>3. /\ i \in DOMAIN rows' /\ j \in DOMAIN rows'
      /\ rows'[i].prev = rows'[j].prev
  BY <1>1, <1>2
<1> QED  BY <1>2, <1>3 DEF Forked

\* The refinement mapping stores the payloads, and the verdict compares them
\* with what was recorded.
LEMMA StoredIs ==
    ASSUME ViewTypeOK
    PROVE  /\ Stored \in Seq(Payloads)
           /\ Len(Stored) = Len(rows)
           /\ DOMAIN Stored = DOMAIN rows
<1>1. Stored \in [1 .. Len(rows) -> Payloads]
  BY RowsFacts DEF Stored
<1>2. Stored \in Seq(Payloads)
  BY <1>1, RowsFacts, SeqDef
<1> QED  BY <1>1, <1>2, RowsFacts, LenProperties

\* Without a fork the verdict compares what is stored with what was recorded.
LEMMA VerdictCompares == ChainInv /\ ~Forked => VerifyChain(rows) = (Stored = written)
<1> SUFFICES ASSUME ChainInv, ~Forked
             PROVE  VerifyChain(rows) = (Stored = written)
  OBVIOUS
<1> /\ ViewTypeOK /\ RowsRecorded /\ Linked(rows)
  BY DEF ChainInv, LinkedUnlessForked
<1>1. VerifyChain(rows) <=> Edited = {}
  BY RehashedUnlessEdited DEF VerifyChain
<1>2. Stored = written <=> \A i \in DOMAIN rows : rows[i].payload = written[i]
  <2>1. written \in Seq(Payloads) /\ Len(Stored) = Len(written)
    BY StoredIs DEF ViewTypeOK, RowsRecorded
  <2>2. Stored = written <=> \A i \in 1 .. Len(Stored) : Stored[i] = written[i]
    BY <2>1, StoredIs, SeqEqual
  <2> QED  BY <2>2, StoredIs, RowsFacts DEF Stored
<1>3. Edited = {} <=> \A i \in DOMAIN rows : rows[i].payload = written[i]
  BY DEF Edited
<1>4. VerifyChain(rows) \in BOOLEAN
  BY DEF VerifyChain
<1> QED  BY <1>1, <1>2, <1>3, <1>4

\* The empty ledger is the empty log.
LEMMA PromiseInit == ViewInit => Promise!Init
<1> SUFFICES ASSUME ViewInit
             PROVE  Promise!Init
  OBVIOUS
<1>1. rows = << >> /\ written = << >>
  BY DEF ViewInit, Init
<1>2. Stored = << >>
  BY <1>1 DEF Stored
<1>3. VerifyChain(rows) = TRUE
  BY <1>1 DEF VerifyChain, Linked, Rehashed
<1> QED  BY <1>1, <1>2, <1>3 DEF Promise!Init

\* A step that leaves the table without a fork is a step of the log, or leaves
\* it as it is.
LEMMA PromiseStep ==
    ASSUME ChainInv, [Next]_vars, ~Forked'
    PROVE  [Promise!Next]_<<written, Stored, VerifyChain(rows)>>
<1> ViewTypeOK /\ RowsRecorded
  BY DEF ChainInv
<1>1. /\ VerifyChain(rows) = (Stored = written)
      /\ VerifyChain(rows)' = (Stored' = written')
  <2>1. ChainInv' /\ ~Forked
    BY ChainStep, ForksStay
  <2>2. ChainInv' /\ ~Forked' => (VerifyChain(rows) = (Stored = written))'
    BY VerdictCompares, PTL
  <2> QED  BY <2>1, <2>2, VerdictCompares
<1>2. ASSUME NEW w \in Writers, InsertRow(w)
      PROVE  Promise!Record
  <2>1. /\ call[w].payload \in Payloads
        /\ rows' = Append(rows, NewRow(call[w]))
        /\ written' = Append(written, call[w].payload)
    BY <1>2, InsertEffect, InsertingCall DEF InsertRow, Insert
  <2>2. Stored' = Append(Stored, call[w].payload)
    <3>1. /\ DOMAIN rows' = 1 .. Len(rows) + 1
          /\ \A i \in DOMAIN rows : rows'[i] = rows[i]
          /\ rows'[Len(rows) + 1] = NewRow(call[w])
      BY <1>2, InsertEffect
    <3>2. rows'[Len(rows) + 1].payload = call[w].payload
      BY <3>1 DEF NewRow
    <3>3. /\ Append(Stored, call[w].payload) \in Seq(Payloads)
          /\ Len(Append(Stored, call[w].payload)) = Len(rows) + 1
          /\ \A i \in 1 .. Len(rows) : Append(Stored, call[w].payload)[i] = Stored[i]
          /\ Append(Stored, call[w].payload)[Len(rows) + 1] = call[w].payload
      BY <2>1, StoredIs, AppendProperties
    <3>4. DOMAIN Append(Stored, call[w].payload) = 1 .. Len(rows) + 1
      BY <3>3, LenProperties
    <3>5. ASSUME NEW i \in 1 .. Len(rows) + 1
          PROVE  Append(Stored, call[w].payload)[i] = rows'[i].payload
      <4>1. CASE i = Len(rows) + 1
        BY <3>3, <3>2, <4>1
      <4>2. CASE i # Len(rows) + 1
        BY <3>1, <3>3, <4>2, RowsFacts DEF Stored
      <4> QED  BY <4>1, <4>2
    <3>6. Append(Stored, call[w].payload)
            = [i \in 1 .. Len(rows) + 1 |-> rows'[i].payload]
      BY <3>3, <3>4, <3>5, LenProperties
    <3> QED  BY <3>1, <3>6 DEF Stored
  <2> QED  BY <1>1, <2>1, <2>2 DEF Promise!Record, Promise!Judge
<1>3. CASE EditPayload
  <2>1. PICK i \in DOMAIN rows, p \in Payloads :
           rows' = [rows EXCEPT ![i].payload = p]
    BY <1>3 DEF EditPayload
  <2>2. DOMAIN rows' = DOMAIN rows /\ written' = written
    BY <1>3, EditEffect
  <2>3. \A j \in DOMAIN rows :
           rows'[j].payload = IF j = i THEN p ELSE rows[j].payload
    <3>1. rows[i] \in Rows
      BY RowsFacts
    <3>2. [rows[i] EXCEPT !.payload = p].payload = p
      BY <3>1 DEF Rows
    <3>3. rows'[i] = [rows[i] EXCEPT !.payload = p]
      BY <2>1
    <3>4. \A j \in DOMAIN rows : j # i => rows'[j] = rows[j]
      BY <2>1
    <3> QED  BY <3>2, <3>3, <3>4
  <2>4. Stored' = [Stored EXCEPT ![i] = p]
    BY <2>2, <2>3 DEF Stored
  <2>5. i \in DOMAIN Stored
    BY StoredIs
  <2> QED  BY <1>1, <2>2, <2>4, <2>5 DEF Promise!Next, Promise!Edit, Promise!Judge
<1>4. CASE EditColumns
  <2>1. PICK i \in DOMAIN rows, p \in Payloads :
           rows' = [rows EXCEPT ![i].shown = p]
    BY <1>4 DEF EditColumns
  <2>2. DOMAIN rows' = DOMAIN rows /\ written' = written
    BY <1>4, EditEffect
  <2>3. \A j \in DOMAIN rows : rows'[j].payload = rows[j].payload
    <3>1. rows[i] \in Rows
      BY RowsFacts
    <3>2. [rows[i] EXCEPT !.shown = p].payload = rows[i].payload
      BY <3>1 DEF Rows
    <3>3. rows'[i] = [rows[i] EXCEPT !.shown = p]
      BY <2>1
    <3>4. \A j \in DOMAIN rows : j # i => rows'[j] = rows[j]
      BY <2>1
    <3> QED  BY <3>2, <3>3, <3>4
  <2>4. Stored' = Stored
    BY <2>2, <2>3 DEF Stored
  <2> QED  BY <1>1, <2>2, <2>4
<1>5. CASE UNCHANGED <<rows, written>>
  <2>1. Stored' = Stored /\ VerifyChain(rows)' = VerifyChain(rows)
    BY <1>5 DEF Stored
  <2> QED  BY <1>5, <2>1
<1> QED
  BY <1>2, <1>3, <1>4, <1>5
     DEF Promise!Next, Next, WriterStep, Request, Call, SelectLast, Select,
         Leave, Raise, Return, Read, List, Answer, Refresh, vars, ledgerVars

\* Until two calls of record() fork it, the ledger is the tamper-evident log
\* it says it is: an append-only log whose verdict is positive exactly when
\* the payloads stored are the payloads recorded.
THEOREM LedgerKeepsPromise == Spec => TamperEvident
<1>1. Spec => []ChainInv
  BY ChainInit, ChainStep, PTL DEF Spec
<1>2. ChainInv /\ [Next]_vars =>
         [~Forked' => [Promise!Next]_<<written, Stored, VerifyChain(rows)>>]_vars
  BY PromiseStep
<1> QED
  BY <1>1, <1>2, PromiseInit, PTL DEF Spec, TamperEvident

=============================================================================
