---------------------------- MODULE PacketParser ----------------------------
(***************************************************************************)
(* The benchmark packet_parser.c, and the bytes the fuzzer feeds it.       *)
(*                                                                         *)
(* A frame is its size and its first two bytes, the declared length; the   *)
(* payload behind them decides nothing.                                    *)
(***************************************************************************)
EXTENDS Naturals, Sequences

CONSTANTS BufSize,    \* PACKET_BUF_SIZE, the bytes of payload[]
          StructSize  \* sizeof(PacketBuffer): payload[] and what follows it

ASSUME PacketAssumption ==
    /\ BufSize \in Nat
    /\ StructSize \in Nat
    /\ BufSize <= StructSize

Byte == 0 .. 255

Two(bytes) == SubSeq(bytes, 1, IF Len(bytes) < 2 THEN Len(bytes) ELSE 2)

Frames == {f \in [head : Seq(Byte), size : Nat] :
             Len(f.head) = IF f.size < 2 THEN f.size ELSE 2}

-----------------------------------------------------------------------------
(* decode_packet().                                                        *)

\* raw[0] | (raw[1] << 8)
Declared(f) == f.head[1] + 256 * f.head[2]

\* The mutated form of Copied: the declared length is not held against the
\* bytes received.
CopiedUnheld(checked, f) ==
    IF \/ f.size < 2
       \/ checked /\ Declared(f) > BufSize
    THEN 0
    ELSE Declared(f)

\* The bytes memcpy() writes to payload[]; none when the frame is refused.
\* checked: whether the source has the check that the patch inserts.
Copied(checked, f) ==
    IF \/ f.size < 2
       \/ f.size < 2 + Declared(f)
       \/ checked /\ Declared(f) > BufSize
    THEN 0
    ELSE Declared(f)

\* ASan reports what leaves the PacketBuffer on the stack.  A length between
\* the two sizes overwrites payload_len, inside it, and goes unreported.
Reported(checked, f) == Copied(checked, f) > StructSize

-----------------------------------------------------------------------------
(* Fuzzer._mutate(): one mutation of a seed.                               *)

\* _INTERESTING_BYTES
Interesting == {0, 255, 127, 128, 1, 254}

MaxExtension == 16

\* x ^ (1 << n), bit being 1 << n.
Flip(x, bit) == IF (x \div bit) % 2 = 0 THEN x + bit ELSE x - bit

Bits == {1, 2, 4, 8, 16, 32, 64, 128}

Flipped(f) == {[f EXCEPT !.head[i] = Flip(f.head[i], bit)] : i \in DOMAIN f.head, bit \in Bits}

Substituted(f) == {[f EXCEPT !.head[i] = v] : i \in DOMAIN f.head, v \in Interesting}

Insertion(f, i, v) ==
    [head |-> Two(SubSeq(f.head, 1, i - 1) \o <<v>> \o SubSeq(f.head, i, Len(f.head))),
     size |-> f.size + 1]

Inserted(f) == {Insertion(f, i, v) : i \in 1 .. Len(f.head) + 1, v \in Interesting}

Truncation(f, n) == [head |-> SubSeq(f.head, 1, IF n < 2 THEN n ELSE 2), size |-> n]

Truncated(f) == {Truncation(f, n) : n \in 1 .. f.size - 1}

Extension(f, v, n) == [head |-> Two(f.head \o <<v>>), size |-> f.size + n]

Extended(f) == {Extension(f, v, n) : v \in Interesting, n \in 1 .. MaxExtension}

\* A flip or a substitution behind the first two bytes, or the truncation of a
\* single byte, leaves the frame as it is here.
Unchanged(f) == IF f.size = 2 THEN {} ELSE {f}

\* An empty seed counts as one zero byte.
Seed(f) == IF f.size = 0 THEN [head |-> <<0>>, size |-> 1] ELSE f

Mutations(f) ==
    LET d == Seed(f)
    IN  UNION {Flipped(d), Substituted(d), Inserted(d), Truncated(d), Extended(d), Unchanged(d)}

\* The seed sizes from which one mutation can reach a frame that ASan reports.
LongEnough(f) == Seed(f).size + MaxExtension > StructSize + 2

=============================================================================
