------------------------------- MODULE TxReader -------------------------------
(***************************************************************************)
(* How a node reads back the bytes the miners write: ReadCompactSize, the  *)
(* transaction and block-header deserializers, and the direct-push rule of *)
(* the script interpreter.  These are Bitcoin Core routines that are not   *)
(* part of this repository; they are reference definitions written from   *)
(* the serialization format of spec section 3 and map no code of src/.    *)
(***************************************************************************)
EXTENDS Serializer

\* Reference readers.  At(s, i) is -1 past the end, so a reader never fails
\* to evaluate and a short string simply does not parse.
At(s, i) == IF i \in 1 .. Len(s) THEN s[i] ELSE -1
Bytes(s, i, n) == [k \in 1 .. n |-> At(s, i + k - 1)]
IsBytes(b) == \A k \in DOMAIN b : b[k] >= 0

\* ReadCompactSize without the MAX_SIZE range check: a marker, the value's
\* little-endian bytes, and the rejection of non-canonical (too long) forms.
ReadCompactSize(s, i) ==
    LET b  == At(s, i)
        w  == CASE b < 253 -> 0 [] b = 253 -> 2 [] b = 254 -> 4 [] OTHER -> 8
        v  == [k \in 0 .. 7 |-> IF w = 0 THEN (IF k = 0 THEN b ELSE 0)
                                ELSE IF k < w THEN At(s, i + 1 + k) ELSE 0]
        canonical == CASE w = 0 -> TRUE
                       [] w = 2 -> ~(HighZero(v, 1) /\ v[0] < 253)
                       [] w = 4 -> ~HighZero(v, 2)
                       [] OTHER -> ~HighZero(v, 4)
    IN  [ok |-> b >= 0 /\ (\A k \in 0 .. 7 : v[k] >= 0) /\ canonical,
         val |-> v, next |-> i + 1 + w]

SizeOf(v) == v[0] + 256 * v[1] + 65536 * v[2]

\* CTransaction's deserializer for one input and one output, as a record of
\* the fields and the position after the last byte read.
ParseTx(s) ==
    LET r1  == ReadCompactSize(s, 42)
        ss  == Bytes(s, r1.next, SizeOf(r1.val))
        p   == r1.next + SizeOf(r1.val)
        r2  == ReadCompactSize(s, p + 13)
        spk == Bytes(s, r2.next, SizeOf(r2.val))
        q   == r2.next + SizeOf(r2.val)
    IN  [ok |-> r1.ok /\ r2.ok /\ IsBytes(ss) /\ IsBytes(spk),
         version |-> Bytes(s, 1, 4), vin |-> At(s, 5), prevout |-> Bytes(s, 6, 36),
         scriptSig |-> ss, sequence |-> Bytes(s, p, 4), vout |-> At(s, p + 4),
         value |-> Bytes(s, p + 5, 8), scriptPubKey |-> spk,
         locktime |-> Bytes(s, q, 4), end |-> q + 3]

\* CBlockHeader's deserializer.
ParseHeader(s) ==
    [len |-> Len(s), version |-> Bytes(s, 1, 4), prev |-> Bytes(s, 5, 32),
     merkle |-> Bytes(s, 37, 32), time |-> Bytes(s, 69, 4),
     bits |-> Bytes(s, 73, 4), nonce |-> Bytes(s, 77, 4)]

\* A script as the interpreter reads it: OP_RETURN, then one direct push
\* (opcodes 0x00..0x4b push that many bytes), and nothing after it.
IsOpReturnPush(script, data) ==
    /\ At(script, 1) = 106
    /\ At(script, 2) \in 0 .. 75
    /\ Len(script) = 2 + At(script, 2)
    /\ Bytes(script, 3, At(script, 2)) = data

\* The little-endian value of four bytes, below 2^31.
Value4(b) == b[1] + 256 * b[2] + 65536 * b[3] + 16777216 * b[4]

=============================================================================
