----------------------------- MODULE Serializer -----------------------------
(***************************************************************************)
(* The byte serializer of genesis_hylium.cpp: SerializeVarInt, SerializeTx,*)
(* MakeOpReturn, MerkleRoot and the 80-byte header the workers hash.        *)
(* A byte string is a sequence over 0..255.  Integers of the code are kept  *)
(* at their width as little-endian byte strings, so the varint thresholds   *)
(* 0xfd, 0xffff and 0xffffffff are tested without TLC's 32-bit integers.    *)
(***************************************************************************)
EXTENDS Integers, Sequences

\* A uint64_t as its eight little-endian bytes, index 0 the least significant.
U64 == [0 .. 7 -> 0 .. 255]

\* The value v fits below byte k: every byte from k upwards is zero.
HighZero(v, k) == \A i \in k .. 7 : v[i] = 0

\* The n low bytes of a uint64_t, little-endian (the uint8_t(v >> 8*i) loops).
LowBytes(v, n) == [i \in 1 .. n |-> v[i - 1]]

\* The little-endian bytes of a non-negative integer below 2^31, widened to
\* w bytes: the memcpy / insert of a uint32_t or int64_t in the code.
LE(n, w) == [i \in 1 .. w |-> IF i <= 4 THEN (n \div 256 ^ (i - 1)) % 256 ELSE 0]

\* A size_t converted to uint64_t for SerializeVarInt.
ToU64(n) == [i \in 0 .. 7 |-> IF i < 4 THEN (n \div 256 ^ i) % 256 ELSE 0]

Zeros(n) == [i \in 1 .. n |-> 0]

\* uint32_t 0xffffffff (prev_n and the input's sequence).
UInt32Max == <<255, 255, 255, 255>>

\* Mutant: the first branch taken with v <= 0xfd.
SerializeVarIntInclusive(v) ==
    IF HighZero(v, 1) /\ v[0] <= 253 THEN <<v[0]>>
    ELSE IF HighZero(v, 2) THEN <<253>> \o LowBytes(v, 2)
    ELSE IF HighZero(v, 4) THEN <<254>> \o LowBytes(v, 4)
    ELSE <<255>> \o LowBytes(v, 8)

\* SerializeVarInt: one byte below 0xfd, else a marker and 2, 4 or 8 bytes.
SerializeVarInt(v) ==
    IF HighZero(v, 1) /\ v[0] < 253 THEN <<v[0]>>
    ELSE IF HighZero(v, 2) THEN <<253>> \o LowBytes(v, 2)
    ELSE IF HighZero(v, 4) THEN <<254>> \o LowBytes(v, 4)
    ELSE <<255>> \o LowBytes(v, 8)

\* The fixed scriptSig prefix {0x04, 0xff, 0xff, 0x00, 0x1d, 0x01, 0x04}.
ScriptSigPrefix == <<4, 255, 255, 0, 29, 1, 4>>

\* Mutant: every extra-nonce byte taken from the low byte (shift by 8, not 8*i).
ExtraNoncePushLowByte(use_extra_nonce, extra_nonce) ==
    IF use_extra_nonce THEN <<4>> \o [i \in 1 .. 4 |-> extra_nonce % 256] ELSE <<>>

\* The extra-nonce push: 0x04 then uint8_t(extra_nonce >> 8*i) for i in 0..3.
ExtraNoncePush(use_extra_nonce, extra_nonce) ==
    IF use_extra_nonce THEN <<4>> \o LE(extra_nonce, 4) ELSE <<>>

ScriptSig(message, use_extra_nonce, extra_nonce) ==
    ScriptSigPrefix \o message \o ExtraNoncePush(use_extra_nonce, extra_nonce)

\* Mutant: the scriptSig length taken before the extra nonce is pushed.
SerializeTxLenBeforeExtra(message, reward, script_pubkey, use_extra_nonce, extra_nonce) ==
    LE(1, 4) \o <<1>> \o Zeros(32) \o UInt32Max
    \o SerializeVarInt(ToU64(Len(ScriptSigPrefix \o message)))
    \o ScriptSig(message, use_extra_nonce, extra_nonce)
    \o UInt32Max \o <<1>> \o reward
    \o SerializeVarInt(ToU64(Len(script_pubkey))) \o script_pubkey \o LE(0, 4)

\* SerializeTx: version 1, one input spending the null outpoint with the
\* scriptSig above, sequence 0xffffffff, one output of value reward (its
\* eight little-endian bytes) and script_pubkey, lock time 0.
SerializeTx(message, reward, script_pubkey, use_extra_nonce, extra_nonce) ==
    LET scriptsig == ScriptSig(message, use_extra_nonce, extra_nonce)
    IN  LE(1, 4) \o <<1>> \o Zeros(32) \o UInt32Max
        \o SerializeVarInt(ToU64(Len(scriptsig))) \o scriptsig
        \o UInt32Max \o <<1>> \o reward
        \o SerializeVarInt(ToU64(Len(script_pubkey))) \o script_pubkey \o LE(0, 4)

\* Mutant: the length check is data.size() > 0x4c.
MakeOpReturnExclusive(data) ==
    IF Len(data) > 76 THEN [ok |-> FALSE, script |-> <<106>>]
    ELSE [ok |-> TRUE, script |-> <<106, Len(data)>> \o data]

\* MakeOpReturn: OP_RETURN, then a one-byte length and the data; it throws
\* (ok = FALSE) when the data has 0x4c bytes or more.
MakeOpReturn(data) ==
    IF Len(data) >= 76 THEN [ok |-> FALSE, script |-> <<106>>]
    ELSE [ok |-> TRUE, script |-> <<106, Len(data)>> \o data]

\* A single transaction is its own merkle root.
MerkleRoot(txhash) == txhash

\* The 80-byte header of the worker loop: version 1 at 0, a zero previous
\* hash at 4, the merkle root at 36, nTime at 68, nBits at 72, the nonce at
\* 76; the uint32_t fields are given as their little-endian bytes.
Header(mrkl, nTime, nBits, nonce) ==
    LE(1, 4) \o Zeros(32) \o mrkl \o nTime \o nBits \o nonce


\* The serializer of src/src/tools/mine_genesis.cpp: the same statements
\* as genesis_hylium's, apart from comments and blanks.
MineGenesisSerializeVarInt(v) == SerializeVarInt(v)
MineGenesisSerializeTx(message, reward, script_pubkey, use_extra_nonce, extra_nonce) ==
    SerializeTx(message, reward, script_pubkey, use_extra_nonce, extra_nonce)
MineGenesisMakeOpReturn(data) == MakeOpReturn(data)

=============================================================================
