------------------------------- MODULE MCCodec -------------------------------
(***************************************************************************)
(* Checks the miners' pure codecs over bounded inputs against reference   *)
(* definitions: the serializer against the way a node reads the same     *)
(* bytes back (the reference readers of TxReader), over varint values on  *)
(* both sides of every threshold and messages around the 0xfd scriptSig   *)
(* length; the compact-target codec against the integer value of a compact*)
(* encoding and the numeric order of a hash against a target; the GUI's   *)
(* amount codec against the decimal value a text denotes; and the chain   *)
(* parameters against the miners (the checks of MCChainParams, for every  *)
(* chain and every message start asked about).                            *)
(***************************************************************************)
EXTENDS TxReader, PowTarget, HyliumUnits
LOCAL INSTANCE SequencesExt

CONSTANTS
    MessageLens,   \* lengths of the coinbase message
    ExtraNonces,   \* extra nonces, below 2^31
    OpReturnLens,  \* lengths of the OP_RETURN payload
    MsgByte,       \* the byte every message and payload is made of
    Exponents,     \* exponents of nBits to try (at most 32, see BitsToTarget)
    Mantissas,     \* low 24 bits of nBits, sign bit 0x00800000 included
    CmpWidth,      \* byte width of the hash/target pairs compared
    CmpBytes,      \* byte values the compared arrays are built from
    Amounts,       \* CAmount values formatted, of magnitude below 2^31
    TextChars,     \* characters the parsed texts are made of
    TextLen,       \* longest parsed text
    ParseDigits,   \* most digits of a parsed number, padding included (fits 2^31)
    TextBytes(_)   \* ChainParams' bytes of a C string (MCChainParams' MCTextBytes)

ASSUME Exponents \subseteq 0 .. 32
ASSUME Mantissas \subseteq 0 .. (2 ^ 24 - 1)

VARIABLE input

\* 50 * COIN = 5000000000 = 0x12a05f200 as the eight bytes of an int64_t.
Reward == <<0, 242, 5, 42, 1, 0, 0, 0>>
ASSUME (0 + 242 * 256 + 5 * 256 ^ 2 + 42 * 256 ^ 3) \div 4 + 2 ^ 30 = 125 * 10 ^ 7

\* The output script of every profile: MakeOpReturn("Hylium genesis").
GenesisSpk == MakeOpReturn([i \in 1 .. 14 |-> MsgByte]).script

\* nTime, nBits and a nonce of the main profile, as little-endian bytes.
MainTime  == LE(1765886400, 4)
MainBits  == LE(486604799, 4)
MainNonce == <<161, 152, 249, 190>>   \* 3204028577
\* A stand-in for the transaction hash: its bytes only need to be told apart.
TxHash    == [i \in 1 .. 32 |-> i]

\* Per byte of a uint64_t, the values it takes: both sides of every
\* threshold (0xfc/0xfd, 0xffff/0x10000, 0xffffffff/2^32) and the top bit.
VarIntValues ==
    {[i \in 0 .. 7 |-> b[i + 1]] :
        b \in {0, 1, 252, 253, 254, 255} \X {0, 1, 255} \X {0, 1} \X {0, 255}
               \X {0, 1} \X {0} \X {0} \X {0, 128}}

Msg(n) == [i \in 1 .. n |-> MsgByte]

VarIntCases == [kind : {"varint"}, v : VarIntValues]
TxCases     == [kind : {"tx"}, len : MessageLens, use : BOOLEAN, e : ExtraNonces]
PairCases   == [kind : {"pair"}, len : MessageLens, e1 : ExtraNonces, e2 : ExtraNonces]
OpCases     == [kind : {"opreturn"}, len : OpReturnLens]
BitsCases   == [kind : {"bits"}, bits : {e * 2 ^ 24 + m : e \in Exponents, m \in Mantissas}]
Arrays      == [0 .. CmpWidth - 1 -> CmpBytes]
CmpCases    == [kind : {"cmp"}, hash : Arrays, target : Arrays]

\* Both signs, a zero, remainders with leading zeros, quotients of five
\* and more digits (STANDARD separators), and the magnitude 2^31 - 1.
MCAmounts == {-2147483647, -100000001, -12345, -5, 0, 7, 100, 99999, 100000,
              1234567, 100000000, 2147483647}

FormatCases  == [kind : {"format"}, unit : Units, n : Amounts, plus : BOOLEAN,
                 sep : SeparatorStyles, justify : BOOLEAN]
PrivacyCases == [kind : {"privacy"}, unit : Units, n : {a \in Amounts : a >= 0},
                 sep : SeparatorStyles]
\* Texts whose digits, with the fraction padding parse adds, stay below 2^31.
Texts(u) == {t \in UNION {[1 .. k -> TextChars] : k \in 0 .. TextLen} :
                Len(SelectSeq(t, IsDigit)) + decimals[u] <= ParseDigits}
ParseCases == UNION {[kind : {"parse"}, unit : {u}, text : Texts(u)] : u \in Units}

\* The checks of MCChainParams for one chain and one message start.
CP(c, msg) == INSTANCE MCChainParams WITH chain <- c, message <- msg
MCTextBytes(str) == CP("main", <<>>)!MCTextBytes(str)
ChainCases == [kind : {"chain"}, chain : CP("main", <<>>)!Chains,
               message : CP("main", <<>>)!Messages]

\* Script verification through the C API and the C++ wrapper.
KSV == INSTANCE KernelScriptVerify
\* Every combination of the interface's flags, and flags with a bit
\* outside it (bit 1, CLEANSTACK alone and with P2SH and WITNESS).
InterfaceFlags ==
    {a + b + c + d + e + g + h :
        a \in {0, KSV!Flag_P2SH}, b \in {0, KSV!Flag_DERSIG}, c \in {0, KSV!Flag_NULLDUMMY},
        d \in {0, KSV!Flag_CHECKLOCKTIMEVERIFY}, e \in {0, KSV!Flag_CHECKSEQUENCEVERIFY},
        g \in {0, KSV!Flag_WITNESS}, h \in {0, KSV!Flag_TAPROOT}}
VerifyFlags == InterfaceFlags \cup {2, KSV!Flag_CLEANSTACK, KSV!Flag_CLEANSTACK + KSV!Flag_P2SH + KSV!Flag_WITNESS}
\* Transactions of 0 to 2 inputs, spent-output arrays of 0 to 2, input
\* indexes up to one past the last.
CallCases == [kind : {"call"}, flags : VerifyFlags, spent : BOOLEAN, len : 0 .. 2,
              vin : 0 .. 2, index : 0 .. 2, script_ok : BOOLEAN]
WrapCases == [kind : {"wrap"}, flags : VerifyFlags, len : 0 .. 2,
              vin : 0 .. 2, index : 0 .. 2, script_ok : BOOLEAN]

\* The wrapper's Range over collections of 0 to 3 elements, and
\* write_bytes over objects of up to three chunks with each write failing.
KWV == INSTANCE KernelWrapperViews
RangeCases == [kind : {"range"}, coll : KWV!Collections, n : 0 .. 3]
Chunks == UNION {[1 .. k -> {<<>>, <<1>>, <<2, 3>>}] : k \in 0 .. 3}
BytesCases == [kind : {"bytes"}, chunks : Chunks, fail : 0 .. 4]

\* main() of the miners: HYLIUM_GENESIS_NETS unset or a filter of up to
\* four tokens.
GD == INSTANCE GenesisDriver
EnvTexts(chars, n) == UNION {[1 .. k -> chars] : k \in 0 .. n}
NetsCases == [kind : {"nets"},
              env : [set : {FALSE}, text : {<<>>}]
                    \cup [set : {TRUE}, text : EnvTexts({",", "main", "test4", "m"}, 4)]]

\* The start overrides: the decimal and 0x forms of every uint32_t of the
\* stand-in width, and of values just above it and above unsigned long
\* long, and their negations (but that of ULLONG_MAX, which strtoull
\* wraps to 1), for profiles with and without the extra nonce.
RECURSIVE InBase(_, _)
InBase(n, b) == IF n < b THEN <<GD!HexChars[n + 1]>> ELSE InBase(n \div b, b) \o <<GD!HexChars[(n % b) + 1]>>
StartValues == (0 .. GD!U32_MAX + 2) \cup {GD!ULL_MAX, GD!ULL_MAX + 1, 99999}
StartCases == {c \in [kind : {"start"}, n : StartValues, form : {"dec", "hex", "neg"},
                      spec : [use_extra_nonce : BOOLEAN, extra_nonce : {0, 9}]] :
                  c.form = "neg" => c.n # GD!ULL_MAX}

\* The enum translations need no input: one case.
EnumCases == [kind : {"enums"}]

Init == input \in VarIntCases \cup TxCases \cup PairCases \cup OpCases \cup BitsCases
                  \cup CmpCases \cup FormatCases \cup PrivacyCases \cup ParseCases
                  \cup ChainCases \cup CallCases \cup WrapCases
                  \cup RangeCases \cup BytesCases \cup NetsCases \cup StartCases
                  \cup EnumCases
Next == UNCHANGED input
Spec == Init /\ [][Next]_input

--------------------------------------------------------------------------
(***************************************************************************)
(* SerializeVarInt writes every uint64_t in the one form ReadCompactSize  *)
(* accepts and reads back to the same value: the threshold tests at 0xfd, *)
(* 0xffff and 0xffffffff leave neither a non-canonical nor a truncated     *)
(* encoding.                                                               *)
(***************************************************************************)
VarIntRoundTrip ==
    input.kind = "varint" =>
        \A s \in {SerializeVarInt(input.v), MineGenesisSerializeVarInt(input.v)} :
            LET r == ReadCompactSize(s, 1)
            IN  r.ok /\ r.val = input.v /\ r.next = Len(s) + 1

(***************************************************************************)
(* The coinbase SerializeTx builds, and the header over its merkle root,   *)
(* deserialize as a node reads them: every field in its place, the         *)
(* scriptSig length prefix covering the message and the extra-nonce push  *)
(* (whose four bytes read back as the extra nonce), the OP_RETURN output,  *)
(* and no byte left over.  This is the byte agreement between the miner    *)
(* and the node that the hard-coded genesis hashes depend on.             *)
(***************************************************************************)
BlockBytesRoundTrip ==
    input.kind = "tx" =>
        \A tx \in {SerializeTx(Msg(input.len), Reward, GenesisSpk, input.use, input.e),
                   MineGenesisSerializeTx(Msg(input.len), Reward, GenesisSpk, input.use, input.e)} :
            LET t  == ParseTx(tx)
                ss == t.scriptSig
                h  == ParseHeader(Header(MerkleRoot(TxHash), MainTime, MainBits, MainNonce))
            IN  /\ t.ok /\ t.end = Len(tx)
                /\ t.version = <<1, 0, 0, 0>> /\ t.vin = 1 /\ t.vout = 1
                /\ t.prevout = Zeros(32) \o UInt32Max /\ t.sequence = UInt32Max
                /\ t.value = Reward /\ t.scriptPubKey = GenesisSpk /\ t.locktime = Zeros(4)
                /\ Bytes(ss, 1, 7 + input.len) = ScriptSigPrefix \o Msg(input.len)
                /\ IF input.use
                     THEN Len(ss) = 12 + input.len /\ ss[8 + input.len] = 4
                          /\ Value4(Bytes(ss, 9 + input.len, 4)) = input.e
                     ELSE Len(ss) = 7 + input.len
                /\ h = [len |-> 80, version |-> <<1, 0, 0, 0>>, prev |-> Zeros(32),
                        merkle |-> TxHash, time |-> MainTime, bits |-> MainBits,
                        nonce |-> MainNonce]

(***************************************************************************)
(* Advancing the extra nonce in MineGenesis really changes the coinbase:   *)
(* two different extra nonces give different transactions (so different   *)
(* merkle roots and a fresh nonce space), and they differ only in the last *)
(* four bytes of the scriptSig.                                            *)
(***************************************************************************)
ExtraNonceSeparatesCoinbases ==
    input.kind = "pair" /\ input.e1 # input.e2 =>
        LET t1 == SerializeTx(Msg(input.len), Reward, GenesisSpk, TRUE, input.e1)
            t2 == SerializeTx(Msg(input.len), Reward, GenesisSpk, TRUE, input.e2)
            last == 42 + Len(SerializeVarInt(ToU64(12 + input.len))) + 11 + input.len
        IN  /\ t1 # t2
            /\ \A i \in DOMAIN t1 : t1[i] # t2[i] => i \in last - 3 .. last

(***************************************************************************)
(* MakeOpReturn either throws, for payloads of 0x4c bytes and more, or     *)
(* returns an output script that is OP_RETURN followed by a single direct  *)
(* push of exactly the payload; a length byte of 0x4c would be read as     *)
(* OP_PUSHDATA1 instead.                                                   *)
(***************************************************************************)
OpReturnIsSinglePush ==
    input.kind = "opreturn" =>
        \A r \in {MakeOpReturn(Msg(input.len)), MineGenesisMakeOpReturn(Msg(input.len))} :
            r.ok = (input.len < 76)
            /\ (r.ok => IsOpReturnPush(r.script, Msg(input.len)))


(***************************************************************************)
(* Reference: consensus decodes nBits as the integer                       *)
(*   (nBits & 0x007fffff) * 256^(exp - 3)   (truncated when exp < 3),      *)
(* whose byte at power p is byte p - (exp - 3) of the masked mantissa.     *)
(***************************************************************************)
CompactDigit(nBits, p) ==
    LET exp == nBits \div (2 ^ 24)
        k   == p - (exp - 3)
    IN  IF k < 0 THEN 0 ELSE Byte(nBits % (2 ^ 23), k)

\* Reference: the numeric value of a little-endian / big-endian byte array.
LEValue(a) == LET L == Cardinality(DOMAIN a)
                  RECURSIVE S(_)
                  S(i) == IF i = L THEN 0 ELSE a[i] * 256 ^ i + S(i + 1)
              IN  S(0)
BEValue(a) == LET L == Cardinality(DOMAIN a)
                  RECURSIVE S(_)
                  S(i) == IF i = L THEN 0 ELSE a[i] * 256 ^ (L - 1 - i) + S(i + 1)
              IN  S(0)

(***************************************************************************)
(* BitsToTarget stores, at big-endian index i of the 32-byte target, the   *)
(* byte of power 31 - i of the number consensus decodes from nBits: the    *)
(* exponent offset and the mantissa mask of genesis_hylium.cpp BitsToTarget*)
(* agree with the compact encoding for every exponent up to 32.            *)
(***************************************************************************)
TargetMatchesCompact ==
    input.kind = "bits" =>
        \A t \in {BitsToTarget(input.bits), MineGenesisBitsToTarget(input.bits)} :
            \A i \in 0 .. TargetLen - 1 : t[i] = CompactDigit(input.bits, 31 - i)

(***************************************************************************)
(* HashMeetsTarget accepts a hash exactly when the hash, read as the       *)
(* little-endian integer CheckProofOfWork uses, is at most the big-endian  *)
(* target; equality is accepted.                                           *)
(***************************************************************************)
MeetsTargetIsNumericOrder ==
    input.kind = "cmp" =>
        \A Meets \in {HashMeetsTarget(input.hash, input.target),
                      MineGenesisHashMeetsTarget(input.hash, input.target)} :
            Meets <=> LEValue(input.hash) <= BEValue(input.target)

(***************************************************************************)
(* Every amount HyliumUnits::format prints, in every unit, with or without *)
(* '+', justification and thin-space separators, is read back by          *)
(* HyliumUnits::parse as the same amount: the separators and justification *)
(* blanks are dropped, the zero-padded remainder is the fraction and the  *)
(* sign survives the 18-character limit.                                   *)
(***************************************************************************)
FormatParseRoundTrip ==
    input.kind = "format" =>
        Parse(input.unit, Format(input.unit, input.n, input.plus, input.sep, input.justify))
            = [ok |-> TRUE, val |-> input.n]

(***************************************************************************)
(* Reference: the amounts a text denotes once its spaces are dropped: an  *)
(* optional sign, whole digits, then optionally a point and at most       *)
(* decimals[u] fraction digits; the amount is that number times factor[u]. *)
(***************************************************************************)
Meanings(u, s) ==
    LET t == RemoveSpaces(s)
        AllDigits(x) == \A i \in 1 .. Len(x) : IsDigit(x[i])
        Valid(a, b) ==
            /\ a <= b /\ AllDigits(SubSeq(t, a + 1, b))
            /\ \/ b = Len(t)
               \/ t[b + 1] = "." /\ AllDigits(SubSeq(t, b + 2, Len(t)))
                  /\ Len(t) - b - 1 <= decimals[u]
        Amount(a, b) ==
            LET f == SubSeq(t, b + 2, Len(t))
            IN  (IF a = 1 /\ t[1] = "-" THEN -1 ELSE 1)
                * (DigitsValue(SubSeq(t, a + 1, b)) * factor[u]
                   + DigitsValue(f) * 10 ^ (decimals[u] - Len(f)))
    IN  UNION {IF Valid(a, b) THEN {Amount(a, b)} ELSE {} :
                  a \in {x \in 0 .. 1 : x = 0 \/ (Len(t) > 0 /\ t[1] \in {"+", "-"})},
                  b \in 0 .. Len(t)}

(***************************************************************************)
(* HyliumUnits::parse accepts every text that denotes an amount and has a  *)
(* digit, in every unit, and with exactly that amount: spaces and thin     *)
(* spaces are dropped, the fraction is scaled by padding it on the right,  *)
(* and the checks on dots, precision and length reject nothing well       *)
(* formed.  (The converse fails: a sign after the point, as in ".-5", is  *)
(* accepted, see README.)                                                  *)
(***************************************************************************)
ParseAcceptsDecimalText ==
    input.kind = "parse" =>
        LET r == Parse(input.unit, input.text)
            M == Meanings(input.unit, input.text)
        IN  (M # {} /\ \E i \in DOMAIN input.text : IsDigit(input.text[i]))
                => r.ok /\ r.val \in M

(***************************************************************************)
(* In privacy mode formatWithPrivacy prints a mask as wide as the real    *)
(* amount, with its separators and point in the same columns, for every   *)
(* amount a wallet can hold: the justified zero is the widest quotient any *)
(* such amount has, so the mask neither shifts a column nor hints at size. *)
(***************************************************************************)
PrivacyKeepsLayout ==
    input.kind = "privacy" =>
        LET m == FormatWithPrivacy(input.unit, input.n, input.sep, TRUE)
            v == FormatWithPrivacy(input.unit, input.n, input.sep, FALSE)
        IN  /\ Len(m) = Len(v)
            /\ \A i \in 1 .. Len(m) : (m[i] = THIN <=> v[i] = THIN) /\ (m[i] = "." <=> v[i] = ".")

(***************************************************************************)
(* Every miner profile for a chain builds the genesis block the chain     *)
(* constructor hard-codes (MCChainParams!GenesisMatchesMiner).             *)
(***************************************************************************)
GenesisMatchesMiner ==
    input.kind = "chain" => CP(input.chain, input.message)!GenesisMatchesMiner

(***************************************************************************)
(* Every chain's asserted genesis hash passes CheckProofOfWork under its   *)
(* own powLimit (MCChainParams!GenesisPassesProofOfWork).                  *)
(***************************************************************************)
GenesisPassesProofOfWork ==
    input.kind = "chain" => CP(input.chain, input.message)!GenesisPassesProofOfWork

(***************************************************************************)
(* GetNetworkForMagic answers a chain exactly for that chain's message     *)
(* start (MCChainParams!MagicIdentifiesNetwork).                           *)
(***************************************************************************)
MagicIdentifiesNetwork ==
    input.kind = "chain" => CP(input.chain, input.message)!MagicIdentifiesNetwork


(***************************************************************************)
(* Mainnet addresses and keys are not valid on another chain or on        *)
(* Bitcoin (MCChainParams!AddressSpacesSeparate).                          *)
(***************************************************************************)
AddressSpacesSeparate ==
    input.kind = "chain" => CP(input.chain, input.message)!AddressSpacesSeparate


(***************************************************************************)
(* hylk_script_pubkey_verify reports the caller's errors before it trusts *)
(* the caller's lengths: a call with flags of the interface that combine  *)
(* WITNESS without P2SH returns 0 with ERROR_INVALID_FLAGS_COMBINATION,    *)
(* and one with TAPROOT but no spent outputs returns 0 with               *)
(* ERROR_SPENT_OUTPUTS_REQUIRED, whatever its input index and array        *)
(* length; only a call that passes both checks can hit the asserts on the *)
(* lengths; and a call that returns answers 1 exactly when it wrote OK and *)
(* the script verified.                                                    *)
(***************************************************************************)
VerifyReportsErrorsFirst ==
    input.kind = "call" =>
        LET f   == input.flags
            r   == KSV!hylk_script_pubkey_verify(f, input.spent, input.len, input.vin,
                                                 input.index, input.script_ok)
            bad == KSV!Has(f, KSV!Flag_WITNESS) /\ ~KSV!Has(f, KSV!Flag_P2SH)
            req == KSV!Has(f, KSV!Flag_TAPROOT) /\ ~input.spent
        IN  f \in InterfaceFlags =>
              /\ bad => r = KSV!Returns(0, KSV!ERROR_INVALID_FLAGS_COMBINATION)
              /\ ~bad /\ req => r = KSV!Returns(0, KSV!ERROR_SPENT_OUTPUTS_REQUIRED)
              /\ r.abort => ~bad /\ ~req
              /\ ~r.abort => (r.ret = 1 <=> r.status = KSV!OK /\ input.script_ok)

(***************************************************************************)
(* Through ScriptPubkeyApi::Verify, a call with flags of the interface,    *)
(* an input index of the transaction and either no spent outputs or one   *)
(* per input never aborts the process: an empty span reaches the C API as *)
(* nullptr, so a missing taproot array is reported as                      *)
(* ERROR_SPENT_OUTPUTS_REQUIRED instead of failing the length assert.      *)
(***************************************************************************)
WrapperVerifyNeverAborts ==
    input.kind = "wrap" =>
       ((input.flags \in InterfaceFlags /\ input.index < input.vin
           /\ input.len \in {0, input.vin})
            => ~KSV!Verify(input.flags, input.len, input.vin, input.index, input.script_ok).abort)


(***************************************************************************)
(* The wrapper's Range is a faithful random-access view of its C          *)
(* collection: a range-based for loop and a reverse traversal visit every *)
(* index below size() exactly once, in order, without calling the C       *)
(* getter out of bounds; end() - begin() is size(); at(i) throws          *)
(* out_of_range exactly for i >= size() and otherwise returns element i;   *)
(* front() and back() of a non-empty range are its first and last, and on *)
(* an empty one both stop at the C getter's assert (back's size() - 1     *)
(* wraps to SIZE_MAX) instead of returning an element.                     *)
(***************************************************************************)
RangeTraversal ==
    input.kind = "range" =>
        LET n == input.n
            c == input.coll
            all == [i \in 1 .. n |-> i - 1]
        IN  /\ KWV!RangeFor(c, n) = [abort |-> FALSE, vals |-> all]
            /\ KWV!RangeReverse(c, n) = [abort |-> FALSE, vals |-> [i \in 1 .. n |-> n - i]]
            /\ KWV!Diff(KWV!end(c, n), KWV!begin(c, n)) = n
            /\ \A i \in 0 .. n + 1 :
                  KWV!at(c, n, i) = IF i >= n THEN [abort |-> FALSE, throws |-> "out_of_range"]
                                    ELSE [abort |-> FALSE, throws |-> "none", val |-> i]
            /\ n > 0 => KWV!front(c, n) = KWV!Get(n, 0) /\ KWV!back(c, n) = KWV!Get(n, n - 1)
                        /\ ~KWV!back(c, n).abort
            /\ n = 0 => KWV!front(c, n).abort /\ KWV!back(c, n).abort

(***************************************************************************)
(* write_bytes over hylk_transaction_to_bytes (and hylk_block_to_bytes),   *)
(* and over hylk_script_pubkey_to_bytes, is all or nothing: it returns     *)
(* exactly the object's whole serialization, or, when a write fails,       *)
(* rethrows the exception the write callback stored; it never returns the *)
(* bytes written before the failure and never rethrows a null exception.  *)
(***************************************************************************)
WriteBytesAllOrThrow ==
    input.kind = "bytes" =>
        LET ch == input.chunks
            whole == FlattenSeq(ch)
            tx == KWV!write_bytes(KWV!hylk_transaction_to_bytes(ch, input.fail))
            blk == KWV!write_bytes(KWV!hylk_block_to_bytes(ch, input.fail))
            sp == KWV!write_bytes(KWV!hylk_script_pubkey_to_bytes(whole, input.fail))
        IN  /\ \A r \in {tx, blk} :
                  r = IF input.fail \in 1 .. Len(ch) THEN [throws |-> "bad_alloc", bytes |-> <<>>]
                      ELSE [throws |-> "none", bytes |-> whole]
            /\ sp = IF input.fail = 1 THEN [throws |-> "bad_alloc", bytes |-> <<>>]
                    ELSE [throws |-> "none", bytes |-> whole]

(***************************************************************************)
(* main() mines exactly the networks HYLIUM_GENESIS_NETS names, once each *)
(* and in the table's order: a network is mined iff some comma-separated  *)
(* field of the text is its name, or, when the variable is unset or has   *)
(* no non-empty field (as "" or ","), every network is.  The reference    *)
(* reads fields off the positions of the commas; the code splits with     *)
(* std::getline and drops the empty items.                                *)
(***************************************************************************)
DriverRunsFilteredNets ==
    input.kind = "nets" =>
        LET T == input.env.text
            Named(n) == \E i \in DOMAIN T : /\ T[i] = n
                                            /\ i = 1 \/ T[i - 1] = ","
                                            /\ i = Len(T) \/ T[i + 1] = ","
            anyField == \E i \in DOMAIN T : T[i] # ","
            expect == IF input.env.set /\ anyField
                      THEN SelectSeq(GD!NetNames, Named) ELSE GD!NetNames
            noThreads == [set |-> FALSE, text |-> <<>>]
        IN  /\ GD!Main(noThreads, input.env, 1).mined = expect
            /\ GD!MineGenesisMain(noThreads, input.env, 1).mined = expect


(***************************************************************************)
(* A search restarted with HYLIUM_GENESIS_START and                       *)
(* HYLIUM_GENESIS_EXTRANONCE_START set to a value the status line printed *)
(* (in decimal, or in hex with a 0x prefix) resumes exactly there, in      *)
(* both miners (genesis_hylium with HYLIUM_GENESIS_EXTRANONCE=1), the     *)
(* largest uint32_t included; and a text that denotes no uint32_t, a      *)
(* negative or a larger number, leaves GetEnvUint's start at its default  *)
(* (0, or the profile's extra nonce) instead of a value wrapped from it.  *)
\* The starts gh of genesis_hylium and mg of mine_genesis, for profile sp
\* and variables holding the text of val, against what was asked for.
StartsResume(sp, val, gh, mg) ==
    LET Want(def) == IF val \in 0 .. GD!U32_MAX THEN val ELSE def
    IN  /\ gh.nonce = Want(0)
        /\ mg.nonce = Want(0)
        /\ sp.use_extra_nonce => mg.extra = Want(sp.extra_nonce)
        /\ val \in 0 .. GD!U32_MAX => gh.use /\ gh.extra = val

(***************************************************************************)
StartOverrideResumes ==
    input.kind = "start" =>
        LET env == [set |-> TRUE,
                    text |-> CASE input.form = "dec" -> InBase(input.n, 10)
                               [] input.form = "hex" -> <<"0", "x">> \o InBase(input.n, 16)
                               [] input.form = "neg" -> <<"-">> \o InBase(input.n, 10)]
        IN  StartsResume(input.spec, IF input.form = "neg" THEN -input.n ELSE input.n,
                         GD!GenesisHyliumStart(input.spec, [set |-> TRUE, text |-> <<"1">>], env, env),
                         GD!MineGenesisStart(input.spec, env, env))


(***************************************************************************)
(* Every enum value crosses the kernel's three layers with its meaning:   *)
(* a Bitcoin Core BlockValidationResult, validation mode, synchronization *)
(* state or warning, translated by hyliumkernel.cpp's switches into the   *)
(* constants of hyliumkernel.h and cast by the wrapper to its enum class, *)
(* arrives as the enumerator of the same name; and a wrapper ChainType,    *)
(* LogLevel or LogCategory reaches Core as the chain, level or category   *)
(* of its name; a display unit written to the settings stream reads back *)
(* as itself, and a byte no unit writes reads back as no unit (it reaches *)
(* FromQint8's assert).  The reference pairs the names.                   *)
(***************************************************************************)
EnumsKeepTheirMeaning ==
    LET Core2Wrapper ==
            [BLOCK_RESULT_UNSET |-> "UNSET", BLOCK_CONSENSUS |-> "CONSENSUS",
             BLOCK_CACHED_INVALID |-> "CACHED_INVALID", BLOCK_INVALID_HEADER |-> "INVALID_HEADER",
             BLOCK_MUTATED |-> "MUTATED", BLOCK_MISSING_PREV |-> "MISSING_PREV",
             BLOCK_INVALID_PREV |-> "INVALID_PREV", BLOCK_TIME_FUTURE |-> "TIME_FUTURE",
             BLOCK_HEADER_LOW_WORK |-> "HEADER_LOW_WORK"]
        Mode2Wrapper == [M_VALID |-> "VALID", M_INVALID |-> "INVALID", M_ERROR |-> "INTERNAL_ERROR"]
        Chain2Core == [MAINNET |-> "Main", TESTNET |-> "TestNet", TESTNET_4 |-> "TestNet4",
                       SIGNET |-> "SigNet", REGTEST |-> "RegTest"]
        Level2Core == [TRACE_LEVEL |-> "Trace", DEBUG_LEVEL |-> "Debug", INFO_LEVEL |-> "Info"]
    IN  input.kind = "enums" =>
        /\ \A r \in DOMAIN Core2Wrapper :
              KSV!Enumerator(KSV!BlockValidationResult, KSV!get_block_validation_result[r]) = Core2Wrapper[r]
        /\ \A m \in DOMAIN Mode2Wrapper :
              KSV!Enumerator(KSV!ValidationMode, KSV!get_validation_mode(m)) = Mode2Wrapper[m]
        /\ \A st \in DOMAIN KSV!cast_state :
              KSV!Enumerator(KSV!SynchronizationState, KSV!cast_state[st]) = st
        /\ \A w \in DOMAIN KSV!cast_hylk_warning :
              KSV!Enumerator(KSV!Warning, KSV!cast_hylk_warning[w]) = w
        /\ \A t \in DOMAIN KSV!ChainType :
              KSV!hylk_chain_parameters_create[KSV!ChainType[t]] = Chain2Core[t]
        /\ \A l \in DOMAIN KSV!LogLevel : KSV!get_bclog_level[KSV!LogLevel[l]] = Level2Core[l]
        /\ \A c \in DOMAIN KSV!LogCategory : KSV!get_bclog_flag[KSV!LogCategory[c]] = c
        /\ \A u \in Units : StreamIn(StreamOut(u)) = u
        /\ \A b \in -128 .. 127 : StreamIn(b) \in Units <=> b \in 0 .. 3

=============================================================================
