----------------------------- MODULE PowTarget -----------------------------
(***************************************************************************)
(* The compact-target codec of the genesis miners                          *)
(* (src/contrib/devtools/genesis_hylium.cpp, src/src/tools/mine_genesis.cpp)*)
(*                                                                         *)
(* A 256-bit number is a byte array: a function from 0..Len-1 to 0..255.   *)
(* BitsToTarget builds the 32-byte big-endian target of a compact "bits"   *)
(* value; HashMeetsTarget compares a hash (stored in SHA-256 output order, *)
(* i.e. little-endian as a uint256) against such a target.                *)
(***************************************************************************)
EXTENDS Integers, FiniteSets

\* The byte k (k = 0 least significant) of a value below 2^32.
Byte(v, k) == IF k > 3 THEN 0 ELSE (v \div (256 ^ k)) % 256

\* The target is a 32-byte array (std::array<uint8_t, 32>).
TargetLen == 32

\* Mutant: the mantissa masked with 0x00ffffff, keeping the sign bit.
BitsToTargetSignBit(nBits) ==
    LET exp  == nBits \div (2 ^ 24)
        mant == nBits % (2 ^ 24)
        offset == exp - 3
    IN  IF exp <= 3
        THEN LET m == mant \div (256 ^ (3 - exp))
             IN  [i \in 0 .. TargetLen - 1 |-> IF i >= 28 THEN Byte(m, 31 - i) ELSE 0]
        ELSE [i \in 0 .. TargetLen - 1 |->
                IF i \in (29 - offset) .. (31 - offset)
                THEN Byte(mant, 31 - offset - i) ELSE 0]

\* Mutant: the byte offset taken as exp - 2, one byte too high.
BitsToTargetOffByOne(nBits) ==
    LET exp  == nBits \div (2 ^ 24)
        mant == nBits % (2 ^ 23)
        offset == exp - 2
    IN  IF exp <= 3
        THEN LET m == mant \div (256 ^ (3 - exp))
             IN  [i \in 0 .. TargetLen - 1 |-> IF i >= 28 THEN Byte(m, 31 - i) ELSE 0]
        ELSE [i \in 0 .. TargetLen - 1 |->
                IF i \in (29 - offset) .. (31 - offset)
                THEN Byte(mant, 31 - offset - i) ELSE 0]

(***************************************************************************)
(* BitsToTarget(nBits): exponent in the top byte, the mantissa masked with *)
(* 0x007fffff.  A small exponent shifts the mantissa right and stores its  *)
(* low four bytes at indices 28..31; a larger one stores the three         *)
(* mantissa bytes at 29-offset .. 31-offset, with offset = exp - 3.        *)
(* Exponents above 32 index before the array (undefined behaviour) and     *)
(* are outside the operator's domain: every nBits of the network table     *)
(* has an exponent of 29 or 32.                                            *)
(***************************************************************************)
BitsToTarget(nBits) ==
    LET exp  == nBits \div (2 ^ 24)
        mant == nBits % (2 ^ 23)
    IN  IF exp <= 3
        THEN LET m == mant \div (256 ^ (3 - exp))
             IN  [i \in 0 .. TargetLen - 1 |->
                    IF i >= 28 THEN Byte(m, 31 - i) ELSE 0]
        ELSE LET offset == exp - 3
             IN  [i \in 0 .. TargetLen - 1 |->
                    IF i \in (29 - offset) .. (31 - offset)
                    THEN Byte(mant, 31 - offset - i) ELSE 0]

\* Mutant: compares hash[i] with target[i], forgetting the byte reversal.
HashMeetsTargetUnreversed(hash, target) ==
    LET L == Cardinality(DOMAIN target)
        RECURSIVE From(_)
        From(i) == IF i = L THEN TRUE
                   ELSE IF hash[i] < target[i] THEN TRUE
                   ELSE IF hash[i] > target[i] THEN FALSE
                   ELSE From(i + 1)
    IN  From(0)

(***************************************************************************)
(* HashMeetsTarget(hash, target): walk i from the most significant end,    *)
(* comparing hash[Len-1-i] with target[i]; the first difference decides,   *)
(* and equality over all bytes meets the target.                           *)
(***************************************************************************)
HashMeetsTarget(hash, target) ==
    LET L == Cardinality(DOMAIN target)
        RECURSIVE From(_)
        From(i) == IF i = L THEN TRUE
                   ELSE IF hash[L - 1 - i] < target[i] THEN TRUE
                   ELSE IF hash[L - 1 - i] > target[i] THEN FALSE
                   ELSE From(i + 1)
    IN  From(0)


\* BitsToTarget and HashMeetsTarget of src/src/tools/mine_genesis.cpp: the
\* same statements as genesis_hylium's.
MineGenesisBitsToTarget(nBits) == BitsToTarget(nBits)
MineGenesisHashMeetsTarget(hash, target) == HashMeetsTarget(hash, target)

=============================================================================
