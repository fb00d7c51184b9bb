--------------------------- MODULE MCChainParams ---------------------------
(***************************************************************************)
(* Composes the chain parameters with the miners: the genesis block each  *)
(* chain constructor builds against the coinbase the miners serialize and *)
(* the target they mine against, and the message starts against           *)
(* GetNetworkForMagic.  A C string's bytes are abstracted to its length;  *)
(* the strings themselves are compared as values.                         *)
(***************************************************************************)
EXTENDS ChainParams, TxReader

\* strlen of every C string of the tables.
TextLen ==
    [s \in {"Hylium 2025-12-16: Verify, don't trust.", "Hylium testnet 2025-12-16: break safely.",
            "Hylium test4 2025-12-16: staging chain.", "Hylium regtest: local sandbox.",
            "Hylium genesis",
            "The Times 03/Jan/2009 Chancellor on brink of second bailout for banks"} |->
        CASE s = "Hylium 2025-12-16: Verify, don't trust." -> 39
          [] s = "Hylium testnet 2025-12-16: break safely." -> 40
          [] s = "Hylium test4 2025-12-16: staging chain." -> 39
          [] s = "Hylium regtest: local sandbox." -> 30
          [] s = "Hylium genesis" -> 14
          [] OTHER -> 69]

MCTextBytes(s) == [i \in 1 .. TextLen[s] |-> 77]

\* The message starts of Bitcoin Core's main, testnet3, testnet4, regtest
\* and default signet networks.
BitcoinMagics == {<<249, 190, 180, 217>>, <<11, 17, 9, 7>>, <<28, 22, 63, 40>>,
                  <<250, 191, 181, 218>>, <<10, 3, 207, 64>>}

\* Messages GetNetworkForMagic is asked about: every chain's message start,
\* Bitcoin's, and each of them with one byte replaced by 0x00 or 0xff.
Messages ==
    LET starts == {Params(c).magic : c \in Chains} \cup BitcoinMagics
    IN  starts \cup {[m EXCEPT ![k] = v] : m \in starts, k \in 1 .. 4, v \in {0, 255}}

\* The default ports of the same Bitcoin Core networks.
BitcoinPorts == {8333, 18333, 48333, 18444, 38333}

\* Regtest options: none, and buried heights and version-bits parameters
\* overridden, each with enforce_bip94 off and on.
MCRegTestOptions ==
    [enforce_bip94 : BOOLEAN,
     activation_heights : {<<>>, [SEGWIT |-> 100, CSV |-> 0], [HEIGHTINCB |-> 500, DERSIG |-> 1251, CLTV |-> 1351]},
     version_bits_parameters : {<<>>, [TESTDUMMY |-> [start_time |-> 0, timeout |-> 1000000, min_activation_height |-> 288]],
                                [TAPROOT |-> [start_time |-> 1, timeout |-> 2, min_activation_height |-> 0]]}]

VARIABLES chain, message
Init == chain \in Chains /\ message \in Messages
Next == UNCHANGED <<chain, message>>
Spec == Init /\ [][Next]_<<chain, message>>

\* The chain a miner profile is meant for.
ChainOf(name) == IF name = "test4" THEN "testnet4" ELSE name

\* The miner profiles meant for chain c, from both tools' tables.
Profiles(c) == {p \in {GenesisHyliumNets[i] : i \in 1 .. 4} \cup {MineGenesisNets[i] : i \in 1 .. 4} :
                    ChainOf(p.name) = c}

\* A uint256 given most significant byte first as the byte array SHA-256
\* produces (least significant first), the order HashMeetsTarget takes.
AsHash(be) == [i \in 0 .. 31 |-> be[32 - i]]

\* CheckProofOfWork of pow.cpp (not in this repository): the compact bits
\* must not be negative, zero or above powLimit, and the hash must be at
\* most the target.
CheckProofOfWork(hash, nBits, powLimit) ==
    LET target == BitsToTarget(nBits)
    IN  /\ ~((nBits % 2 ^ 24) >= 2 ^ 23 /\ nBits % 2 ^ 23 # 0)
        /\ \E i \in 0 .. 31 : target[i] # 0
        /\ HashMeetsTarget([i \in 0 .. 31 |-> target[31 - i]], powLimit)
        /\ HashMeetsTarget(hash, target)

--------------------------------------------------------------------------
(***************************************************************************)
(* Every miner profile for a chain (in genesis_hylium and mine_genesis     *)
(* alike) builds the genesis block the chain constructor hard-codes: the   *)
(* same message, nTime, nBits and version, and a coinbase whose serialized *)
(* scriptSig, output script and value read back as exactly the scriptSig, *)
(* OP_RETURN script and reward of CreateGenesisBlockRawScriptSig.  If they *)
(* differed, the mined nonce would not give the asserted hash.            *)
(***************************************************************************)
GenesisMatchesMiner ==
    \A p \in Profiles(chain) :
        LET b  == Params(chain).genesis
            tx == SerializeTx(TextBytes(p.message), GenesisReward,
                              MakeOpReturn(TextBytes("Hylium genesis")).script,
                              p.use_extra_nonce, p.extra_nonce)
            t  == ParseTx(tx)
        IN  /\ b.message = p.message /\ b.time = p.nTime /\ b.bits = p.nBits
            /\ b.version = 1
            /\ t.ok /\ t.scriptSig = b.scriptSig
            /\ t.scriptPubKey = b.scriptPubKey /\ t.value = b.value

(***************************************************************************)
(* The hashGenesisBlock each constructor asserts passes CheckProofOfWork   *)
(* under the chain's own powLimit: the compact bits the miners decode with *)
(* BitsToTarget are not negative (the sign bit the miners mask off is     *)
(* clear), give a target within powLimit, and the hash meets it.          *)
(***************************************************************************)
GenesisPassesProofOfWork ==
    CheckProofOfWork(AsHash(Params(chain).hash), Params(chain).genesis.bits,
                     Params(chain).powLimit)

(***************************************************************************)
(* GetNetworkForMagic answers the chain whose message start a message is,  *)
(* and nothing for any other message: the five message starts are         *)
(* distinct and no branch is shadowed by an earlier one.                  *)
(***************************************************************************)
MagicIdentifiesNetwork ==
    GetNetworkForMagic(message) = chain <=> message = Params(chain).magic

(***************************************************************************)
(* No Hylium network shares its message start or its default port with a *)
(* Bitcoin Core network, the intent stated for mainnet at                 *)
(* chainparams.cpp:175 ("to avoid cross-talk with Bitcoin").              *)
(***************************************************************************)
NoNetworkIdentitySharedWithBitcoin ==
    Params(chain).magic \notin BitcoinMagics /\ Params(chain).port \notin BitcoinPorts


\* Bitcoin Core mainnet's base58 prefixes (1..., 3..., WIF 5/K/L, xpub,
\* xprv) and the bech32 prefixes of its networks.
BitcoinMainAddresses == {<<0>>, <<5>>, <<128>>, <<4, 136, 178, 30>>, <<4, 136, 173, 228>>}
BitcoinHrps == {"bc", "tb", "bcrt"}

Base58Kinds == {"PUBKEY_ADDRESS", "SCRIPT_ADDRESS", "SECRET_KEY", "EXT_PUBLIC_KEY", "EXT_SECRET_KEY"}

(***************************************************************************)
(* A mainnet address, key or extended key is never read as valid on       *)
(* another Hylium chain or on Bitcoin's mainnet, as the mainnet comment at *)
(* chainparams.cpp:203 intends ("distinct prefixes to avoid confusion     *)
(* with Bitcoin keys/addresses"): its base58 prefixes are pairwise        *)
(* distinct and none equals one of another chain's or of Bitcoin's, and *)
(* no Hylium bech32 prefix is another network's.                           *)
(***************************************************************************)
AddressSpacesSeparate ==
    LET a == AddressesOf(chain)
        m == AddressesOf("main")
    IN  /\ \A x, y \in Base58Kinds : x # y => a[x] # a[y]
        /\ a.bech32_hrp \notin BitcoinHrps
        /\ chain # "main" =>
              /\ a.bech32_hrp # m.bech32_hrp
              /\ \A x, y \in Base58Kinds : a[x] # m[y]
        /\ chain = "main" => \A x \in Base58Kinds : a[x] \notin BitcoinMainAddresses

=============================================================================
