---------------------------- MODULE ChainParams ----------------------------
(***************************************************************************)
(* The genesis side of src/src/kernel/chainparams.cpp and the network     *)
(* tables of the two miners.  Each chain's parameters are a record of what *)
(* the properties compare: the proof-of-work limit (32 big-endian bytes),  *)
(* the message start, the default port, the genesis block the constructor *)
(* builds and the hash it asserts.  A C string is abstracted to its bytes  *)
(* by the constant operator TextBytes; uint32_t values of 2^31 and more    *)
(* are kept as their four little-endian bytes.                             *)
(***************************************************************************)
EXTENDS Serializer, PowTarget

CONSTANT TextBytes(_)   \* the bytes of a C string (strlen of them)

Chains == {"main", "testnet", "testnet4", "signet", "regtest"}

\* 50 * COIN = 5000000000 as the eight little-endian bytes of a CAmount.
GenesisReward == <<0, 242, 5, 42, 1, 0, 0, 0>>

\* The NetSpec tables of main() in the two miners: name, message, nTime,
\* nBits, use_extra_nonce, extra_nonce.
NetSpec(name, message, nTime, nBits, use, extra) ==
    [name |-> name, message |-> message, nTime |-> nTime, nBits |-> nBits,
     use_extra_nonce |-> use, extra_nonce |-> extra]

MAIN_TIME == 1765886400
BITS_STD  == 486604799     \* 0x1d00ffff
BITS_EZ   == 545259519     \* 0x207fffff

GenesisHyliumNets ==
    << NetSpec("main", "Hylium 2025-12-16: Verify, don't trust.", MAIN_TIME, BITS_STD, TRUE, 0),
       NetSpec("testnet", "Hylium testnet 2025-12-16: break safely.", MAIN_TIME, BITS_EZ, FALSE, 0),
       NetSpec("test4", "Hylium test4 2025-12-16: staging chain.", MAIN_TIME, BITS_EZ, FALSE, 0),
       NetSpec("regtest", "Hylium regtest: local sandbox.", 1296688602, BITS_EZ, FALSE, 0) >>

MineGenesisNets ==
    << NetSpec("main", "Hylium 2025-12-16: Verify, don't trust.", MAIN_TIME, BITS_STD, TRUE, 0),
       NetSpec("testnet", "Hylium testnet 2025-12-16: break safely.", MAIN_TIME, BITS_EZ, FALSE, 0),
       NetSpec("test4", "Hylium test4 2025-12-16: staging chain.", MAIN_TIME, BITS_EZ, FALSE, 0),
       NetSpec("regtest", "Hylium regtest: local sandbox.", 1296688602, BITS_EZ, FALSE, 0) >>

--------------------------------------------------------------------------
\* CScript() << OP_RETURN << the bytes of "Hylium genesis" (a direct push).
HyliumGenesisOutputScript ==
    <<106, Len(TextBytes("Hylium genesis"))>> \o TextBytes("Hylium genesis")

\* Mutant: the four extra-nonce bytes appended without the 0x04 push.
CreateGenesisBlockRawScriptSigNoPush(pszTimestamp, genesisOutputScript, nTime, nNonce, nBits, nVersion, genesisReward, include_extra_nonce, extra_nonce) ==
    [message |-> pszTimestamp, time |-> nTime, nonce |-> nNonce, bits |-> nBits,
     version |-> nVersion, value |-> genesisReward, scriptPubKey |-> genesisOutputScript,
     scriptSig |-> <<4, 255, 255, 0, 29, 1, 4>> \o TextBytes(pszTimestamp)
                   \o (IF include_extra_nonce THEN LE(extra_nonce, 4) ELSE <<>>)]

\* CreateGenesisBlockRawScriptSig: the kScriptSigPrefix bytes, the raw
\* message, and with include_extra_nonce a push of the four little-endian
\* bytes of extra_nonce; one output of genesisReward to genesisOutputScript.
CreateGenesisBlockRawScriptSig(pszTimestamp, genesisOutputScript, nTime, nNonce, nBits, nVersion, genesisReward, include_extra_nonce, extra_nonce) ==
    [message |-> pszTimestamp, time |-> nTime, nonce |-> nNonce, bits |-> nBits,
     version |-> nVersion, value |-> genesisReward, scriptPubKey |-> genesisOutputScript,
     scriptSig |-> <<4, 255, 255, 0, 29, 1, 4>> \o TextBytes(pszTimestamp)
                   \o (IF include_extra_nonce THEN <<4>> \o LE(extra_nonce, 4) ELSE <<>>)]

\* The Bitcoin-style CreateGenesisBlock signet keeps: the scriptSig pushes
\* 486604799, CScriptNum(4) and the timestamp, and the output pays to a key.
CreateGenesisBlock(nTime, nNonce, nBits, nVersion, genesisReward) ==
    LET ts == TextBytes("The Times 03/Jan/2009 Chancellor on brink of second bailout for banks")
    IN  [message |-> "The Times 03/Jan/2009 Chancellor on brink of second bailout for banks",
         time |-> nTime, nonce |-> nNonce, bits |-> nBits, version |-> nVersion,
         value |-> genesisReward, scriptPubKey |-> <<"p2pk">>,
         scriptSig |-> <<4, 255, 255, 0, 29, 1, 4, Len(ts)>> \o ts]

\* A 32-byte big-endian powLimit of k zero bytes, then top, then 0xff bytes.
PowLimit(k, top) == [i \in 0 .. 31 |-> IF i < k THEN 0 ELSE IF i = k THEN top ELSE 255]

\* The chain constructors: powLimit, pchMessageStart, nDefaultPort, the
\* genesis block and
\* the hashGenesisBlock asserted (uint256 hex, most significant byte first).
CMainParams ==
    [powLimit |-> PowLimit(4, 255), magic |-> <<243, 194, 225, 176>>, port |-> 9333,
     genesis |-> CreateGenesisBlockRawScriptSig("Hylium 2025-12-16: Verify, don't trust.",
                    HyliumGenesisOutputScript, 1765886400, <<161, 152, 249, 190>>,
                    486604799, 1, GenesisReward, TRUE, 0),
     hash |-> <<0, 0, 0, 0, 146, 35, 29, 153, 51, 155, 22, 129, 68, 112, 62, 62, 54,
                204, 238, 225, 88, 252, 228, 235, 112, 249, 56, 131, 165, 59, 79, 200>>]

CTestNetParams ==
    [powLimit |-> PowLimit(0, 127), magic |-> <<163, 156, 135, 110>>, port |-> 19335,
     genesis |-> CreateGenesisBlockRawScriptSig("Hylium testnet 2025-12-16: break safely.",
                    HyliumGenesisOutputScript, 1765886400, LE(0, 4),
                    545259519, 1, GenesisReward, FALSE, 0),
     hash |-> <<88, 255, 53, 96, 102, 184, 253, 76, 43, 96, 109, 11, 15, 179, 248, 247,
                135, 254, 252, 187, 94, 198, 20, 120, 88, 204, 11, 15, 28, 205, 154, 236>>]

CTestNet4Params ==
    [powLimit |-> PowLimit(0, 127), magic |-> <<179, 161, 127, 85>>, port |-> 29333,
     genesis |-> CreateGenesisBlockRawScriptSig("Hylium test4 2025-12-16: staging chain.",
                    HyliumGenesisOutputScript, 1765886400, LE(10, 4),
                    545259519, 1, GenesisReward, FALSE, 0),
     hash |-> <<116, 178, 233, 129, 199, 44, 50, 107, 166, 214, 64, 144, 10, 61, 149, 25,
                40, 16, 94, 27, 72, 193, 60, 239, 252, 220, 114, 149, 64, 195, 34, 115>>]

\* The default challenge is Bitcoin's signet challenge; the message start
\* is the first four bytes of its double SHA-256 (0a03cf40), taken here as
\* data because SHA-256 is out of reach.
SigNetParams ==
    [powLimit |-> [i \in 0 .. 31 |-> CASE i = 2 -> 3 [] i = 3 -> 119 [] i = 4 -> 174
                                       [] OTHER -> 0],
     magic |-> <<10, 3, 207, 64>>, port |-> 38333,
     genesis |-> CreateGenesisBlock(1598918400, LE(52613770, 4), 503543726, 1, GenesisReward),
     hash |-> <<0, 0, 0, 8, 129, 152, 115, 233, 37, 66, 44, 31, 240, 249, 159, 124,
                201, 187, 178, 50, 175, 99, 160, 119, 164, 128, 163, 99, 59, 238, 30, 246>>]

CRegTestParams ==
    [powLimit |-> PowLimit(0, 127), magic |-> <<193, 210, 227, 244>>, port |-> 39444,
     genesis |-> CreateGenesisBlockRawScriptSig("Hylium regtest: local sandbox.",
                    HyliumGenesisOutputScript, 1296688602, LE(10, 4),
                    545259519, 1, GenesisReward, FALSE, 0),
     hash |-> <<76, 113, 205, 209, 245, 61, 50, 247, 10, 199, 7, 196, 202, 255, 98, 52,
                30, 21, 247, 178, 163, 21, 76, 189, 24, 75, 230, 50, 217, 68, 170, 42>>]

\* The factories CChainParams::Main() .. RegTest().
Params(c) ==
    CASE c = "main" -> CMainParams [] c = "testnet" -> CTestNetParams
      [] c = "testnet4" -> CTestNet4Params [] c = "signet" -> SigNetParams
      [] c = "regtest" -> CRegTestParams

\* Mutant: the testnet4 branch compared against testnet's message start.
GetNetworkForMagicCopyPaste(message) ==
    IF message = Params("main").magic THEN "main"
    ELSE IF message = Params("testnet").magic THEN "testnet"
    ELSE IF message = Params("testnet").magic THEN "testnet4"
    ELSE IF message = Params("regtest").magic THEN "regtest"
    ELSE IF message = Params("signet").magic THEN "signet"
    ELSE "none"

\* GetNetworkForMagic: the first chain, in the order main, testnet,
\* testnet4, regtest, signet, whose message start equals message.
GetNetworkForMagic(message) ==
    IF message = Params("main").magic THEN "main"
    ELSE IF message = Params("testnet").magic THEN "testnet"
    ELSE IF message = Params("testnet4").magic THEN "testnet4"
    ELSE IF message = Params("regtest").magic THEN "regtest"
    ELSE IF message = Params("signet").magic THEN "signet"
    ELSE "none"


--------------------------------------------------------------------------
(***************************************************************************)
(* The consensus and address parameters of the chain constructors.  The   *)
(* BIP9 start times ALWAYS_ACTIVE / NEVER_ACTIVE are their negative      *)
(* values; uint256 values (BIP34Hash, nMinimumChainWork,                *)
(* defaultAssumeValid) are all zero and left out, as are the seeds, the   *)
(* assumed sizes, chainTxData and the headers-sync parameters.            *)
(***************************************************************************)
Deployment(bit, nStartTime, nTimeout, min_activation_height, threshold, period) ==
    [bit |-> bit, nStartTime |-> nStartTime, nTimeout |-> nTimeout,
     min_activation_height |-> min_activation_height, threshold |-> threshold, period |-> period]

Deployments == {"TESTDUMMY", "TAPROOT"}

\* Consensus::BIP9Deployment::ALWAYS_ACTIVE (-1), NEVER_ACTIVE (-2) and
\* NO_TIMEOUT (the largest int64_t, here the largest TLC integer).
ALWAYS_ACTIVE == -1
NEVER_ACTIVE == -2
NO_TIMEOUT == 2147483647

\* The consensus fields every constructor sets the same way up to the
\* values passed here.
Consensus(chain_type, signet_blocks, halving, segwit, timespan, minDiff, bip94, noRetarget, threshold, period) ==
    [chain_type |-> chain_type, signet_blocks |-> signet_blocks,
     nSubsidyHalvingInterval |-> halving, BIP34Height |-> 1, BIP65Height |-> 1,
     BIP66Height |-> 1, CSVHeight |-> 1, SegwitHeight |-> segwit, MinBIP9WarningHeight |-> 0,
     nPowTargetTimespan |-> timespan, nPowTargetSpacing |-> 10 * 60,
     fPowAllowMinDifficultyBlocks |-> minDiff, enforce_BIP94 |-> bip94,
     fPowNoRetargeting |-> noRetarget,
     vDeployments |-> [TESTDUMMY |-> Deployment(28, NEVER_ACTIVE, NO_TIMEOUT, 0, threshold, period),
                       TAPROOT |-> Deployment(2, ALWAYS_ACTIVE, NO_TIMEOUT, 0, threshold, period)]]

CMainConsensus ==
    Consensus("MAIN", FALSE, 210000, 1, 14 * 24 * 60 * 60, FALSE, FALSE, FALSE, 1815, 2016)

CTestNetConsensus ==
    Consensus("TESTNET", FALSE, 210000, 1, 14 * 24 * 60 * 60, TRUE, FALSE, FALSE, 1512, 2016)

CTestNet4Consensus ==
    Consensus("TESTNET4", FALSE, 210000, 1, 14 * 24 * 60 * 60, TRUE, TRUE, FALSE, 1512, 2016)

SigNetConsensus ==
    Consensus("SIGNET", TRUE, 210000, 1, 14 * 24 * 60 * 60, FALSE, FALSE, FALSE, 1815, 2016)

\* The buried deployments of RegTestOptions::activation_heights and the
\* consensus field each one sets.
BuriedField == [SEGWIT |-> "SegwitHeight", HEIGHTINCB |-> "BIP34Height",
                DERSIG |-> "BIP66Height", CLTV |-> "BIP65Height", CSV |-> "CSVHeight"]

\* for (const auto& [dep, height] : opts.activation_heights) switch (dep) ...
ApplyActivationHeights(k, heights) ==
    [f \in DOMAIN k |-> IF \E d \in DOMAIN heights : BuriedField[d] = f
                        THEN heights[CHOOSE d \in DOMAIN heights : BuriedField[d] = f]
                        ELSE k[f]]

\* for (const auto& [deployment_pos, version_bits_params] : ...): start
\* time, timeout and min_activation_height replaced.
ApplyVersionBits(k, vb) ==
    [k EXCEPT !.vDeployments =
        [d \in Deployments |->
            IF d \in DOMAIN vb
            THEN [k.vDeployments[d] EXCEPT !.nStartTime = vb[d].start_time,
                    !.nTimeout = vb[d].timeout,
                    !.min_activation_height = vb[d].min_activation_height]
            ELSE k.vDeployments[d]]]

\* CRegTestParams(opts): the regtest defaults (TESTDUMMY starts at time
\* 0), then the options' activation heights and version-bits parameters.
CRegTestConsensus(opts) ==
    LET base == [Consensus("REGTEST", FALSE, 150, 0, 24 * 60 * 60, TRUE, opts.enforce_bip94, TRUE, 108, 144)
                    EXCEPT !.vDeployments.TESTDUMMY.nStartTime = 0]
    IN  ApplyVersionBits(ApplyActivationHeights(base, opts.activation_heights),
                         opts.version_bits_parameters)

\* base58Prefixes and bech32_hrp.
Addresses(pubkey, script, secret, extpub, extsec, hrp) ==
    [PUBKEY_ADDRESS |-> <<pubkey>>, SCRIPT_ADDRESS |-> <<script>>, SECRET_KEY |-> <<secret>>,
     EXT_PUBLIC_KEY |-> extpub, EXT_SECRET_KEY |-> extsec, bech32_hrp |-> hrp]

\* The test chains keep Bitcoin testnet's prefixes (tpub / tprv).
TestAddresses(hrp) == Addresses(111, 196, 239, <<4, 53, 135, 207>>, <<4, 53, 131, 148>>, hrp)

\* Mutant: mainnet keeps Bitcoin's WIF prefix 0x80.
CMainAddressesBitcoinWif ==
    Addresses(38, 53, 128, <<4, 157, 124, 178>>, <<4, 157, 122, 4>>, "hyl")

CMainAddresses == Addresses(38, 53, 176, <<4, 157, 124, 178>>, <<4, 157, 122, 4>>, "hyl")
CTestNetAddresses == TestAddresses("thyl")
CTestNet4Addresses == TestAddresses("thyl")
SigNetAddresses == TestAddresses("thyl")
CRegTestAddresses == TestAddresses("rhyl")

\* The consensus and address parameters of chain c (regtest built with
\* each of the RegTestOptions in opts).
ConsensusOf(c, opts) ==
    CASE c = "main" -> {CMainConsensus} [] c = "testnet" -> {CTestNetConsensus}
      [] c = "testnet4" -> {CTestNet4Consensus} [] c = "signet" -> {SigNetConsensus}
      [] c = "regtest" -> {CRegTestConsensus(o) : o \in opts}

AddressesOf(c) ==
    CASE c = "main" -> CMainAddresses [] c = "testnet" -> CTestNetAddresses
      [] c = "testnet4" -> CTestNet4Addresses [] c = "signet" -> SigNetAddresses
      [] c = "regtest" -> CRegTestAddresses

=============================================================================
