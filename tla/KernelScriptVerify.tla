------------------------- MODULE KernelScriptVerify -------------------------
(***************************************************************************)
(* Script verification through the kernel C API and its C++ wrapper:       *)
(* hylk_script_pubkey_verify of src/src/kernel/hyliumkernel.cpp with       *)
(* is_valid_flag_combination, and ScriptPubkeyApi::Verify of               *)
(* hyliumkernel_wrapper.h, which turns a span of outputs into the pointer  *)
(* and length the C function takes.  The interpreter (VerifyScript) is     *)
(* abstracted to its boolean verdict, an input of the call; a transaction  *)
(* to its number of inputs.  A call ends in one of three ways: it returns  *)
(* (ret, and the status it wrote), or an assert aborts the process.        *)
(*                                                                         *)
(* Also the enums of the C API and of the wrapper, and the translations   *)
(* of hyliumkernel.cpp between them and Bitcoin Core's (get_bclog_level,  *)
(* get_bclog_flag, cast_state, cast_hylk_warning, the chain-type and      *)
(* block-validation-state switches), as functions of the enum values.     *)
(***************************************************************************)
EXTENDS Integers, Bitwise, FiniteSets

\* hylk_ScriptVerificationFlags (hyliumkernel.h).
Flag_P2SH == 1
Flag_DERSIG == 4
Flag_NULLDUMMY == 16
Flag_CHECKLOCKTIMEVERIFY == 512
Flag_CHECKSEQUENCEVERIFY == 1024
Flag_WITNESS == 2048
Flag_TAPROOT == 131072
ALL == Flag_P2SH + Flag_DERSIG + Flag_NULLDUMMY + Flag_CHECKLOCKTIMEVERIFY + Flag_CHECKSEQUENCEVERIFY + Flag_WITNESS + Flag_TAPROOT

\* SCRIPT_VERIFY_CLEANSTACK of the interpreter (script/interpreter.h, not
\* in this repository): bit 8, outside the C API's flags.
Flag_CLEANSTACK == 256

\* hylk_ScriptVerifyStatus.
OK == 0
ERROR_INVALID_FLAGS_COMBINATION == 1
ERROR_SPENT_OUTPUTS_REQUIRED == 2

Has(flags, f) == (flags & f) # 0

\* is_valid_flag_combination.
is_valid_flag_combination(flags) ==
    /\ ~(Has(flags, Flag_CLEANSTACK) /\ (Not(flags) & (Flag_P2SH + Flag_WITNESS)) # 0)
    /\ ~(Has(flags, Flag_WITNESS) /\ ~Has(flags, Flag_P2SH))

\* The end of a call: it returns ret having written status, or aborts.
Returns(ret, status) == [abort |-> FALSE, ret |-> ret, status |-> status]
Abort == [abort |-> TRUE, ret |-> 0, status |-> "unset"]

\* Mutant: the spent-outputs check made before the flag combination.
hylk_script_pubkey_verify_swapped(flags, spent, spent_len, vin, input_index, script_ok) ==
    CASE (flags & Not(ALL)) # 0 -> Abort
      [] Has(flags, Flag_TAPROOT) /\ ~spent -> Returns(0, ERROR_SPENT_OUTPUTS_REQUIRED)
      [] ~is_valid_flag_combination(flags) -> Returns(0, ERROR_INVALID_FLAGS_COMBINATION)
      [] spent /\ spent_len # vin -> Abort
      [] input_index >= vin -> Abort
      [] OTHER -> Returns(IF script_ok THEN 1 ELSE 0, OK)

\* hylk_script_pubkey_verify with a non-null status: spent says whether
\* spent_outputs_ is non-null, vin is tx.vin.size(), script_ok the verdict
\* of VerifyScript.  The asserts abort; the two error returns come before
\* *status = OK, the asserts on the lengths after it.
hylk_script_pubkey_verify(flags, spent, spent_len, vin, input_index, script_ok) ==
    CASE (flags & Not(ALL)) # 0 -> Abort
      [] ~is_valid_flag_combination(flags) -> Returns(0, ERROR_INVALID_FLAGS_COMBINATION)
      [] Has(flags, Flag_TAPROOT) /\ ~spent -> Returns(0, ERROR_SPENT_OUTPUTS_REQUIRED)
      [] spent /\ spent_len # vin -> Abort
      [] input_index >= vin -> Abort
      [] OTHER -> Returns(IF script_ok THEN 1 ELSE 0, OK)

\* Mutant: raw_spent_outputs.data() passed even for an empty span.
VerifyAlwaysData(flags, span_len, vin, input_index, script_ok) ==
    hylk_script_pubkey_verify(flags, TRUE, span_len, vin, input_index, script_ok)

\* ScriptPubkeyApi::Verify: a non-empty span is passed as the array of
\* its handles, an empty one as nullptr; the length is the span's size.
Verify(flags, span_len, vin, input_index, script_ok) ==
    hylk_script_pubkey_verify(flags, span_len > 0, span_len, vin, input_index, script_ok)

-----------------------------------------------------------------------------
\* The C enums of hyliumkernel.h and the translations of hyliumkernel.cpp;
\* a value outside the switch reaches assert(false) ("abort").
LogLevels == 0 .. 2          \* TRACE, DEBUG, INFO
LogCategories == 0 .. 10     \* ALL, BENCH, ..., KERNEL

get_bclog_level ==
    [l \in LogLevels |-> <<"Trace", "Debug", "Info">>[l + 1]]

get_bclog_flag ==
    [c \in LogCategories |->
        <<"ALL", "BENCH", "BLOCKSTORAGE", "COINDB", "LEVELDB", "MEMPOOL", "PRUNE",
          "RAND", "REINDEX", "VALIDATION", "KERNEL">>[c + 1]]

\* SynchronizationState -> hylk_SynchronizationState (0, 1, 2).
cast_state == [s \in {"INIT_REINDEX", "INIT_DOWNLOAD", "POST_INIT"} |->
                 CASE s = "INIT_REINDEX" -> 0 [] s = "INIT_DOWNLOAD" -> 1 [] OTHER -> 2]

\* kernel::Warning -> hylk_Warning (0, 1).
cast_hylk_warning == [w \in {"UNKNOWN_NEW_RULES_ACTIVATED", "LARGE_WORK_INVALID_CHAIN"} |->
                        IF w = "UNKNOWN_NEW_RULES_ACTIVATED" THEN 0 ELSE 1]


\* hylk_ChainType, hylk_SynchronizationState, hylk_Warning,
\* hylk_ValidationMode and hylk_BlockValidationResult (hyliumkernel.h).
hylk_ChainType == [MAINNET |-> 0, TESTNET |-> 1, TESTNET_4 |-> 2, SIGNET |-> 3, REGTEST |-> 4]
hylk_SynchronizationState == [INIT_REINDEX |-> 0, INIT_DOWNLOAD |-> 1, POST_INIT |-> 2]
hylk_Warning == [UNKNOWN_NEW_RULES_ACTIVATED |-> 0, LARGE_WORK_INVALID_CHAIN |-> 1]
hylk_ValidationMode == [VALID |-> 0, INVALID |-> 1, INTERNAL_ERROR |-> 2]
hylk_BlockValidationResult ==
    [UNSET |-> 0, CONSENSUS |-> 1, CACHED_INVALID |-> 2, INVALID_HEADER |-> 3, MUTATED |-> 4,
     MISSING_PREV |-> 5, INVALID_PREV |-> 6, TIME_FUTURE |-> 7, HEADER_LOW_WORK |-> 8]

\* The enum classes of hyliumkernel_wrapper.h: each enumerator is defined
\* as the C constant of its name (the log levels' names end in _LEVEL).
LogLevel == [TRACE_LEVEL |-> 0, DEBUG_LEVEL |-> 1, INFO_LEVEL |-> 2]
LogCategory ==
    [ALL |-> 0, BENCH |-> 1, BLOCKSTORAGE |-> 2, COINDB |-> 3, LEVELDB |-> 4, MEMPOOL |-> 5,
     PRUNE |-> 6, RAND |-> 7, REINDEX |-> 8, VALIDATION |-> 9, KERNEL |-> 10]
ChainType == hylk_ChainType
SynchronizationState == hylk_SynchronizationState
Warning == hylk_Warning
ValidationMode == hylk_ValidationMode
BlockValidationResult == hylk_BlockValidationResult

\* static_cast<E>(v) of the wrapper: the enumerator of E whose value is v.
Enumerator(E, v) == CHOOSE n \in DOMAIN E : E[n] = v

\* hylk_chain_parameters_create: the CChainParams factory each chain type
\* calls.
hylk_chain_parameters_create ==
    [t \in 0 .. 4 |-> <<"Main", "TestNet", "TestNet4", "SigNet", "RegTest">>[t + 1]]

\* hylk_block_validation_state_get_validation_mode: IsValid(), then
\* IsInvalid(), else an internal error; over the modes M_VALID, M_INVALID
\* and M_ERROR of a BlockValidationState.
get_validation_mode(mode) ==
    CASE mode = "M_VALID" -> hylk_ValidationMode.VALID
      [] mode = "M_INVALID" -> hylk_ValidationMode.INVALID
      [] OTHER -> hylk_ValidationMode.INTERNAL_ERROR

\* Mutant: two cases of the switch exchanged.
get_block_validation_result_swapped ==
    [BLOCK_RESULT_UNSET |-> hylk_BlockValidationResult.UNSET,
     BLOCK_CONSENSUS |-> hylk_BlockValidationResult.CONSENSUS,
     BLOCK_CACHED_INVALID |-> hylk_BlockValidationResult.CACHED_INVALID,
     BLOCK_INVALID_HEADER |-> hylk_BlockValidationResult.INVALID_HEADER,
     BLOCK_MUTATED |-> hylk_BlockValidationResult.MUTATED,
     BLOCK_MISSING_PREV |-> hylk_BlockValidationResult.INVALID_PREV,
     BLOCK_INVALID_PREV |-> hylk_BlockValidationResult.MISSING_PREV,
     BLOCK_TIME_FUTURE |-> hylk_BlockValidationResult.TIME_FUTURE,
     BLOCK_HEADER_LOW_WORK |-> hylk_BlockValidationResult.HEADER_LOW_WORK]

\* hylk_block_validation_state_get_block_validation_result: the switch
\* over every BlockValidationResult (its assert(false) is unreachable).
get_block_validation_result ==
    [BLOCK_RESULT_UNSET |-> hylk_BlockValidationResult.UNSET,
     BLOCK_CONSENSUS |-> hylk_BlockValidationResult.CONSENSUS,
     BLOCK_CACHED_INVALID |-> hylk_BlockValidationResult.CACHED_INVALID,
     BLOCK_INVALID_HEADER |-> hylk_BlockValidationResult.INVALID_HEADER,
     BLOCK_MUTATED |-> hylk_BlockValidationResult.MUTATED,
     BLOCK_MISSING_PREV |-> hylk_BlockValidationResult.MISSING_PREV,
     BLOCK_INVALID_PREV |-> hylk_BlockValidationResult.INVALID_PREV,
     BLOCK_TIME_FUTURE |-> hylk_BlockValidationResult.TIME_FUTURE,
     BLOCK_HEADER_LOW_WORK |-> hylk_BlockValidationResult.HEADER_LOW_WORK]

=============================================================================
