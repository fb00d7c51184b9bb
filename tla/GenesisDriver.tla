---------------------------- MODULE GenesisDriver ----------------------------
(***************************************************************************)
(* main() of src/contrib/devtools/genesis_hylium.cpp (the same code is     *)
(* main() of src/src/tools/mine_genesis.cpp): the worker count taken from *)
(* HYLIUM_GENESIS_THREADS, the network filter taken from                   *)
(* HYLIUM_GENESIS_NETS, and the loop that runs MineGenesis for each        *)
(* wanted network of the table, one after another.  The count MineGenesis  *)
(* then puts into `std::atomic<int> active` is its static_cast<int>.       *)
(*                                                                         *)
(* An environment variable is a record: set, and the text it holds.  A    *)
(* text of the thread count is a sequence of one-character strings.  A    *)
(* text of the filter is a sequence of tokens: "," or a piece of a name   *)
(* (a network's whole name, or "m", which only begins one).                *)
(* int and unsigned are INT_BITS wide, a stand-in for 32 bits wide enough  *)
(* for every text the runs parse: what matters is the wrap of a negative  *)
(* int to unsigned and back.                                               *)
(***************************************************************************)
EXTENDS Integers, Sequences
LOCAL INSTANCE SequencesExt

INT_BITS == 16
UINT_LIMIT == 2 ^ INT_BITS

\* The int -> unsigned conversion, and static_cast<int> of an unsigned
\* (two's complement, as every supported compiler does it).
ToUnsigned(i) == i % UINT_LIMIT
ToInt(u) == IF u >= UINT_LIMIT \div 2 THEN u - UINT_LIMIT ELSE u

Digit == [c \in {"0", "1", "2", "3", "4", "5", "6", "7", "8", "9"} |->
            CHOOSE d \in 0 .. 9 : <<"0", "1", "2", "3", "4", "5", "6", "7", "8", "9">>[d + 1] = c]

\* std::atoi: leading white space skipped, an optional sign, then the
\* longest run of decimal digits (none gives 0).  Texts are short enough
\* that no value overflows int.
Atoi(s) ==
    LET k    == SelectInSeq(s, LAMBDA c : c # " ")
        rest == IF k = 0 THEN <<>> ELSE SubSeq(s, k, Len(s))
        sign == Len(rest) > 0 /\ rest[1] \in {"+", "-"}
        body == IF sign THEN Tail(rest) ELSE rest
        stop == SelectInSeq(body, LAMBDA c : c \notin DOMAIN Digit)
        ds   == IF stop = 0 THEN body ELSE SubSeq(body, 1, stop - 1)
        v    == FoldLeft(LAMBDA acc, c : acc * 10 + Digit[c], 0, ds)
    IN  IF sign /\ rest[1] = "-" THEN -v ELSE v

\* The thread count of main(): hardware_concurrency() (which may be 0),
\* replaced by std::max<unsigned>(1, std::atoi(env)) when the variable is
\* set, and a 0 raised to 1.
Threads(env, hardware) ==
    LET t == IF env.set THEN IF ToUnsigned(Atoi(env.text)) > 1 THEN ToUnsigned(Atoi(env.text)) ELSE 1
             ELSE hardware
    IN  IF t = 0 THEN 1 ELSE t

\* The initial value of `active` in MineGenesis: static_cast<int>(threads).
InitialActive(threads) == ToInt(threads)

\* The profiles of the table, in order.
NetNames == <<"main", "testnet", "test4", "regtest">>

\* The items std::getline(ss, item, ',') yields, in order: the text up to
\* each ',' (the ',' consumed), then the rest when it is not empty.
RECURSIVE GetlineItems(_)
GetlineItems(s) ==
    IF s = <<>> THEN <<>>
    ELSE LET k == SelectInSeq(s, LAMBDA c : c = ",")
         IN  IF k = 0 THEN <<s>>
             ELSE <<SubSeq(s, 1, k - 1)>> \o GetlineItems(SubSeq(s, k + 1, Len(s)))

\* Mutant: the empty items kept in the filter.
FilterKeepEmpty(env) == IF env.set THEN GetlineItems(env.text) ELSE <<>>

\* The filter of main(): the non-empty items, when the variable is set.
Filter(env) == IF env.set THEN SelectSeq(GetlineItems(env.text), LAMBDA it : it # <<>>) ELSE <<>>

\* wanted(name): every name when the filter is empty, else those of it.
Wanted(filter, name) == filter = <<>> \/ \E i \in DOMAIN filter : filter[i] = <<name>>

\* The run of main(): the thread count and the networks MineGenesis is
\* called for, in order, when every call returns.  (MineGenesis is
\* modelled by GenesisSearch and MineGenesisSearch.)
Main(threadsEnv, netsEnv, hardware) ==
    [threads |-> Threads(threadsEnv, hardware),
     mined   |-> SelectSeq(NetNames, LAMBDA n : Wanted(Filter(netsEnv), n))]

\* main() of mine_genesis.cpp, the same statements.
MineGenesisMain(threadsEnv, netsEnv, hardware) == Main(threadsEnv, netsEnv, hardware)


-----------------------------------------------------------------------------
(***************************************************************************)
(* The search-start overrides of MineGenesis.  uint32_t is U32_BITS wide   *)
(* and unsigned long (long), 64 bits on the supported LP64 targets, is     *)
(* ULL_BITS wide: stand-ins that keep a value above uint32_t's range and   *)
(* one above unsigned long long's within the texts the runs parse.         *)
(***************************************************************************)
U32_BITS == 8
U32_MAX == 2 ^ U32_BITS - 1
ULL_BITS == 12
ULL_MAX == 2 ^ ULL_BITS - 1

HexChars == <<"0", "1", "2", "3", "4", "5", "6", "7", "8", "9", "a", "b", "c", "d", "e", "f">>
\* The value of a digit character in base b, or -1 when it is none.
DigitIn(c, b) == IF \E d \in 0 .. b - 1 : HexChars[d + 1] = c
                 THEN CHOOSE d \in 0 .. b - 1 : HexChars[d + 1] = c ELSE -1

StrtoullRange(v, neg) ==
    IF v > ULL_MAX THEN ULL_MAX ELSE IF neg THEN (ULL_MAX + 1 - v) % (ULL_MAX + 1) ELSE v

\* The value of the longest run of base-b digits at the start of ds, made
\* ULLONG_MAX when out of range and negated modulo 2^64 after a '-'.
StrtoullRun(ds, b, neg) ==
    LET stop == SelectInSeq(ds, LAMBDA c : DigitIn(c, b) < 0)
    IN  StrtoullRange(FoldLeft(LAMBDA acc, c : acc * b + DigitIn(c, b), 0,
                               IF stop = 0 THEN ds ELSE SubSeq(ds, 1, stop - 1)), neg)

\* The base from the prefix of the unsigned text.
StrtoullBody(body, neg) ==
    IF Len(body) >= 3 /\ body[1] = "0" /\ body[2] \in {"x", "X"} /\ DigitIn(body[3], 16) >= 0
    THEN StrtoullRun(SubSeq(body, 3, Len(body)), 16, neg)
    ELSE StrtoullRun(body, IF Len(body) > 0 /\ body[1] = "0" THEN 8 ELSE 10, neg)

\* The optional sign.
StrtoullSigned(rest) ==
    IF Len(rest) > 0 /\ rest[1] \in {"+", "-"}
    THEN StrtoullBody(Tail(rest), rest[1] = "-")
    ELSE StrtoullBody(rest, FALSE)

\* std::strtoull(v, nullptr, 0) (and std::strtoul, as wide): white space
\* skipped, an optional sign, the base taken from the prefix ("0x" or "0X"
\* before a hex digit: 16; another leading "0": 8; else 10), then the longest run
\* of digits of that base.  No digits gives 0; a value above ULLONG_MAX
\* gives ULLONG_MAX (ERANGE); a '-' negates the value modulo 2^64.
Strtoull(s) ==
    LET k == SelectInSeq(s, LAMBDA c : c # " ")
    IN  StrtoullSigned(IF k = 0 THEN <<>> ELSE SubSeq(s, k, Len(s)))

\* Mutant: the range check of GetEnvUint made strict.
U32OrDefaultStrict(val, def) == IF val < U32_MAX THEN val ELSE def

\* The value when it fits uint32_t, otherwise def.
U32OrDefault(val, def) == IF val <= U32_MAX THEN val ELSE def

\* GetEnvUint(name, def) of genesis_hylium: the variable's strtoull value
\* when it is set and fits uint32_t, otherwise def.
GetEnvUint(env, def) == IF env.set THEN U32OrDefault(Strtoull(env.text), def) ELSE def

\* GetEnvUint of mine_genesis, the same statements.
MineGenesisGetEnvUint(env, def) == GetEnvUint(env, def)

\* The start of MineGenesis of genesis_hylium for a profile spec (its
\* use_extra_nonce and extra_nonce) and the three variables: whether the
\* extra nonce is used (HYLIUM_GENESIS_EXTRANONCE, strtoul != 0), the
\* first extra nonce of the outer loop (HYLIUM_GENESIS_EXTRANONCE_START,
\* strtoul cast to uint32_t, when used) and the first nonce.
GenesisHyliumStart(spec, extraEnv, extraStartEnv, startEnv) ==
    LET use == IF extraEnv.set THEN Strtoull(extraEnv.text) # 0 ELSE spec.use_extra_nonce
        es  == IF extraStartEnv.set THEN Strtoull(extraStartEnv.text) % (U32_MAX + 1)
               ELSE spec.extra_nonce
    IN  [use   |-> use,
         extra |-> IF use THEN es ELSE spec.extra_nonce,
         nonce |-> GetEnvUint(startEnv, 0)]

\* The start of MineGenesis of mine_genesis: no enable variable, and the
\* extra-nonce start read with GetEnvUint, defaulting to the profile's.
MineGenesisStart(spec, extraStartEnv, startEnv) ==
    [use   |-> spec.use_extra_nonce,
     extra |-> IF spec.use_extra_nonce
               THEN MineGenesisGetEnvUint(extraStartEnv, spec.extra_nonce)
               ELSE spec.extra_nonce,
     nonce |-> MineGenesisGetEnvUint(startEnv, 0)]

=============================================================================
