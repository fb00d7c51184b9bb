# TLA+ models of Hylium

This directory holds TLA+ specifications of the code in `src/` that a model
checker can check, and the TLC configurations that check them. Most of the
node is Bitcoin Core code that is not in `src/`. What `src/` does contain is:

- two genesis-block miners, `src/contrib/devtools/genesis_hylium.cpp` and
  `src/src/tools/mine_genesis.cpp`;
- the chain parameters that hold their results (`src/src/kernel/chainparams.cpp`);
- the kernel C API (`src/src/kernel/hyliumkernel.cpp`, `.h`) and its C++
  wrapper (`hyliumkernel_wrapper.h`);
- the Qt amount formatter (`src/src/qt/hyliumunits.cpp`);
- tests, headers and a clang-tidy plugin.

`PROJECT.json` lists every component, run, mutant, finding and hazard, and
maps every definition to the source lines it translates.

## 1. The parts and how they interact

| Component | Code | State | Modules |
|---|---|---|---|
| Compact-target codec | `BitsToTarget`, `HashMeetsTarget` (genesis_hylium.cpp:55-88; the same in mine_genesis.cpp) | none | `PowTarget` |
| Serializer | `SerializeVarInt`, `SerializeTx`, `MakeOpReturn`, `MerkleRoot`, header layout | none | `Serializer`, read back by `TxReader` |
| Nonce search, genesis_hylium | `MineGenesis` (genesis_hylium.cpp:207-357) | atomics `found`, `active`, result, per-worker loop variables, `extra_nonce` | `GenesisSearch`, `GenesisSearchAbstract` |
| Nonce search, mine_genesis | `MineGenesis` (mine_genesis.cpp) | as above; every worker wraps | `MineGenesisSearch` |
| Telemetry | `total_hashes`, `interval_hashes`, the `max_nonce` CAS loop, the status line | three atomics | `HashTelemetry` |
| Chain parameters | the five chain constructors, `CreateGenesisBlock*`, `GetNetworkForMagic`, the regtest options | constants | `ChainParams`, `MCChainParams` |
| Units | `HyliumUnits::format`, `formatWithPrivacy`, `parse`, the unit stream encoding | none | `HyliumUnits` |
| Kernel object lifetimes | contexts, options, chainstate managers, logging connections, and their callbacks | shared ownership and user data | `KernelLifetime` |
| Wrapper ownership | `Handle`, `UniqueHandle` (hyliumkernel_wrapper.h) | `m_ptr` of each wrapper, the heap | `KernelHandle` |
| Script verification and enums | `hylk_script_pubkey_verify`, `ScriptPubkeyApi::Verify`, the enums of hyliumkernel.h and of the wrapper, and the translations to and from Bitcoin Core's | none | `KernelScriptVerify` |
| Miner driver | `main()`, `GetEnvUint` and the search-start overrides of both miners | none | `GenesisDriver` |
| Wrapper views | `Range`/`Iterator` over the indexed getters, `write_bytes` with `WriterStream` and the `*_to_bytes` functions | none | `KernelWrapperViews` |

The miners build a coinbase and header with the serializer and search nonces
with several threads. They compare each hash with the target that the codec
decodes. The values they find are hard-coded in the chain parameters, which
rebuild the genesis block and assert its hash. `MCChainParams` composes these
parts: it checks the constructors' blocks against the miners' tables.

The search is concurrent:

- The main thread starts `threads` workers, which share the atomics.
- A worker that meets the target does four things, in order:
  1. it sets `found` by `exchange(true)`;
  2. if it was first, it stores `found_nonce`;
  3. it stores `found_hash`;
  4. it breaks out of its loop and decrements `active`.
- The main thread polls `found || active == 0` and prints the telemetry. Then it joins every worker and reads the result.
- In genesis_hylium, with the extra nonce, worker `tid` hashes
  `nonce_start + tid + i*threads` for `i` in `0..max_i`. Without it, the worker
  loops `while (!found)` with a wrapping `nonce += threads`.
- mine_genesis uses the wrapping loop for every profile.

The kernel API is single-threaded from the model's point of view. Its hazards
are orderings of client calls: a destroy before a callback, a self-move, or a
failed write in the middle of a serialization.

## 2. Modules

Component modules:

- **`GenesisSearch`**, with these variables:
  - `meets[e]`, a hash oracle standing in for SHA-256: the nonces whose hash meets the target under extra nonce `e`. It is chosen in `Init` and never changes. A hash is named by its preimage `<<e, n>>`.
  - `threads` and `nonce_start`;
  - `extra_nonce`;
  - the atomics `found`, `found_nonce`, `found_hash` and `active`;
  - each worker's `wpc`, `wi` and `wnonce`;
  - the main thread's `mpc`;
  - a history `hashed`.

  The worker actions are `Start` (with the early return), `Top`, `Hash`, `StoreNonce` and `StoreHash` (with the `fetch_sub`). The main-thread actions are `Poll`, `Report` and `NotFound` (advance the extra nonce, or fail).
- **`GenesisSearchAbstract`**: what a search promises. `Find` reports a solution of the current extra nonce. `Exhaust` advances the extra nonce, or fails.
- **`MineGenesisSearch`**: the same structure for mine_genesis.cpp. The tail of its extra-nonce loop is unreachable, which `JoinOnlyAfterFind` shows, so it has no action.
- **`HashTelemetry`**: each worker step is an action:
  - the two `fetch_add`s;
  - the `max_nonce` load;
  - each `compare_exchange_weak` attempt, spurious failures included;
  - in the fixed order, the `nonce += threads` that comes before them (`AdvanceFirst`).

  The main thread's status `exchange(0)`, its load of `max_nonce`, the poll and the join are actions too.
- **`PowTarget`, `Serializer`, `HyliumUnits`**: pure functions, written as operators.
- **`TxReader`**: reference readers (`ReadCompactSize`, the transaction and header parsers). They are Bitcoin Core code that is not in this repository, so they are written from the format.
- **`ChainParams`**: one record per chain, holding:
  - the proof-of-work limit, message start, port, genesis arguments and asserted hash;
  - the consensus fields: halving, buried heights, retarget timespan and spacing, and the BIP9 deployments;
  - the base58 prefixes and bech32 hrp.

  `ConsensusOf(c, opts)` applies regtest's `-vbparams`, `-testactivationheight` and BIP94 options (`ApplyVersionBits`, `ApplyActivationHeights`). No run checks the consensus fields. Regtest sets `fPowNoRetargeting` (chainparams.cpp:574), so its deployment periods need not match its retarget interval, and the other fields are constants with no second source to compare against.
- **`KernelHandle`**: the client's wrappers (`Slots`) over reusable heap addresses (`Objs`). Each operation of the two templates is an action:
  - construction from a create function;
  - copy construction and copy assignment;
  - move construction and move assignment;
  - use and destruction.
- **`KernelLifetime`**: handles to options, contexts, chainstate-manager options, chainstate managers and logging connections. User data goes through the states held, released and called. Each creation, copy, `set_*`, destroy, chainstate-manager event and log line is an action.
- **`KernelScriptVerify`**: `hylk_script_pubkey_verify` as a `CASE` in the code's order: flag assert, flag combination, spent-outputs check, length asserts, verdict. Also the wrapper's `Verify`, which passes `nullptr` for an empty span. The enums come in three layers: Core's enums, the `#define` constants of hyliumkernel.h and the wrapper's `enum class`es (whose enumerators are those constants). They are functions from names to values, and `Enumerator` is the wrapper's `static_cast`. The switches of hyliumkernel.cpp between the layers are functions too: the log level and category, `cast_state`, `cast_hylk_warning`, `hylk_chain_parameters_create`, and the block-validation mode and result.
- **`KernelWrapperViews`**:
  - `Iterator` and `Range` over the five indexed getters. Each getter asserts `index < count`.
  - `size_t` arithmetic is taken modulo `SIZE_T = 2^16`, a stand-in for 2^64 that is larger than any size used, so an index below zero wraps to one no collection has.
  - `Stream` is `WriterStream` calling the `write_bytes` lambda once per chunk, with one call chosen to throw `bad_alloc`.

- **`GenesisDriver`**: `main()` of both miners as operators:
  - the worker count from `HYLIUM_GENESIS_THREADS` (`std::atoi`, the conversion to `unsigned`, `std::max<unsigned>`) and the `static_cast<int>` that initialises `active`;
  - the network filter from `HYLIUM_GENESIS_NETS` (`std::getline` on `,`, empty items dropped) and the networks mined, in table order;
  - the search-start overrides that `MineGenesis` reads. `Strtoull` is `std::strtoull` in base 0: a `0x` prefix means hex and a leading `0` means octal, too large a value saturates, and `-` negates modulo 2^64. `GetEnvUint` keeps a value only when it fits `uint32_t`. `GenesisHyliumStart` and `MineGenesisStart` give each miner's enable flag, first extra nonce and first nonce.

  In the start overrides, `uint32_t` is `U32_BITS = 8` wide and `unsigned long long` is `ULL_BITS = 12` wide. Both are stand-ins. They keep three cases apart: values in range, values above `uint32_t`, and values above `unsigned long long`.

  `int` and `unsigned` are `INT_BITS = 16` wide, a stand-in for 32 that is wide enough for every text the runs parse.
- **`ChainmanOptions`**: one `hylk_ChainstateManagerOptions` shared by client threads. `opts` holds the guarded members; each setter's locked section is one action. `hylk_chainstate_manager_create` is two actions, one per locked section:
  - `CreateConstruct` builds the manager from the chainman and blockman options, which is where the block tree is wiped;
  - `CreateLoad` copies the chainstate load options, which is where the chainstate is wiped.

  Loading, verifying and activating are abstracted to success or failure. `made` records what each created manager was built with.

MC modules:

- **`MCCodec`** checks all the pure parts in one run. Its constant `input` is a tagged record; `Next` leaves it unchanged, and every property reads `input.kind = ... => ...`. It instantiates `MCChainParams` once for each chain and message, and `KernelScriptVerify` and `KernelWrapperViews` once each.
- **`MCChainParams`** composes `ChainParams` with `Serializer`, `PowTarget` and the miners' tables.
- **`MCGenesisSearch`** runs `GenesisSearch` in both modes of `use_extra_nonce` in one check. `mode` is chosen in `Init` and never changes, with one instance of the module per mode over the same variables. It states the refinement of `GenesisSearchAbstract` conjunct by conjunct, each under `mode`.
- **`MCChainmanOptions`** gives `ChainmanOptions` its arguments and states what every created manager should satisfy.
- **`MCCodec`** also instantiates `GenesisDriver` over short environment texts and over the printed forms of every stand-in `uint32_t`. The codec properties are checked of both miners' copies of the helpers (`MineGenesisSerializeTx` etc.); mine_genesis.cpp:51-151 has the same statements as genesis_hylium.cpp.
- **`MCHashTelemetry`, `MCMineGenesisSearch`, `MCKernelHandle`, `MCKernelLifetime`** add history variables and properties to their component modules.

Bit widths are constants. `NonceBits` is 32 in the code and 2-3 in the runs. `ExtraBits` is 32 in the code and 1 in the runs. Every wrap is taken `% 2^w`.

The code's atomics use relaxed orders. The model treats each one as a single sequentially consistent location, which is sound here:

- `found_nonce` and `found_hash` are read only after `join()`, which synchronises with each worker's end;
- the telemetry properties are about values that a single location holds.

## 3. Runs

| Run | cfg | Result | Distinct states |
|---|---|---|---|
| `search_extra` | `MCGenesisSearch.cfg` | pass | about 565k |
| `search_fixed_no_solution` | `MCGenesisFixed.cfg` | violation of `EventuallyDecided` | |
| `mine_search` | `MCMineGenesisSearch.cfg` | pass | about 494k |
| `mine_search_extra_stuck` | `MCMineGenesisExtra.cfg` | violation of `ExtraNonceSolutionEventuallyReported` | |
| `telemetry_extra` | `MCHashTelemetry.cfg` | pass | about 99k |
| `telemetry_fixed_max_nonce` | `MCHashTelemetryFixed.cfg` | violation of `StatusMaxWasHashed` | |
| `codecs` | `MCCodec.cfg` | pass | about 41k (initial) |
| `chain_params_bitcoin_identity` | `MCChainParamsBitcoin.cfg` | violation of `NoNetworkIdentitySharedWithBitcoin` | |
| `handle_ownership` | `MCKernelHandle.cfg` | pass | about 2.8k |
| `handle_self_move` | `MCKernelHandleSelfMove.cfg` | violation of `HeapSafe` | |
| `kernel_lifetime` | `MCKernelLifetime.cfg` | pass | about 22k |
| `chainman_options_race` | `MCChainmanOptionsRace.cfg` | violation of `ChainmanWipeSupported` | |

What the passing runs show:

- **`search_extra`**, in both modes; the last three points are about the extra-nonce mode:
  - without the extra nonce, the wrapping workers still reach and report every solution;
  - a reported result is a solution of the current coinbase, inside the searched range, and not torn (`ReportedGenesisValid`);
  - a round without a solution has hashed every nonce (`SearchExhaustive`), and none twice;
  - every solution is eventually reported;
  - the search refines `GenesisSearchAbstract` with `extra` mapped to `extra_nonce`, the status to the main thread's outcome, and the nonce to `found_nonce` once reported.
- **`mine_search`**: mine_genesis reports only valid, untorn results. It joins only after a find, and reports whenever the starting coinbase has a solution.
- **`telemetry_extra`**:
  - `interval_hashes` plus everything the status line has taken equals the hashes counted (`RateAccountsEveryHash`), despite `exchange(0)` racing `fetch_add`;
  - `max_nonce` settles at the largest nonce hashed, despite spurious CAS failures;
  - the printed maximum was hashed.
- **`codecs`**:
  - **Serializer and codec:**
    - the varint and the transaction and header serialization round-trip through the reference readers;
    - the extra nonce separates coinbases, and OP_RETURN is a single push;
    - `BitsToTarget` equals the compact value, and `HashMeetsTarget` is numeric order.
  - **Units:**
    - format is read back by parse in every unit and style;
    - parse accepts every well-formed decimal text;
    - the privacy mask keeps the layout.
  - **Chain parameters:**
    - every chain's genesis block is the miners' block and meets its own target;
    - every message start names its network;
    - address prefixes are distinct within a chain and from mainnet's and Bitcoin's (`AddressSpacesSeparate`).
  - **Kernel API:**
    - script verification reports caller errors before any length assert (`VerifyReportsErrorsFirst`);
    - the wrapper never aborts on well-formed arguments (`WrapperVerifyNeverAborts`);
    - every Range traverses its collection forwards and backwards, and `at` throws past the end. `front` and `back` of an empty range stop at the getter's assert rather than return an element (`RangeTraversal`);
    - `write_bytes` returns a transaction's, block's or script's whole serialization or rethrows the stored exception, never a prefix (`WriteBytesAllOrThrow`);
    - every block-validation result, validation mode, synchronization state and warning reaches the wrapper as the enumerator of its name. Every wrapper chain type, log level and log category reaches Core as the one of its name. A display unit written to the settings stream reads back as itself. A byte that no unit writes reaches `FromQint8`'s assert (`EnumsKeepTheirMeaning`).
  - **Driver:** both miners mine exactly the networks named in `HYLIUM_GENESIS_NETS`, in table order. They mine every network when the variable is unset, empty or only commas (`DriverRunsFilteredNets`). A restart given a value the status line printed, in decimal or as `0x` hex, resumes exactly there in both miners, the largest `uint32_t` included. A negative or too-large `HYLIUM_GENESIS_START` falls back to 0, and mine_genesis's `HYLIUM_GENESIS_EXTRANONCE_START` to the profile's extra nonce (`StartOverrideResumes`).
- **`handle_ownership`**: with two `Handle` and two `UniqueHandle` wrappers over four reusable addresses, there is no double free, use after free or leak (`HeapSafe`), and no two wrappers own one object.
- **`kernel_lifetime`**: in any order of client calls, no callback reaches a destroyed user datum, and once everything is destroyed none is still held. A user datum counts as held from the moment it is passed to the kernel until `user_data_destroy` runs. So a path that never destroys it, such as a logging connection whose logger fails to start, shows up as a leak (`NoLeak`). A callback left pushed on that path would be called with freed data (`NoCallbackAfterDestroy`).

### Findings

1. **The fixed-coinbase search never ends without a solution** (`search_fixed_no_solution`). Without the extra nonce, the workers wrap forever. The "No solution found" branch (genesis_hylium.cpp:351) is unreachable, although spec §4.4 says this case reports failure.
2. **mine_genesis never advances its extra nonce** (`mine_search_extra_stuck`). It uses the wrapping loop for every profile, so `++extra_nonce` is never reached.
3. **The fixed order publishes an unhashed `max_nonce`** (`telemetry_fixed_max_nonce`). It does `nonce += threads` before the CAS, so the status line can print a nonce no worker hashed.
4. **Signet keeps Bitcoin signet's identity** (`chain_params_bitcoin_identity`). Its message start and port are Bitcoin signet's, against the stated intent of distinct message starts.
5. **A self-move of a `Handle` leaves a dangling pointer** (`handle_self_move`). `Handle::operator=(Handle&&)` has no self-check: it destroys its object and keeps the freed pointer.
6. **Create mixes two configurations** (`chainman_options_race`). `hylk_chainstate_manager_create` reads the shared options in two separate lock sections (hyliumkernel.cpp:963 and 971). A `set_wipe_dbs(0, 0)` by another thread between them gives a manager whose block tree was wiped while its chainstate was kept. `set_wipe_dbs` refuses that combination, and the header says it should not be used.

Also observed, and not a run:

- **A negative thread count spawns threads until something throws.** `std::max<unsigned>(1, std::atoi("-4"))` converts before it compares, so the count is 2^32 - 4 (`GenesisDriver`'s `Threads`). `active` then starts at -4 (`InitialActive`). See genesis_hylium.cpp:365 and 245, and mine_genesis.cpp:298.
- **`HyliumUnits::parse` accepts a sign after the point.** With the unit HYL, ".-5" parses as -0.05 HYL, because the fraction is appended to the (empty) integer part before `toLongLong`. `ParseAcceptsDecimalText` therefore states only one direction.
- **The two miners read `HYLIUM_GENESIS_EXTRANONCE_START` differently.** genesis_hylium.cpp:217 uses `static_cast<uint32_t>(std::strtoul(...))` with no range check. So "-1" starts at 0xffffffff, and 2^32 + k starts at k. mine_genesis.cpp:185 uses `GetEnvUint`, which falls back to the profile's extra nonce. A zero-padded decimal is read as octal by both: "010" is 8. A negative text of magnitude above 2^64 - 2^32 wraps into range: strtoull("-18446744073709551615") is 1. The spec calls the tools' differences not load-bearing (§8), so no run asks about them. `GenesisHyliumStart` models the cast as it is.

## 4. Bounds and why they are enough

- **Search:** 4 nonces, 1-3 threads (so 3 does not divide the nonce space), starts 0, 1 and 3 with the extra nonce (some workers start past the end) and 3 without it (workers 1 and 2 wrap to 0 and 1), 2 extra nonces (so the wrap happens), and up to 2 solutions per extra nonce (so two workers race on the `exchange`). Every oracle of that size is enumerated.
- **Telemetry:** 2 workers over 8 nonces, which is enough for two concurrent CAS loops and a status exchange between two adds.
- **Codecs:** exponents 0..5, 16 and 28..32 with boundary mantissas; the varint thresholds as exact bytes; units over texts of up to 4 characters and amounts covering every separator position; collections of 0..3 elements, which include the empty one; serializations of up to 3 chunks with a failure at every call.
- **Driver:** filters of up to 4 tokens over ",", two names and a prefix. For the start overrides: every stand-in `uint32_t` and the two values above it, in decimal, `0x` hex and negated; `ULLONG_MAX`, `ULLONG_MAX + 1` and 99999, which saturates. The narrow widths put every boundary of `GetEnvUint` and of `strtoull` within reach.
- **Chainman options:** int arguments 0, 1 and 2, so both the refused pair and a value that is neither 0 nor 1 are passed. Two client threads, so that one can create while another sets.
- **Kernel:** four wrappers (two of each template) and four addresses, so an address is reused after a free. Lifetimes use two contexts, two logging connections and four user data, with symmetry on user data and context objects.

## 5. Fairness

Workers and the main thread are weakly fair in the search modules:

- the workers are OS threads that never block;
- the main thread sleeps 20 ms and polls again.

No strong fairness is assumed. The kernel and codec runs check safety only.

## 6. Not modelled

- **SHA-256** is replaced by the oracle, so the hard-coded genesis hashes are out of reach.
- **The interpreter (`VerifyScript`) and block processing** are Bitcoin Core code that is not in this repository. They are abstracted to a verdict.
- **The custom signet challenge, seeds, assumeutxo and chainTxData** hold data no property concerns.
- **Parts of the Qt units class:** `longName`, `description`, the HTML formatting and the list model.
- **Amounts beyond 2^31** need 64-bit parsing, which TLC's integers cannot hold.
- **Tests, declarations and the tidy plugin** have no state of their own.
- **Printing** (`HexRev`, the status and result lines) is output only.
