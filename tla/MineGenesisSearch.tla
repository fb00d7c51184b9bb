------------------------- MODULE MineGenesisSearch -------------------------
(***************************************************************************)
(* The nonce search of MineGenesis in src/src/tools/mine_genesis.cpp for   *)
(* one network profile.  Unlike genesis_hylium.cpp, every worker runs the  *)
(* fixed-coinbase loop `while (!found) { ...; nonce += threads; }` whatever *)
(* use_extra_nonce says: a worker leaves only when some worker has found a *)
(* solution, so active never drops to 0 without found.                    *)
(*                                                                         *)
(* The abstraction is that of GenesisSearch: SHA-256 is the oracle `meets` *)
(* (per extra nonce, the nonces whose header hash meets the target), a     *)
(* header hash is named by its preimage <<extra nonce, nonce>>, the nonce  *)
(* is a NonceBits-bit unsigned integer.  Telemetry is HashTelemetry's.     *)
(* The tail of the extra-nonce loop (lines 285-288, then ++extra_nonce)    *)
(* runs only when the workers are joined without found, a state no        *)
(* behaviour reaches (see JoinOnlyAfterFind), so it has no action here.   *)
(***************************************************************************)
EXTENDS Integers, FiniteSets

CONSTANTS
    NonceBits,      \* width of nNonce (uint32_t: 32)
    ExtraBits,      \* width of extra_nonce (uint32_t: 32)
    ThreadCounts,   \* values HYLIUM_GENESIS_THREADS may give `threads`
    NonceStarts,    \* values HYLIUM_GENESIS_START may give `nonce_start`
    MaxSolutions    \* most nonces per extra nonce whose hash meets the target

NonceSpace == 2 ^ NonceBits
Nonces     == 0 .. NonceSpace - 1
Extras     == 0 .. (2 ^ ExtraBits - 1)
Tids       == 0 .. (CHOOSE m \in ThreadCounts : \A c \in ThreadCounts : c <= m) - 1
ZeroHash   == <<-1, -1>>             \* found_hash{}: the all-zero array

ASSUME ThreadCounts \subseteq 1 .. 64 /\ NonceStarts \subseteq Nonces

VARIABLES
    meets,        \* hash oracle: meets[e] = nonces whose header hash meets the target
    threads,      \* worker count (fixed for the run)
    nonce_start,  \* first nonce (fixed for the run)
    extra_nonce,  \* the outer loop variable, extra_start
    found,        \* std::atomic<bool> found
    found_nonce,  \* std::atomic<uint32_t> found_nonce
    found_hash,   \* std::array<uint8_t,32> found_hash (a preimage or ZeroHash)
    active,       \* std::atomic<int> active
    wpc,          \* worker program counter
    wnonce,       \* worker nonce
    mpc           \* main thread program counter

vars == <<meets, threads, nonce_start, extra_nonce, found, found_nonce,
          found_hash, active, wpc, wnonce, mpc>>

shared == <<meets, threads, nonce_start, extra_nonce, mpc>>

-----------------------------------------------------------------------------
\* Mutant: nonce_start + tid computed without the uint32_t wrap.
StartNoWrap(t) ==
    /\ wpc[t] = "start"
    /\ wnonce' = [wnonce EXCEPT ![t] = nonce_start + t]
    /\ wpc' = [wpc EXCEPT ![t] = "top"]
    /\ UNCHANGED <<found, found_nonce, found_hash, active>>

\* uint32_t nonce = nonce_start + tid;
Start(t) ==
    /\ wpc[t] = "start"
    /\ wnonce' = [wnonce EXCEPT ![t] = (nonce_start + t) % NonceSpace]
    /\ wpc' = [wpc EXCEPT ![t] = "top"]
    /\ UNCHANGED <<found, found_nonce, found_hash, active>>

\* Mutant: the loop head never reads found; only a hit leaves the loop.
TopNoFoundCheck(t) ==
    /\ wpc[t] = "top"
    /\ wpc' = [wpc EXCEPT ![t] = "hash"]
    /\ UNCHANGED <<found, found_nonce, found_hash, active, wnonce>>

\* while (!found.load()); after the loop active.fetch_sub(1).
Top(t) ==
    /\ wpc[t] = "top"
    /\ \/ ~found /\ wpc' = [wpc EXCEPT ![t] = "hash"] /\ UNCHANGED active
       \/ found /\ wpc' = [wpc EXCEPT ![t] = "done"] /\ active' = active - 1
    /\ UNCHANGED <<found, found_nonce, found_hash, wnonce>>

\* Hash the header for wnonce[t].  A hit does found.exchange(true): the
\* winner goes on to store, a loser breaks and decrements active.  A miss
\* does nonce += threads (wrapping at 2^32) and loops.
Hash(t) ==
    /\ wpc[t] = "hash"
    /\ \/ /\ wnonce[t] \in meets[extra_nonce] /\ found' = TRUE
          /\ \/ ~found /\ wpc' = [wpc EXCEPT ![t] = "store"] /\ UNCHANGED active
             \/ found /\ wpc' = [wpc EXCEPT ![t] = "done"] /\ active' = active - 1
          /\ UNCHANGED wnonce
       \/ /\ wnonce[t] \notin meets[extra_nonce]
          /\ wnonce' = [wnonce EXCEPT ![t] = (@ + threads) % NonceSpace]
          /\ wpc' = [wpc EXCEPT ![t] = "top"]
          /\ UNCHANGED <<found, active>>
    /\ UNCHANGED <<found_nonce, found_hash>>

\* The winner's found_nonce.store(nonce).
StoreNonce(t) ==
    /\ wpc[t] = "store"
    /\ found_nonce' = wnonce[t]
    /\ wpc' = [wpc EXCEPT ![t] = "storehash"]
    /\ UNCHANGED <<found, found_hash, active, wnonce>>

\* The winner's found_hash = h, then break and active.fetch_sub(1).
StoreHash(t) ==
    /\ wpc[t] = "storehash"
    /\ found_hash' = <<extra_nonce, wnonce[t]>>
    /\ active' = active - 1
    /\ wpc' = [wpc EXCEPT ![t] = "done"]
    /\ UNCHANGED <<found, found_nonce, wnonce>>

Worker(t) ==
    /\ Start(t) \/ Top(t) \/ Hash(t) \/ StoreNonce(t) \/ StoreHash(t)
    /\ UNCHANGED shared

-----------------------------------------------------------------------------
workerVars == <<found, found_nonce, found_hash, active, wpc, wnonce>>

\* Mutant: the poll loop's break taken without its condition.
PollNoGuard ==
    /\ mpc = "poll"
    /\ mpc' = "join"
    /\ UNCHANGED <<meets, threads, nonce_start, extra_nonce>> /\ UNCHANGED workerVars

\* The polling loop leaves when found or when no worker is active.
Poll ==
    /\ mpc = "poll" /\ (found \/ active = 0)
    /\ mpc' = "join"
    /\ UNCHANGED <<meets, threads, nonce_start, extra_nonce>> /\ UNCHANGED workerVars

\* th.join() for every worker.
Joined == \A t \in Tids : wpc[t] = "done"

\* Mutant: report as soon as the poll loop exits, without joining.
ReportNoJoin ==
    /\ mpc = "join" /\ found
    /\ mpc' = "found"
    /\ UNCHANGED <<meets, threads, nonce_start, extra_nonce>> /\ UNCHANGED workerVars

\* found: print nNonce and hashGenesisBlock, and return.
Report ==
    /\ mpc = "join" /\ Joined /\ found
    /\ mpc' = "found"
    /\ UNCHANGED <<meets, threads, nonce_start, extra_nonce>> /\ UNCHANGED workerVars

\* MineGenesis has returned; main() goes on to the next network.
Terminated == mpc = "found" /\ UNCHANGED vars

Oracles == [Extras -> {S \in SUBSET Nonces : Cardinality(S) <= MaxSolutions}]

\* The first iteration: extra_nonce = extra_start (or spec.extra_nonce),
\* fresh atomics, the workers spawned.
Init ==
    /\ meets \in Oracles
    /\ threads \in ThreadCounts /\ nonce_start \in NonceStarts
    /\ extra_nonce \in Extras
    /\ found = FALSE /\ found_nonce = 0 /\ found_hash = ZeroHash
    /\ active = threads
    /\ wpc = [t \in Tids |-> IF t < threads THEN "start" ELSE "done"]
    /\ wnonce = [t \in Tids |-> 0]
    /\ mpc = "poll"

Main == Poll \/ Report

Next == (\E t \in Tids : Worker(t)) \/ Main \/ Terminated

\* CPU-bound worker threads and a main thread that sleeps 20 ms per poll.
Fairness == (\A t \in Tids : WF_vars(Worker(t))) /\ WF_vars(Main)

Spec == Init /\ [][Next]_vars /\ Fairness

=============================================================================
