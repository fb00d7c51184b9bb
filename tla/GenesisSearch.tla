--------------------------- MODULE GenesisSearch ---------------------------
(***************************************************************************)
(* The nonce search of MineGenesis in                                      *)
(* src/contrib/devtools/genesis_hylium.cpp for one network profile.        *)
(*                                                                         *)
(* For each extra nonce the main thread spawns `threads` workers that      *)
(* share the atomics found / found_nonce / active and the plain array      *)
(* found_hash; the main thread polls found and active, joins the workers   *)
(* and then reports, gives up, or moves on to the next extra nonce.        *)
(*                                                                         *)
(* Data abstraction.  SHA-256 is replaced by a hash oracle `meets`: the    *)
(* set of nonces whose header hash meets the target, per extra nonce (the  *)
(* extra nonce changes the coinbase, the merkle root and so every header   *)
(* hash).  A header hash is named by its preimage <<extra nonce, nonce>>.  *)
(* The nonce and extra nonce are NonceBits- and ExtraBits-bit unsigned     *)
(* integers (32 in the code).  Hash-rate telemetry (total_hashes,          *)
(* interval_hashes, max_nonce and the status line) never affects control   *)
(* and is left out here.  Spawning is folded into the step that starts an *)
(* iteration: a worker not yet running is a worker not yet scheduled.      *)
(***************************************************************************)
EXTENDS Integers, FiniteSets

CONSTANTS
    NonceBits,      \* width of nNonce (uint32_t: 32)
    ExtraBits,      \* width of extra_nonce (uint32_t: 32)
    ThreadCounts,   \* values HYLIUM_GENESIS_THREADS may give `threads`
    NonceStarts,    \* values HYLIUM_GENESIS_START may give `nonce_start`
    UseExtraNonce,  \* use_extra_nonce (profile flag or HYLIUM_GENESIS_EXTRANONCE)
    MaxSolutions    \* most nonces per extra nonce whose hash meets the target

NonceSpace == 2 ^ NonceBits
NonceMax   == NonceSpace - 1          \* 0xffffffff
Nonces     == 0 .. NonceMax
Extras     == 0 .. (2 ^ ExtraBits - 1)
Tids       == 0 .. (CHOOSE m \in ThreadCounts : \A c \in ThreadCounts : c <= m) - 1
ZeroHash   == <<-1, -1>>             \* found_hash{}: the all-zero array

ASSUME ThreadCounts \subseteq 1 .. 64 /\ NonceStarts \subseteq Nonces
ASSUME UseExtraNonce \in BOOLEAN

VARIABLES
    meets,        \* hash oracle: meets[e] = nonces whose header hash meets the target
    threads,      \* worker count (fixed for the run)
    nonce_start,  \* first nonce of the search (fixed for the run)
    extra_nonce,  \* the outer loop variable
    found,        \* std::atomic<bool> found
    found_nonce,  \* std::atomic<uint32_t> found_nonce
    found_hash,   \* std::array<uint8_t,32> found_hash (a preimage or ZeroHash)
    active,       \* std::atomic<int> active
    wpc,          \* worker program counter
    wi,           \* worker loop index i (extra-nonce path)
    wnonce,       \* worker nonce (fixed-coinbase path)
    mpc,          \* main thread program counter
    hashed        \* history: how often each nonce was hashed this iteration (saturating at 2)

vars == <<meets, threads, nonce_start, extra_nonce, found, found_nonce,
          found_hash, active, wpc, wi, wnonce, mpc, hashed>>

-----------------------------------------------------------------------------
(* The worker of thread tid.                                               *)

\* start64 and max_i of the extra-nonce path (64-bit arithmetic, no wrap).
Start64(t) == nonce_start + t
MaxIShort(t) == (NonceMax - Start64(t)) \div threads - 1    \* mutant: i < max_i
MaxILong(t)  == (NonceMax - Start64(t)) \div threads + 1    \* mutant: one round past max_i
MaxI(t)    == (NonceMax - Start64(t)) \div threads

\* The nonce the worker hashes next: static_cast<uint32_t>(start64 + i * threads).
CurNonce(t) == IF UseExtraNonce THEN (Start64(t) + wi[t] * threads) % NonceSpace
                                ELSE wnonce[t]

Bump(n) == [hashed EXCEPT ![n] = IF @ >= 2 THEN 2 ELSE @ + 1]

\* Mutant: every worker starts at nonce_start, forgetting + tid.
StartNoTid(t) ==
    /\ wpc[t] = "start"
    /\ wpc' = [wpc EXCEPT ![t] = "top"]
    /\ wi' = [wi EXCEPT ![t] = 0]
    /\ wnonce' = [wnonce EXCEPT ![t] = nonce_start % NonceSpace]
    /\ UNCHANGED <<meets, threads, nonce_start, extra_nonce, found, active,
                   found_nonce, found_hash, mpc, hashed>>

\* Entry of the worker lambda: the early return when start64 is past the
\* nonce space, or the initial nonce / index.
Start(t) ==
    /\ wpc[t] = "start"
    /\ IF UseExtraNonce /\ Start64(t) > NonceMax
       THEN /\ active' = active - 1
            /\ wpc' = [wpc EXCEPT ![t] = "done"]
            /\ UNCHANGED <<wi, wnonce>>
       ELSE /\ wpc' = [wpc EXCEPT ![t] = "top"]
            /\ IF UseExtraNonce
               THEN /\ wi' = [wi EXCEPT ![t] = 0]
                    /\ UNCHANGED wnonce
               ELSE /\ wnonce' = [wnonce EXCEPT ![t] = (nonce_start + t) % NonceSpace]
                    /\ UNCHANGED wi
            /\ UNCHANGED active
    /\ UNCHANGED <<meets, threads, nonce_start, extra_nonce, found,
                   found_nonce, found_hash, mpc, hashed>>

\* Loop head: `i <= max_i && !found.load()` or `!found.load()`; on exit the
\* worker runs active.fetch_sub(1).
Top(t) ==
    /\ wpc[t] = "top"
    /\ IF ~found /\ (UseExtraNonce => wi[t] <= MaxI(t))
       THEN /\ wpc' = [wpc EXCEPT ![t] = "hash"]
            /\ UNCHANGED active
       ELSE /\ wpc' = [wpc EXCEPT ![t] = "done"]
            /\ active' = active - 1
    /\ UNCHANGED <<meets, threads, nonce_start, extra_nonce, found,
                   found_nonce, found_hash, wi, wnonce, mpc, hashed>>

\* Mutant: a losing finder decrements active but does not break.
HashNoBreak(t) ==
    LET n == CurNonce(t) IN
    /\ wpc[t] = "hash"
    /\ hashed' = Bump(n)
    /\ IF n \in meets[extra_nonce]
       THEN /\ found' = TRUE
            /\ IF ~found
               THEN /\ wpc' = [wpc EXCEPT ![t] = "store"]
                    /\ UNCHANGED active
               ELSE /\ wpc' = [wpc EXCEPT ![t] = "top"]
                    /\ active' = active - 1
            /\ UNCHANGED <<wi, wnonce>>
       ELSE /\ wpc' = [wpc EXCEPT ![t] = "top"]
            /\ IF UseExtraNonce
               THEN /\ wi' = [wi EXCEPT ![t] = @ + 1]
                    /\ UNCHANGED wnonce
               ELSE /\ wnonce' = [wnonce EXCEPT ![t] = (@ + threads) % NonceSpace]
                    /\ UNCHANGED wi
            /\ UNCHANGED <<found, active>>
    /\ UNCHANGED <<meets, threads, nonce_start, extra_nonce, found_nonce,
                   found_hash, mpc>>

\* Loop body: hash the header for CurNonce(t).  A hash that meets the target
\* claims `found` with exchange(true): the winner goes on to store its
\* result, a loser breaks out and decrements active.  Otherwise advance
\* (++i, or nonce += threads wrapping at 2^32).
Hash(t) ==
    LET n == CurNonce(t) IN
    /\ wpc[t] = "hash"
    /\ hashed' = Bump(n)
    /\ IF n \in meets[extra_nonce]
       THEN /\ found' = TRUE
            /\ IF ~found
               THEN /\ wpc' = [wpc EXCEPT ![t] = "store"]
                    /\ UNCHANGED active
               ELSE /\ wpc' = [wpc EXCEPT ![t] = "done"]
                    /\ active' = active - 1
            /\ UNCHANGED <<wi, wnonce>>
       ELSE /\ wpc' = [wpc EXCEPT ![t] = "top"]
            /\ IF UseExtraNonce
               THEN /\ wi' = [wi EXCEPT ![t] = @ + 1]
                    /\ UNCHANGED wnonce
               ELSE /\ wnonce' = [wnonce EXCEPT ![t] = (@ + threads) % NonceSpace]
                    /\ UNCHANGED wi
            /\ UNCHANGED <<found, active>>
    /\ UNCHANGED <<meets, threads, nonce_start, extra_nonce, found_nonce,
                   found_hash, mpc>>

\* The winner's found_nonce.store(nonce).
StoreNonce(t) ==
    /\ wpc[t] = "store"
    /\ found_nonce' = CurNonce(t)
    /\ wpc' = [wpc EXCEPT ![t] = "storehash"]
    /\ UNCHANGED <<meets, threads, nonce_start, extra_nonce, found,
                   found_hash, active, wi, wnonce, mpc, hashed>>

\* The winner's found_hash = h, then break and active.fetch_sub(1).
StoreHash(t) ==
    /\ wpc[t] = "storehash"
    /\ found_hash' = <<extra_nonce, CurNonce(t)>>
    /\ active' = active - 1
    /\ wpc' = [wpc EXCEPT ![t] = "done"]
    /\ UNCHANGED <<meets, threads, nonce_start, extra_nonce, found,
                   found_nonce, wi, wnonce, mpc, hashed>>

-----------------------------------------------------------------------------
(* The main thread.                                                        *)

\* Per-iteration state as the loop body creates it, workers spawned: the
\* coinbase for extra nonce e is rebuilt and the n workers are started.
FreshWpc(n) == [t \in Tids |-> IF t < n THEN "start" ELSE "done"]
NoHashes    == [x \in Nonces |-> 0]
Zeros       == [t \in Tids |-> 0]

\* The polling loop leaves when found or when no worker is active.
Poll ==
    /\ mpc = "poll"
    /\ found \/ active = 0
    /\ mpc' = "join"
    /\ UNCHANGED <<meets, threads, nonce_start, extra_nonce, found,
                   found_nonce, found_hash, active, wpc, wi, wnonce, hashed>>

\* th.join() for every worker.
Joined == \A t \in Tids : wpc[t] = "done"

\* Mutant: report as soon as the poll loop exits, without joining.
ReportNoJoin ==
    /\ mpc = "join"
    /\ found
    /\ mpc' = "found"
    /\ UNCHANGED <<meets, threads, nonce_start, extra_nonce, found,
                   found_nonce, found_hash, active, wpc, wi, wnonce, hashed>>

\* found: print nNonce, hashGenesisBlock and return.
Report ==
    /\ mpc = "join" /\ Joined
    /\ found
    /\ mpc' = "found"
    /\ UNCHANGED <<meets, threads, nonce_start, extra_nonce, found,
                   found_nonce, found_hash, active, wpc, wi, wnonce, hashed>>

\* The next iteration of the extra-nonce loop under extra nonce e: a fresh
\* coinbase, fresh atomics (found, found_nonce, found_hash, active) and the
\* workers spawned again.
NextIteration(e) ==
    /\ extra_nonce' = e
    /\ found' = FALSE /\ found_nonce' = 0 /\ found_hash' = ZeroHash
    /\ active' = threads /\ wpc' = FreshWpc(threads)
    /\ wi' = Zeros /\ wnonce' = Zeros /\ hashed' = NoHashes
    /\ mpc' = "poll"
    /\ UNCHANGED <<meets, threads, nonce_start>>

\* Mutant: the loop runs the next iteration with the same extra nonce.
NotFoundSameExtra ==
    /\ mpc = "join" /\ Joined
    /\ ~found
    /\ IF UseExtraNonce
       THEN NextIteration(extra_nonce)
       ELSE /\ mpc' = "failed"
            /\ UNCHANGED <<meets, threads, nonce_start, extra_nonce, found,
                           found_nonce, found_hash, active, wpc, wi, wnonce, hashed>>

\* Not found: without extra nonce print "No solution found for fixed
\* coinbase" and return; with it ++extra_nonce (uint32_t, wraps) and loop.
NotFound ==
    /\ mpc = "join" /\ Joined
    /\ ~found
    /\ IF UseExtraNonce
       THEN NextIteration((extra_nonce + 1) % (2 ^ ExtraBits))
       ELSE /\ mpc' = "failed"
            /\ UNCHANGED <<meets, threads, nonce_start, extra_nonce, found,
                           found_nonce, found_hash, active, wpc, wi, wnonce, hashed>>

\* MineGenesis has returned.
Terminated ==
    /\ mpc \in {"found", "failed"}
    /\ UNCHANGED vars

-----------------------------------------------------------------------------
\* Hash oracles with at most MaxSolutions solutions per extra nonce.
Oracles == [Extras -> {S \in SUBSET Nonces : Cardinality(S) <= MaxSolutions}]

Init ==
    /\ meets \in Oracles
    /\ threads \in ThreadCounts
    /\ nonce_start \in NonceStarts
    /\ extra_nonce \in Extras          \* extra_start (HYLIUM_GENESIS_EXTRANONCE_START)
    /\ found = FALSE /\ found_nonce = 0 /\ found_hash = ZeroHash
    /\ active = threads /\ wpc = FreshWpc(threads)
    /\ wi = Zeros /\ wnonce = Zeros /\ hashed = NoHashes
    /\ mpc = "poll"

Worker(t) == Start(t) \/ Top(t) \/ Hash(t) \/ StoreNonce(t) \/ StoreHash(t)
Main      == Poll \/ Report \/ NotFound

Next == (\E t \in Tids : Worker(t)) \/ Main \/ Terminated

\* Workers are CPU-bound OS threads and the main thread sleeps 20 ms between
\* polls: each keeps being scheduled while it can run.
Fairness == (\A t \in Tids : WF_vars(Worker(t))) /\ WF_vars(Main)

Spec == Init /\ [][Next]_vars /\ Fairness

-----------------------------------------------------------------------------
\* The nonces one iteration covers: [nonce_start, 2^32) with an extra
\* nonce, the whole (wrapping) nonce space without.
SearchRange == IF UseExtraNonce THEN nonce_start .. NonceMax ELSE Nonces

TypeOK ==
    /\ meets \in Oracles
    /\ threads \in ThreadCounts /\ nonce_start \in NonceStarts
    /\ extra_nonce \in Extras
    /\ found \in BOOLEAN /\ found_nonce \in Nonces
    /\ found_hash \in (Extras \X Nonces) \cup {ZeroHash}
    /\ active \in 0 .. threads
    /\ wpc \in [Tids -> {"start", "top", "hash", "store", "storehash", "done"}]
    /\ wi \in [Tids -> 0 .. NonceSpace] /\ wnonce \in [Tids -> Nonces]
    /\ mpc \in {"poll", "join", "found", "failed"}
    /\ hashed \in [Nonces -> 0 .. 2]

\* The search as spec section 4.4 describes it (GenesisSearchAbstract).
Abstract == INSTANCE GenesisSearchAbstract
                WITH extra <- extra_nonce,
                     status <- CASE mpc = "found"  -> "found"
                               []   mpc = "failed" -> "failed"
                               []   OTHER          -> "searching",
                     nonce <- IF mpc = "found" THEN found_nonce ELSE 0

(***************************************************************************)
(* The threaded search implements the abstract search: each reported       *)
(* genesis is an abstract Find, each move to the next extra nonce an       *)
(* abstract Exhaust of a range without solutions, and the search keeps     *)
(* making abstract progress.                                               *)
(***************************************************************************)
RefinesAbstract == Abstract!Spec

(***************************************************************************)
(* When MineGenesis prints "Found genesis", the printed nNonce meets the   *)
(* target under the printed extra nonce, hashGenesisBlock is the hash of   *)
(* exactly that header, and the nonce lies in the searched range.  Two     *)
(* winners racing through exchange/store, or a read before th.join(),     *)
(* would print a torn or zero result.                                      *)
(***************************************************************************)
ReportedGenesisValid ==
    mpc = "found" =>
        /\ found_nonce \in meets[extra_nonce] \cap SearchRange
        /\ found_hash = <<extra_nonce, found_nonce>>

(***************************************************************************)
(* When the workers of an iteration have all been joined without a find,  *)
(* every nonce of the search range was hashed: the residue classes        *)
(* start64 + i*threads, i <= max_i, leave no gap, so moving to the next    *)
(* extra nonce never skips a solution of this one.                         *)
(***************************************************************************)
SearchExhaustive ==
    (mpc = "join" /\ Joined /\ ~found) => \A n \in SearchRange : hashed[n] >= 1

(***************************************************************************)
(* With an extra nonce, no header is hashed twice in one iteration: the    *)
(* workers' residue classes are disjoint and none wraps past 2^32.         *)
(***************************************************************************)
NoNonceHashedTwice ==
    UseExtraNonce => \A n \in Nonces : hashed[n] <= 1

(***************************************************************************)
(* If a coinbase the search tries (any extra nonce with the extra-nonce    *)
(* loop, the fixed one without) has a solution in the searched range,     *)
(* MineGenesis eventually reports a genesis block: workers stop on a find, *)
(* the main thread notices it, and the extra-nonce loop reaches every value.*)
(***************************************************************************)
Solvable ==
    LET tried == IF UseExtraNonce THEN Extras ELSE {extra_nonce}
    IN  \E e \in tried : meets[e] \cap SearchRange # {}

SolutionEventuallyReported == Solvable => <>(mpc = "found")

(***************************************************************************)
(* The search of one network always ends, in a find or in the "No solution *)
(* found for fixed coinbase" report (spec section 4.4: on exhaustion with  *)
(* the extra nonce disabled, report failure and terminate).                *)
(***************************************************************************)
EventuallyDecided == <>(mpc \in {"found", "failed"})

=============================================================================
