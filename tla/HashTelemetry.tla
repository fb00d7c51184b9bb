---------------------------- MODULE HashTelemetry ----------------------------
(***************************************************************************)
(* The hash-rate telemetry of MineGenesis (genesis_hylium.cpp): after each *)
(* hash that misses the target a worker does total_hashes.fetch_add,       *)
(* interval_hashes.fetch_add, and raises max_nonce with a                  *)
(* compare_exchange_weak loop; the main thread's status step takes         *)
(* interval_hashes.exchange(0) and loads max_nonce for the status line.   *)
(* Hashing is abstracted to a hit or a miss; a hit sets found and ends the *)
(* worker as in the search (GenesisSearch models that part in full).      *)
(*                                                                         *)
(* AdvanceFirst selects the order of the fixed-coinbase worker (and of    *)
(* every worker of mine_genesis.cpp): nonce += threads before the          *)
(* telemetry, so the CAS publishes the advanced nonce.  Without it, the    *)
(* extra-nonce worker publishes the nonce it hashed.                       *)
(***************************************************************************)
EXTENDS Integers, FiniteSets

CONSTANTS
    N,             \* threads
    NonceBits,     \* width of the nonce (32 in the code)
    AdvanceFirst,  \* TRUE: nonce += threads before the telemetry
    MaxHashes      \* bound on the hashes of a fixed-coinbase worker

NonceSpace == 2 ^ NonceBits
Tids == 0 .. N - 1

\* The extra-nonce worker's last loop index: max_i = (0xffffffff - tid) / threads.
MaxI(t) == (NonceSpace - 1 - t) \div N

VARIABLES
    total_hashes, interval_hashes, max_nonce, found,
    wpc, i, nonce, prev,      \* per worker
    mpc, shown_max,           \* main thread; shown_max is the mx it printed
    hashed, adds, reported    \* history: nonces counted, fetch_adds, deltas printed

vars == <<total_hashes, interval_hashes, max_nonce, found, wpc, i, nonce, prev,
          mpc, shown_max, hashed, adds, reported>>
mainVars == <<mpc, shown_max, reported>>

Init ==
    /\ total_hashes = 0 /\ interval_hashes = 0 /\ max_nonce = 0 /\ found = FALSE
    /\ wpc = [t \in Tids |-> "hash"] /\ i = [t \in Tids |-> 0]
    /\ nonce = [t \in Tids |-> t] /\ prev = [t \in Tids |-> 0]
    /\ mpc = "top" /\ shown_max = 0
    /\ hashed = {} /\ adds = 0 /\ reported = 0

\* Mutant: the loop runs one index past max_i.
InRangeOffByOne(t) == IF AdvanceFirst THEN i[t] < MaxHashes ELSE i[t] <= MaxI(t) + 1

\* The loop test: i <= max_i (extra-nonce path) and !found.
InRange(t) == IF AdvanceFirst THEN i[t] < MaxHashes ELSE i[t] <= MaxI(t)

\* The nonce worker t hashes in this iteration.
Current(t) == IF AdvanceFirst THEN nonce[t] ELSE t + i[t] * N

\* Leave the loop: the range is done or another worker set found.
Exit(t) ==
    /\ wpc[t] = "hash" /\ (~InRange(t) \/ found)
    /\ wpc' = [wpc EXCEPT ![t] = "done"]
    /\ UNCHANGED <<total_hashes, interval_hashes, max_nonce, found, i, nonce, prev, hashed, adds>>

\* The hash meets the target: found.exchange(true), then break.
Hit(t) ==
    /\ wpc[t] = "hash" /\ InRange(t) /\ ~found
    /\ found' = TRUE /\ wpc' = [wpc EXCEPT ![t] = "done"]
    /\ UNCHANGED <<total_hashes, interval_hashes, max_nonce, i, nonce, prev, hashed, adds>>

\* Mutant: the extra-nonce worker, too, advances before the telemetry.
MissAdvanced(t) ==
    /\ wpc[t] = "hash" /\ InRange(t) /\ ~found
    /\ hashed' = hashed \cup {Current(t)}
    /\ nonce' = [nonce EXCEPT ![t] = (Current(t) + N) % NonceSpace]
    /\ wpc' = [wpc EXCEPT ![t] = "total"]
    /\ UNCHANGED <<total_hashes, interval_hashes, max_nonce, found, i, prev, adds>>

\* The hash misses; the fixed-coinbase worker advances its nonce here.
Miss(t) ==
    /\ wpc[t] = "hash" /\ InRange(t) /\ ~found
    /\ hashed' = hashed \cup {Current(t)}
    /\ nonce' = [nonce EXCEPT ![t] = IF AdvanceFirst THEN (nonce[t] + N) % NonceSpace
                                     ELSE Current(t)]
    /\ wpc' = [wpc EXCEPT ![t] = "total"]
    /\ UNCHANGED <<total_hashes, interval_hashes, max_nonce, found, i, prev, adds>>

TotalAdd(t) ==
    /\ wpc[t] = "total" /\ total_hashes' = total_hashes + 1
    /\ wpc' = [wpc EXCEPT ![t] = "interval"]
    /\ UNCHANGED <<interval_hashes, max_nonce, found, i, nonce, prev, hashed, adds>>

IntervalAdd(t) ==
    /\ wpc[t] = "interval" /\ interval_hashes' = interval_hashes + 1 /\ adds' = adds + 1
    /\ wpc' = [wpc EXCEPT ![t] = "load"]
    /\ UNCHANGED <<total_hashes, max_nonce, found, i, nonce, prev, hashed>>

LoadMax(t) ==
    /\ wpc[t] = "load" /\ prev' = [prev EXCEPT ![t] = max_nonce]
    /\ wpc' = [wpc EXCEPT ![t] = "cas"]
    /\ UNCHANGED <<total_hashes, interval_hashes, max_nonce, found, i, nonce, hashed, adds>>

\* The end of an iteration: back to the loop test with ++i.
NextIter(t) == wpc' = [wpc EXCEPT ![t] = "hash"] /\ i' = [i EXCEPT ![t] = i[t] + 1]

\* Mutant: a single compare_exchange_weak, its failure not retried.
CasOnce(t) ==
    /\ wpc[t] = "cas" /\ NextIter(t)
    /\ \/ nonce[t] <= prev[t] /\ UNCHANGED max_nonce
       \/ nonce[t] > prev[t] /\ max_nonce = prev[t] /\ max_nonce' = nonce[t]
       \/ nonce[t] > prev[t] /\ UNCHANGED max_nonce
    /\ UNCHANGED <<total_hashes, interval_hashes, found, nonce, prev, hashed, adds>>

\* while (nonce > prev && !max_nonce.compare_exchange_weak(prev, nonce)) {}:
\* leave when nonce <= prev or the exchange succeeds; a failure, spurious
\* or not, reloads prev from max_nonce and tries again.
Cas(t) ==
    /\ wpc[t] = "cas"
    /\ \/ nonce[t] <= prev[t] /\ NextIter(t) /\ UNCHANGED <<max_nonce, prev>>
       \/ nonce[t] > prev[t] /\ max_nonce = prev[t] /\ max_nonce' = nonce[t]
          /\ NextIter(t) /\ UNCHANGED prev
       \/ nonce[t] > prev[t] /\ prev' = [prev EXCEPT ![t] = max_nonce]
          /\ UNCHANGED <<wpc, i, max_nonce>>
    /\ UNCHANGED <<total_hashes, interval_hashes, found, nonce, hashed, adds>>

Worker(t) ==
    /\ Exit(t) \/ Hit(t) \/ Miss(t) \/ TotalAdd(t) \/ IntervalAdd(t) \/ LoadMax(t) \/ Cas(t)
    /\ UNCHANGED mainVars

--------------------------------------------------------------------------
\* The status step when a second has passed: load total_hashes (printed,
\* no state), delta = interval_hashes.exchange(0), then mx = max_nonce.load().
StatusExchange ==
    /\ mpc = "top" /\ interval_hashes' = 0
    /\ reported' = reported + interval_hashes /\ mpc' = "max"
    /\ UNCHANGED <<total_hashes, max_nonce, found, wpc, i, nonce, prev, shown_max, hashed, adds>>

StatusMax ==
    /\ mpc = "max" /\ shown_max' = max_nonce /\ mpc' = "poll"
    /\ UNCHANGED <<total_hashes, interval_hashes, max_nonce, found, wpc, i, nonce, prev,
                   hashed, adds, reported>>

\* Mutant: delta = interval_hashes.load() and a later store(0).
StatusLoadThenStore ==
    \/ mpc = "top" /\ reported' = reported + interval_hashes /\ mpc' = "max"
       /\ UNCHANGED <<total_hashes, interval_hashes, max_nonce, found, wpc, i, nonce, prev,
                      shown_max, hashed, adds>>
    \/ mpc = "max" /\ shown_max' = max_nonce /\ interval_hashes' = 0 /\ mpc' = "poll"
       /\ UNCHANGED <<total_hashes, max_nonce, found, wpc, i, nonce, prev, hashed, adds, reported>>

Status == StatusExchange \/ StatusMax

\* Less than a second since the last status: straight to the poll.
SkipStatus ==
    /\ mpc = "top" /\ mpc' = "poll"
    /\ UNCHANGED <<total_hashes, interval_hashes, max_nonce, found, wpc, i, nonce, prev,
                   shown_max, hashed, adds, reported>>

\* if (found || active == 0) break; otherwise sleep and loop.
Poll ==
    /\ mpc = "poll"
    /\ mpc' = IF found \/ \A t \in Tids : wpc[t] = "done" THEN "join" ELSE "top"
    /\ UNCHANGED <<total_hashes, interval_hashes, max_nonce, found, wpc, i, nonce, prev,
                   shown_max, hashed, adds, reported>>

\* Join every worker; the round's telemetry ends here.
Join ==
    /\ mpc = "join" /\ \A t \in Tids : wpc[t] = "done" /\ mpc' = "joined"
    /\ UNCHANGED <<total_hashes, interval_hashes, max_nonce, found, wpc, i, nonce, prev,
                   shown_max, hashed, adds, reported>>

Terminated == mpc = "joined" /\ UNCHANGED vars

Next == (\E t \in Tids : Worker(t)) \/ Status \/ SkipStatus \/ Poll \/ Join \/ Terminated

Spec == Init /\ [][Next]_vars

=============================================================================
