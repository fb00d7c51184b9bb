-------------------------- MODULE MCHashTelemetry --------------------------
(***************************************************************************)
(* Properties of the hash-rate telemetry, checked for the extra-nonce      *)
(* worker order (MCHashTelemetry.cfg) and the fixed-coinbase order         *)
(* (MCHashTelemetryFixed.cfg).                                             *)
(***************************************************************************)
EXTENDS HashTelemetry

\* The largest element of a finite set of naturals, 0 for the empty set.
MaxOf(S) == IF S = {} THEN 0 ELSE CHOOSE m \in S : \A x \in S : x <= m

TypeOK ==
    /\ total_hashes \in Nat /\ interval_hashes \in Nat /\ max_nonce \in 0 .. NonceSpace - 1
    /\ found \in BOOLEAN
    /\ wpc \in [Tids -> {"hash", "total", "interval", "load", "cas", "done"}]
    /\ nonce \in [Tids -> 0 .. NonceSpace - 1] /\ prev \in [Tids -> 0 .. NonceSpace - 1]
    /\ mpc \in {"top", "max", "poll", "join", "joined"}
    /\ hashed \subseteq 0 .. NonceSpace - 1

(***************************************************************************)
(* No hash is lost from the rate: the deltas the status lines printed plus *)
(* what interval_hashes still holds equal the interval_hashes.fetch_add    *)
(* calls of the workers, however the main thread's exchange(0) interleaves *)
(* with them.                                                              *)
(***************************************************************************)
RateAccountsEveryHash == reported + interval_hashes = adds

(***************************************************************************)
(* When no worker is between a counted hash and the end of its CAS loop,   *)
(* max_nonce is the largest nonce the workers counted: concurrent raises   *)
(* and spurious compare_exchange_weak failures never leave it lower.       *)
(***************************************************************************)
MaxNonceIsLargestHashed ==
    (\A t \in Tids : wpc[t] \in {"hash", "done"}) => max_nonce = MaxOf(hashed)

(***************************************************************************)
(* The max_nonce a status line prints is a nonce some worker has hashed    *)
(* (or the initial 0): the spec calls it the maximum nonce seen.          *)
(***************************************************************************)
StatusMaxWasHashed == shown_max \in hashed \cup {0}

=============================================================================
