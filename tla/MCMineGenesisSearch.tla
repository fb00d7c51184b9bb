------------------------ MODULE MCMineGenesisSearch ------------------------
(***************************************************************************)
(* Properties of the nonce search of mine_genesis.cpp.                     *)
(***************************************************************************)
EXTENDS MineGenesisSearch

TypeOK ==
    /\ meets \in Oracles /\ threads \in ThreadCounts /\ nonce_start \in NonceStarts
    /\ extra_nonce \in Extras /\ found \in BOOLEAN /\ found_nonce \in Nonces
    /\ found_hash \in (Extras \X Nonces) \cup {ZeroHash}
    /\ active \in 0 .. threads
    /\ wpc \in [Tids -> {"start", "top", "hash", "store", "storehash", "done"}]
    /\ wnonce \in [Tids -> Nonces]
    /\ mpc \in {"poll", "join", "found"}

(***************************************************************************)
(* When "Found genesis" is printed, nNonce meets the target under the      *)
(* coinbase of the current extra nonce and hashGenesisBlock is the hash of *)
(* exactly that header: the exchange(true) admits one writer and th.join() *)
(* orders its stores before the read.                                      *)
(***************************************************************************)
ReportedGenesisValid ==
    mpc = "found" =>
        /\ found_nonce \in meets[extra_nonce]
        /\ found_hash = <<extra_nonce, found_nonce>>

(***************************************************************************)
(* The main thread reaches th.join() only after a find: the workers'       *)
(* `while (!found)` loops never run out of nonces, so the "No solution     *)
(* found" branch and ++extra_nonce of MineGenesis are never reached.       *)
(***************************************************************************)
JoinOnlyAfterFind == mpc = "join" => found

(***************************************************************************)
(* If the coinbase of the starting extra nonce has a solution anywhere in  *)
(* the nonce space, MineGenesis eventually reports a genesis block: the    *)
(* wrapping workers reach every residue class, and a find stops them all. *)
(***************************************************************************)
SolutionEventuallyReported == meets[extra_nonce] # {} => <>(mpc = "found")

(***************************************************************************)
(* The extra-nonce profile (main: use_extra_nonce = true) finds a genesis  *)
(* block whenever some extra nonce has a solution, as the loop             *)
(* `for (extra_nonce = extra_start;; ++extra_nonce)` and spec section 4.4  *)
(* (on exhaustion, advance the extra nonce) intend.                        *)
(***************************************************************************)
ExtraNonceSolutionEventuallyReported ==
    (\E e \in Extras : meets[e] # {}) => <>(mpc = "found")

=============================================================================
