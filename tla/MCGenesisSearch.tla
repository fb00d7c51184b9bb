------------------------- MODULE MCGenesisSearch -------------------------
(***************************************************************************)
(* GenesisSearch in both of its modes in one model: `mode` is              *)
(* use_extra_nonce, chosen with the profile and fixed for the run.  The    *)
(* extra-nonce search starts at ExtraStarts, the fixed-coinbase search at  *)
(* FixedStarts.                                                            *)
(***************************************************************************)
CONSTANTS NonceBits, ExtraBits, ThreadCounts, ExtraStarts, FixedStarts, MaxSolutions

VARIABLES meets, threads, nonce_start, extra_nonce, found, found_nonce,
          found_hash, active, wpc, wi, wnonce, mpc, hashed, mode

E == INSTANCE GenesisSearch WITH UseExtraNonce <- TRUE, NonceStarts <- ExtraStarts
F == INSTANCE GenesisSearch WITH UseExtraNonce <- FALSE, NonceStarts <- FixedStarts

mvars == <<meets, threads, nonce_start, extra_nonce, found, found_nonce,
           found_hash, active, wpc, wi, wnonce, mpc, hashed, mode>>

Init == \/ mode = TRUE /\ E!Init
        \/ mode = FALSE /\ F!Init

\* A step of the search in the run's mode.
InMode(extraStep, fixedStep) ==
    /\ \/ mode /\ extraStep
       \/ ~mode /\ fixedStep
    /\ UNCHANGED mode

Next == InMode(E!Next, F!Next)

\* The fairness of GenesisSearch, for the mode of the run.
Fairness ==
    /\ \A t \in E!Tids : WF_mvars(InMode(E!Worker(t), F!Worker(t)))
    /\ WF_mvars(InMode(E!Main, F!Main))

Spec == Init /\ [][Next]_mvars /\ Fairness

\* The type invariant of GenesisSearch in the run's mode.
TypeOK == IF mode THEN E!TypeOK ELSE F!TypeOK

\* ReportedGenesisValid of GenesisSearch in either mode: a printed genesis
\* is a solution of the printed coinbase in the searched range, not torn.
ReportedGenesisValid == IF mode THEN E!ReportedGenesisValid ELSE F!ReportedGenesisValid

\* SearchExhaustive of GenesisSearch with the extra nonce: an iteration
\* joined without a find hashed every nonce of [nonce_start, 2^32).
SearchExhaustive == mode => E!SearchExhaustive

\* NoNonceHashedTwice of GenesisSearch with the extra nonce.
NoNonceHashedTwice == mode => E!NoNonceHashedTwice

\* SolutionEventuallyReported of GenesisSearch in either mode: the wrapping
\* fixed-coinbase workers, and the extra-nonce loop, reach every solution.
SolutionEventuallyReported ==
    (IF mode THEN E!Solvable ELSE F!Solvable) => <>(mpc = "found")

\* The refinement mapping of GenesisSearch (its Abstract), for the
\* extra-nonce search.
AbsStatus == CASE mpc = "found"  -> "found"
              []   mpc = "failed" -> "failed"
              []   OTHER          -> "searching"

A == INSTANCE GenesisSearchAbstract
        WITH UseExtraNonce <- TRUE, extra <- extra_nonce, status <- AbsStatus,
             nonce <- IF mpc = "found" THEN found_nonce ELSE 0

(***************************************************************************)
(* The extra-nonce search implements GenesisSearchAbstract: A!Spec, each   *)
(* conjunct required in that mode (mode never changes).  The fairness      *)
(* conjunct is WF_avars(A!Next) with its ENABLED written out: while the    *)
(* abstract search is "searching" one of Find and Exhaust is enabled, and  *)
(* either changes the status or the extra nonce; so it reads: infinitely   *)
(* often not searching, or infinitely many abstract steps.                 *)
(***************************************************************************)
RefinesAbstract ==
    /\ mode => A!Init
    /\ [][mode => A!Next]_(A!avars)
    /\ mode => ([]<>(AbsStatus # "searching") \/ []<><<A!Next>>_(A!avars))

=============================================================================
