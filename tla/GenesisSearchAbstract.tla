------------------------ MODULE GenesisSearchAbstract ------------------------
(***************************************************************************)
(* What the nonce search of one network promises (spec section 4.4): for   *)
(* the current extra nonce it either finds some nonce of the search range  *)
(* whose header hash meets the target, or, when the range has none, it    *)
(* moves to the next extra nonce (extra-nonce mode) or reports failure.   *)
(* Which solution is found is left open: the first worker to claim wins.  *)
(***************************************************************************)
EXTENDS Integers

CONSTANTS NonceBits, ExtraBits, UseExtraNonce

VARIABLES meets, nonce_start, extra, status, nonce

avars == <<meets, nonce_start, extra, status, nonce>>

Nonces == 0 .. (2 ^ NonceBits - 1)
Extras == 0 .. (2 ^ ExtraBits - 1)
Range  == IF UseExtraNonce THEN nonce_start .. (2 ^ NonceBits - 1) ELSE Nonces

Init ==
    /\ meets \in [Extras -> SUBSET Nonces]
    /\ nonce_start \in Nonces
    /\ extra \in Extras
    /\ status = "searching"
    /\ nonce = 0

Find ==
    /\ status = "searching"
    /\ \E n \in meets[extra] \cap Range :
          /\ status' = "found"
          /\ nonce' = n
    /\ UNCHANGED <<meets, nonce_start, extra>>

Exhaust ==
    /\ status = "searching"
    /\ meets[extra] \cap Range = {}
    /\ IF UseExtraNonce
       THEN /\ extra' = (extra + 1) % (2 ^ ExtraBits)
            /\ UNCHANGED status
       ELSE /\ status' = "failed"
            /\ UNCHANGED extra
    /\ UNCHANGED <<meets, nonce_start, nonce>>

Next == Find \/ Exhaust

Spec == Init /\ [][Next]_avars /\ WF_avars(Next)

=============================================================================
