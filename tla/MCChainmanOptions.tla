-------------------------- MODULE MCChainmanOptions --------------------------
(***************************************************************************)
(* ChainmanOptions for TLC: the int arguments 0, 1 and 2 (2 is neither     *)
(* false nor the value == 1 accepts), two worker counts, and what every   *)
(* created ChainstateManager should satisfy.                               *)
(***************************************************************************)
EXTENDS ChainmanOptions

MCIntArgs == {0, 1, 2}

\* Every ChainstateManager hylk_chainstate_manager_create returns was
\* built with a supported combination: when its block tree database was
\* wiped at construction, its chainstate was wiped at load too.
ChainmanWipeSupported == \A m \in made : m.wipe_bt => m.wipe_cs

=============================================================================
