------------------------- MODULE MCFactoryRecovery --------------------------
(* A lineage of up to MaxRuns runs, gated or not.                            *)
EXTENDS FactoryRecovery
=============================================================================
