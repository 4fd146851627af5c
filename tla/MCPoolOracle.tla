------------------------------ MODULE MCPoolOracle ------------------------------
(* Instances of the oracle for TLC. *)
EXTENDS PoolOracle

MCLower == -1
MCUpper == 2
MCTicks == {-3, 1, 2}
===============================================================================
