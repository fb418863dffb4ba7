----------------------------- MODULE MCGridFact -----------------------------
(* Instances of GridFact for TLC. *)
EXTENDS GridFact, TLC
CONSTANTS ercot, caiso
Swap == Permutations({ercot, caiso})
=============================================================================
