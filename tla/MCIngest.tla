------------------------------ MODULE MCIngest ------------------------------
(* Instances of Ingest for TLC. *)
EXTENDS Ingest, TLC
CONSTANTS region, ercot, caiso, n1, n2

OnePair  == <<<<region, ercot>>>>
TwoBAs   == <<<<region, ercot>>, <<region, caiso>>>>
Months   == {0, 2, 4}
Short    == {0, 1, 3}   \* the first month has one hour
=============================================================================
