------------------------------ MODULE MCCharts ------------------------------
(* An instance of Charts for TLC: a full month of two ordinary days, and the *)
(* first day of the next one, which is long.                                 *)
EXTENDS Charts, TLC
Clocks  == <<<<0, 1>>, <<0, 1>>, <<0, 0, 1>>>>
Months  == <<1, 1, 2>>
Lengths == <<2, 2>>
Planted == Glitches \union Nulls \union {Good, Silent}
Later   == {Good, [Good EXCEPT !["SUN"] = "none"], [Good EXCEPT !["COL"] = "null"]}

\* What the theorems about soundness suppose of the hours.
ASSUME InstanceHasNoTwins == NoTwins
=============================================================================
