------------------------- MODULE MCFuelExpectations -------------------------
(* An instance of FuelExpectations for TLC: months of three hours, solar with *)
(* two codes and coal with one.                                               *)
EXTENDS FuelExpectations, TLC
FuelTypes == "SUN" :> "solar" @@ "SNB" :> "solar" @@ "COL" :> "coal"
Seed      == {<<"coal", 1>>}
=============================================================================
