----------------------------- MODULE FluidField -----------------------------
(* The height of the field: what the scheduler takes as in_data of mpCCreate *)
(* (fluidCreate passes in_height) and the row functions as fieldHeight.      *)
EXTENDS Integers

CONSTANT Rows

ASSUME FieldAssumption == Rows \in Nat \ {0}

RowSet == 0 .. Rows - 1
=============================================================================
