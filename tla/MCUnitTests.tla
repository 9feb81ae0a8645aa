------------------------------ MODULE MCUnitTests ------------------------------
(***************************************************************************)
(* The instance of UnitTests: nothing is sent on a bus, and one table      *)
(* image stands for the file that CFE_TBL_Load's stub pretends to load.    *)
(***************************************************************************)
EXTENDS UnitTests

MCImages == {[Int1 |-> 1, Int2 |-> 1]}
================================================================================
