------------------------------ MODULE MCTxLoop ------------------------------
(* Slots of three and six units, a short and a long period, a drift within   *)
(* a slot, one back, and one longer than the short period.                   *)
EXTENDS TxLoop
MCSlot == [m \in Modes |-> IF m = "turbo" THEN 3 ELSE 6]
MCDrifts == {0, 1, -2, 7}
=============================================================================
