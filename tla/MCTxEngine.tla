------------------------------ MODULE MCTxEngine ------------------------------
(* Two service threads against the pump: two-frame messages, tuning tones,   *)
(* slots two or three units away.                                            *)
EXTENDS TxEngine

MCSlotWaits == {2, 3}
=============================================================================
