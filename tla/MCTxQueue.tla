------------------------------ MODULE MCTxQueue ------------------------------
(* Two messages of the user and an answer of the service that goes first.    *)
EXTENDS TxQueue

MCPriority == [m \in Messages |-> IF m \in Replies THEN 2 ELSE 0]
=============================================================================
