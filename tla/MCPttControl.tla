----------------------------- MODULE MCPttControl -----------------------------
(* The service with one radio; the bounds are given by each configuration.   *)
EXTENDS PttControl
=============================================================================
