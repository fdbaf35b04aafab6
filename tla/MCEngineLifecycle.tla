------------------------- MODULE MCEngineLifecycle -------------------------
(* Values of the constants are in the configuration.                         *)
EXTENDS EngineLifecycle
=============================================================================
