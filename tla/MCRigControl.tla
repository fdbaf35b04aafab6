---------------------------- MODULE MCRigControl ----------------------------
(* Values of the constants are in the configurations.                        *)
EXTENDS RigControl
=============================================================================
