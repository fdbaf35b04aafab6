---------------------------- MODULE MCMsgAssembly ----------------------------
(* Two stations that no buffer can mistake for one another; one of them is   *)
(* decoded at two frequencies.                                               *)
EXTENDS MsgAssembly, TLC

CONSTANTS s1, s2

MCFreqs == s1 :> {1000, 1004} @@ s2 :> {1015}
=============================================================================
