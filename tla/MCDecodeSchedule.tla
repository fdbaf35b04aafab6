--------------------------- MODULE MCDecodeSchedule ---------------------------
(* A ring of six samples: a submode of three cycles, of whose two samples    *)
(* one is needed, and one of two cycles, with two samples needed of three.   *)
(* The ring may begin anywhere, so each boundary is met in each phase.       *)
EXTENDS DecodeSchedule

MCPeriods == <<2, 3>>
MCNeeded == <<1, 2>>
MCChunks == {1}
=============================================================================
