--------------------------- MODULE MCScanCrashes ---------------------------
(***************************************************************************)
(* Instance of ScanCrashes for the sqlite target.  Traces show neither,    *)
(* one or both of its bugs; the times include one before the start of the  *)
(* phase (the clock was set back), which is clamped to 0.                  *)
(***************************************************************************)
EXTENDS ScanCrashes

MCTraces == SUBSET { "BUG_S1", "BUG_S2" }
MCTimes  == { 8, 10, 12 }
=============================================================================
