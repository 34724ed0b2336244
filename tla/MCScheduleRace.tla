--------------------------- MODULE MCScheduleRace ---------------------------
(* Up to three user processes: one that exits or is killed, one that the  *)
(* call selects, one that a tick selects in between.                       *)
EXTENDS ScheduleRace

MCMaxProcesses == 4
MCTimeSlice == 2
MCPriorities == {0}
=============================================================================
