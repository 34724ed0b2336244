SPECIFICATION RaceSpec
CONSTANTS
  MaxProcesses <- MCMaxProcesses
  TimeSlice <- MCTimeSlice
  Priorities <- MCPriorities
INVARIANT CurrentRunsAfterCall
PROPERTIES RaceDeadStaysDead RaceReadyEventuallyRuns
