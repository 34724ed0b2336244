SPECIFICATION RaceSpec
CONSTANTS
  MaxProcesses <- MCMaxProcesses
  TimeSlice <- MCTimeSlice
  Priorities <- MCPriorities
INVARIANT SwitchedProcessIsReady
