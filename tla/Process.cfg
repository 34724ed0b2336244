SPECIFICATION FairSpec
CONSTANTS
  MaxProcesses <- MCMaxProcesses
  TimeSlice <- MCTimeSlice
  Priorities <- MCPriorities
INVARIANTS OnlyCurrentRuns SlotsFillUpwards
PROPERTIES NoOvertaking ReadyEventuallyRuns
