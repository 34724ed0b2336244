SPECIFICATION DriversSpec
CONSTANTS
  TickModulus <- MCTickModulus
  LateTicks = 2
  Millis <- MCMillis
  Radix = 4
  Heads = 1
  Spt = 3
  Capacity = 6
  Machines <- MCMachines
  Lbas <- MCLbas
  Counts <- MCCounts
INVARIANTS DriversTypeOK MovesItsSectors
PROPERTIES WaitTakesItsTicks NoCommandWhileBusy DriverCallsReturn
