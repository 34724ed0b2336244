----------------------------- MODULE MCDrivers ------------------------------
(* The timer and the disk driver, which share no state: a behaviour        *)
(* exercises one of them.  Waits of 0, 1, 2 and 4 ticks from every value   *)
(* of a counter that wraps after 16, with up to two ticks in a turn of the *)
(* loop; machines with a lone master, two drives on a channel, and a       *)
(* CD-ROM; tracks shorter than a register.                                 *)
EXTENDS Pit, Disk

MCTickModulus == 16
MCMillis == {500, 1194, 2387, 4773}
MCMachines == {[ata |-> {0}, atapi |-> {}], [ata |-> {1, 2}, atapi |-> {}], [ata |-> {0, 1}, atapi |-> {2}]}
MCLbas == {0, 5}
MCCounts == {1, 2}

VARIABLE part  \* the driver this behaviour exercises

mvars == <<pvars, dvars, part>>
Timer(A) == part = "timer" /\ A /\ UNCHANGED <<dvars, part>>
Ata(A) == part = "disk" /\ A /\ UNCHANGED <<pvars, part>>

DriversInit ==
  /\ PitInit /\ disk_init /\ part \in {"timer", "disk"}
  /\ part = "timer" => machine = CHOOSE m \in MCMachines : TRUE
  /\ part = "disk" => ticks = 0

\* The timer keeps interrupting, the loop of pit_wait_ms goes on unless
\* it is halted, and a call of the disk driver runs on.
DriversSpec ==
  /\ DriversInit /\ [][Timer(PitNext) \/ Ata(DiskNext)]_mvars
  /\ WF_mvars(Timer(TimerInterrupt)) /\ WF_mvars(Timer(LoopStep))
  /\ WF_mvars(Ata(DriverStep))

\* Counter, waits, drives and calls have their types.
DriversTypeOK == PitTypeOK /\ DiskTypeOK

\* The two loops that wait for hardware end: pit_wait_ms with its ticks, a
\* call of the disk driver with an answer of the drive or by its time-out.
DriverCallsReturn == WaitEnds /\ DiskCallReturns
=============================================================================
