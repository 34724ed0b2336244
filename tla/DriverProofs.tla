---------------------------- MODULE DriverProofs ----------------------------
(* Proofs about the timer, and about the disk driver with its drives:      *)
(* modules Pit and Disk.                                                   *)
EXTENDS MCDrivers, TLAPS

-----------------------------------------------------------------------------
(* The timer.                                                              *)

\* The unsigned difference of two values of the counter: what pit_wait_ms
\* computes is the distance from start to ticks along the circle.
LEMMA CircleDistance ==
  ASSUME NEW t \in 0 .. TickModulus - 1, NEW s \in 0 .. TickModulus - 1
  PROVE  /\ (t - s) % TickModulus = IF t >= s THEN t - s ELSE t - s + TickModulus
         /\ (t + 1) % TickModulus = IF t + 1 = TickModulus THEN 0 ELSE t + 1
  BY PitAssumption

\* The inductive invariant: while a wait is on, elapsed is the distance from
\* start to ticks on the circle of the counter, and at most the ticks that
\* came while the loop was awake exceed the wait.
PitIInv ==
  /\ PitTypeOK
  /\ waiting => /\ millis \in Millis /\ elapsed = (ticks - start) % TickModulus
                /\ elapsed <= WaitTicks(millis) + late
  /\ loop \in {"hlt", "halted"} => elapsed < WaitTicks(millis) + late

\* Boot satisfies the invariant.
LEMMA PitInitIInv == PitInit => PitIInv
<1>1. 0 \in 0 .. TickModulus - 1 /\ 0 \in 0 .. LateTicks
  BY PitAssumption
<1> QED BY <1>1, Zenon DEF PitInit, PitIInv, PitTypeOK, waiting

\* The number of ticks of a wait is a number below a turn of the counter.
LEMMA WaitTicksType ==
  ASSUME NEW ms \in Millis
  PROVE  WaitTicks(ms) \in Nat /\ WaitTicks(ms) + LateTicks < TickModulus
<1>1. PIT_FREQUENCY \in Nat \ {0} /\ MaxMillis \in Nat
  BY SMT DEF PIT_FREQUENCY, MaxMillis
<1>2. ms \in Nat
  BY <1>1, PitAssumption
<1>3. WaitTicks(ms) \in Nat
  BY <1>1, <1>2 DEF WaitTicks
<1> QED BY <1>3, PitAssumption

\* Interrupts, calls and the steps of the loop keep the invariant.
LEMMA PitNextIInv == PitIInv /\ [PitNext]_pvars => PitIInv'
<1> SUFFICES ASSUME PitIInv, [PitNext]_pvars PROVE PitIInv'
  OBVIOUS
<1>0. TickModulus \in Nat \ {0} /\ LateTicks \in Nat /\ PitTypeOK
  BY PitAssumption DEF PitIInv
<1>1. CASE TimerInterrupt
  <2>1. /\ ticks' = IF ticks + 1 = TickModulus THEN 0 ELSE ticks + 1
        /\ start' = start /\ millis' = millis
    BY <1>0, <1>1, CircleDistance DEF TimerInterrupt, pit_irq0_handler, PitTypeOK
  <2>2. ticks' \in 0 .. TickModulus - 1 /\ start' \in 0 .. TickModulus - 1
    BY <1>0, <2>1 DEF PitTypeOK
  <2>3. CASE loop = "out"
    <3>1. loop' = "out" /\ elapsed' = elapsed /\ late' = late
      BY <1>1, <2>3, Zenon DEF TimerInterrupt, pit_irq0_handler, Wake, waiting
    <3> QED BY <1>0, <2>1, <2>2, <3>1 DEF PitIInv, PitTypeOK, waiting
  <2>4. CASE loop # "out"
    <3>1. /\ elapsed' = elapsed + 1 /\ loop' # "out"
          /\ late' = IF loop = "halted" THEN late ELSE late + 1
          /\ loop' = IF loop = "halted" THEN "test" ELSE loop
          /\ loop # "halted" => late < LateTicks
      BY <1>0, <1>1, <2>4 DEF TimerInterrupt, pit_irq0_handler, Wake, waiting, PitTypeOK
    <3>2. /\ millis \in Millis /\ elapsed = (ticks - start) % TickModulus
          /\ elapsed <= WaitTicks(millis) + late
          /\ loop \in {"hlt", "halted"} => elapsed < WaitTicks(millis) + late
      BY <2>4 DEF PitIInv, waiting
    <3>3. WaitTicks(millis) \in Nat /\ WaitTicks(millis) + LateTicks < TickModulus
      BY <3>2, WaitTicksType
    <3>4. /\ elapsed \in Nat /\ late \in Nat /\ late' \in 0 .. LateTicks
          /\ loop' \in {"out", "test", "hlt", "halted"}
      BY <1>0, <3>1 DEF PitTypeOK
    <3>5. /\ elapsed' <= WaitTicks(millis) + late'
          /\ loop' \in {"hlt", "halted"} => elapsed' < WaitTicks(millis) + late'
      BY <3>1, <3>2, <3>3, <3>4
    <3>6. elapsed' \in 0 .. TickModulus - 1
      BY <1>0, <3>1, <3>3, <3>4, <3>5
    <3>7. elapsed = IF ticks >= start THEN ticks - start ELSE ticks - start + TickModulus
      BY <1>0, <3>2, CircleDistance DEF PitTypeOK
    <3>8. (ticks' - start') % TickModulus
            = IF ticks' >= start' THEN ticks' - start' ELSE ticks' - start' + TickModulus
      BY <1>0, <2>2, CircleDistance
    <3>9. elapsed' = (ticks' - start') % TickModulus
      BY <1>0, <2>1, <3>1, <3>6, <3>7, <3>8 DEF PitTypeOK
    <3>10. PitTypeOK'
      BY <1>0, <2>1, <2>2, <3>4, <3>6 DEF PitTypeOK
    <3> QED BY <2>1, <3>2, <3>5, <3>9, <3>10, Zenon DEF PitIInv
  <2> QED BY <2>3, <2>4
<1>2. ASSUME NEW ms \in Millis, pit_wait_ms(ms) PROVE PitIInv'
  <2>1. (ticks - ticks) % TickModulus = 0
    BY <1>0, CircleDistance DEF PitTypeOK
  <2> QED BY <1>0, <1>2, <2>1, WaitTicksType DEF pit_wait_ms, PitIInv, PitTypeOK, waiting
<1>3. CASE WaitReturns
  BY <1>0, <1>3, Zenon DEF WaitReturns, PitIInv, PitTypeOK, waiting
<1>4. CASE WaitGoesOn
  <2>1. /\ loop = "test" /\ loop' = "hlt" /\ late' = 0 /\ ticks' = ticks /\ start' = start
        /\ millis' = millis /\ elapsed' = elapsed /\ ~Expired
    BY <1>4, Zenon DEF WaitGoesOn
  <2>2. millis \in Millis /\ elapsed = (ticks - start) % TickModulus
    BY <2>1 DEF PitIInv, waiting
  <2>3. elapsed < WaitTicks(millis)
    BY <1>0, <2>1, <2>2, WaitTicksType DEF Expired, PitTypeOK
  <2> QED BY <1>0, <2>1, <2>2, <2>3, WaitTicksType DEF PitIInv, PitTypeOK
<1>5. CASE Halt
  BY <1>0, <1>5 DEF Halt, PitIInv, PitTypeOK, waiting
<1>6. CASE OtherInterrupt
  BY <1>0, <1>6 DEF OtherInterrupt, Wake, PitIInv, PitTypeOK, waiting
<1>7. CASE UNCHANGED pvars
  BY <1>0, <1>7 DEF pvars, PitIInv, PitTypeOK, waiting
<1> QED BY <1>1, <1>2, <1>3, <1>4, <1>5, <1>6, <1>7 DEF PitNext, LoopStep

\* A wait of pit_wait_ms is never too short, and too long only by ticks of
\* the last turn of its loop that did not end its hlt, for every width of
\* the counter, wherever it wraps.
THEOREM WaitsTakeTheirTicks == PitSpec => WaitTakesItsTicks
<1>1. ASSUME PitIInv, WaitReturns
      PROVE  elapsed \in WaitTicks(millis) .. WaitTicks(millis) + late
  <2>1. /\ elapsed = (ticks - start) % TickModulus /\ elapsed <= WaitTicks(millis) + late
        /\ (ticks - start) % TickModulus >= WaitTicks(millis) /\ PitTypeOK /\ millis \in Millis
    BY <1>1 DEF PitIInv, WaitReturns, Expired, waiting
  <2>2. WaitTicks(millis) \in Nat /\ elapsed \in Nat /\ late \in Nat
    BY <2>1, PitAssumption, WaitTicksType DEF PitTypeOK
  <2> QED BY <2>1, <2>2
<1>2. PitIInv /\ [PitNext]_pvars
        => [WaitReturns => elapsed \in WaitTicks(millis) .. WaitTicks(millis) + late]_pvars
  BY <1>1
<1> QED BY <1>2, PitInitIInv, PitNextIInv, PTL DEF PitSpec, WaitTakesItsTicks

-----------------------------------------------------------------------------
(* The disk driver and its drives.                                         *)

Units == [st : {"idle", "busy", "drq"}, op : {"none", "read", "write", "identify"},
          sec : Int, left : 0 .. MaxCount]
Calls == [at : {"identify", "probe", "idle", "ready", "data"}, op : {"none", "read", "write"},
          drive : Drives, lba : Lbas \cup {0}, n : 0 .. MaxCount, buf : Seq(Int),
          ok : BOOLEAN, clean : BOOLEAN]

DiskTypes ==
  /\ machine \in [ata : SUBSET Drives, atapi : SUBSET Drives]
  /\ unit \in [Drives -> Units]
  /\ media \in [Drives -> [0 .. Capacity - 1 -> Int]]
  /\ sel \in [Buses -> Drives] /\ \A c \in Buses : Channel(sel[c]) = c
  /\ present \subseteq machine.ata
  /\ call \in Calls

\* A drive at work is attached, and one that offers data has been given a
\* command it can carry out.
UnitAtWork(d) ==
  /\ unit[d].st # "idle" => d \in Attached
  /\ unit[d].st = "drq" => /\ unit[d].left # 0
                           /\ IF unit[d].op = "identify" THEN d \notin machine.atapi
                              ELSE unit[d].sec \in 0 .. Capacity - 1
UnitsAtWork == \A d \in Drives : UnitAtWork(d)

\* While disk_init probes, the drives found so far are idle and behind it,
\* and the others have been sent at most IDENTIFY.
Probing ==
  call.at \in {"identify", "probe"} =>
    /\ \A d \in present : d < call.drive /\ unit[d].st = "idle"
    /\ \A d \in Drives : unit[d].st # "idle" => unit[d].op = "identify" /\ unit[d].left = 1

\* A drive found by disk_init stays selected while it is busy.
BusySelected == \A d \in present : unit[d].st = "busy" => sel[Channel(d)] = d

\* What is known of the call in progress.
CallKnown ==
  /\ call.at \in {"probe", "data"} => sel[Channel(call.drive)] = call.drive
  /\ call.at \in {"ready", "data"} => call.drive \in present /\ call.op # "none"
  /\ call.at = "data" => Len(call.buf) < call.n
  /\ call.at \in {"identify", "probe"} => call.buf = <<>>
  /\ call.at = "ready" => call.buf = <<>> /\ call.n # 0
  /\ Len(call.buf) <= call.n

DiskIInv == DiskTypes /\ UnitsAtWork /\ Probing /\ BusySelected /\ CallKnown

\* The channels of the four drives.
LEMMA Channels4 ==
  ASSUME NEW d \in Drives
  PROVE  Channel(d) \in Buses
  BY DEF Drives, Channel, Buses

\* No call is in progress, and an idle drive has no command.
LEMMA IdleTypes == NoCall \in Calls /\ Idle \in Units
  BY DEF NoCall, Calls, Idle, Units, Drives, MaxCount

\* Boot leaves every drive idle.
LEMMA DiskInitIInv == disk_init => DiskIInv
<1> SUFFICES ASSUME disk_init PROVE DiskIInv
  OBVIOUS
<1>1. machine \in [ata : SUBSET Drives, atapi : SUBSET Drives]
  BY DiskAssumption DEF disk_init
<1>2. unit \in [Drives -> Units]
  BY IdleTypes DEF disk_init
<1>3. media \in [Drives -> [0 .. Capacity - 1 -> Int]]
  BY DiskAssumption DEF disk_init, Original, Drives
<1>4. sel \in [Buses -> Drives] /\ \A c \in Buses : Channel(sel[c]) = c
  BY DEF disk_init, Buses, Drives, Channel
<1>5. call = [at |-> "identify", op |-> "none", drive |-> 0, lba |-> 0, n |-> 0,
                buf |-> <<>>, ok |-> FALSE, clean |-> TRUE]
  BY Zenon DEF disk_init, NoCall
<1>10. call \in Calls
  BY <1>5 DEF Calls, Drives, MaxCount
<1>11. call.at = "identify" /\ call.buf = <<>> /\ call.n = 0
  BY <1>5, Zenon
<1>6. present = {} /\ \A d \in Drives : unit[d].st = "idle"
  BY DEF disk_init, Idle
<1>7. DiskTypes
  BY <1>1, <1>2, <1>3, <1>4, <1>6, <1>10 DEF DiskTypes
<1>8. UnitsAtWork /\ Probing /\ BusySelected
  BY <1>6 DEF UnitsAtWork, UnitAtWork, Probing, BusySelected
<1>9. CallKnown
  BY <1>11 DEF CallKnown
<1> QED BY <1>7, <1>8, <1>9 DEF DiskIInv

\* disk_init goes on to the next drive, or ends.
LEMMA NextProbeIs ==
  ASSUME NEW d \in Drives, call \in Calls, call.buf = <<>>
  PROVE  /\ NextProbe(d) \in Calls
         /\ NextProbe(d).buf = <<>>
         /\ NextProbe(d).at \in {"idle", "identify"}
         /\ NextProbe(d).at = "identify" => NextProbe(d).drive = d + 1
<1>1. CASE d = 3
  <2>1. NextProbe(d) = NoCall
    BY <1>1 DEF NextProbe
  <2>2. NoCall.buf = <<>> /\ NoCall.at = "idle"
    BY DEF NoCall
  <2> QED BY <2>1, <2>2, IdleTypes
<1>2. CASE d # 3
  <2>1. NextProbe(d) = [call EXCEPT !.at = "identify", !.drive = d + 1]
    BY <1>2 DEF NextProbe
  <2>2. d + 1 \in Drives
    BY <1>2 DEF Drives
  <2> QED BY <2>1, <2>2, Zenon DEF Calls
<1> QED BY <1>1, <1>2

\* A drive goes on with its command.
LEMMA UnitStepIInv == ASSUME DiskIInv, NEW d \in Drives, UnitStep(d) PROVE DiskIInv'
<1> USE DEF DiskIInv
<1> DEFINE u == unit[d]
           v == unit'[d]
<1>1. u \in Units /\ u.st = "busy" /\ d \in Attached
  BY DEF UnitStep, DiskTypes, UnitsAtWork, UnitAtWork
<1>2. /\ v = Idle \/ (v = [u EXCEPT !.st = "drq"] /\ u.left # 0
                      /\ IF u.op = "identify" THEN d \notin machine.atapi
                         ELSE u.sec \in 0 .. Capacity - 1)
      /\ unit' = [unit EXCEPT ![d] = v]
  BY DEF UnitStep, DiskTypes
<1>3. /\ v \in Units /\ v.st # "busy"
      /\ v.st # "idle" => v.op = u.op /\ v.left = u.left /\ v.sec = u.sec
      /\ v.st # "idle" => /\ u.left # 0
                          /\ IF u.op = "identify" THEN d \notin machine.atapi
                             ELSE u.sec \in 0 .. Capacity - 1
  BY <1>1, <1>2, IdleTypes DEF Units, Idle
<1>4. UNCHANGED <<machine, media, sel, present, call>>
  BY DEF UnitStep
<1>5. unit' \in [Drives -> Units] /\ \A e \in Drives \ {d} : unit'[e] = unit[e]
  BY <1>2, <1>3 DEF DiskTypes
<1> HIDE DEF u, v
<1>6. DiskTypes'
  BY <1>4, <1>5 DEF DiskTypes
<1>7. UnitsAtWork'
  <2> SUFFICES ASSUME NEW e \in Drives
               PROVE  UnitAtWork(e)'
    BY Zenon DEF UnitsAtWork
  <2>1. CASE e = d
    BY <1>1, <1>3, <1>4, <2>1, Zenon DEF v, UnitAtWork, Attached
  <2>2. CASE e # d
    BY <1>4, <1>5, <2>2, Zenon DEF UnitsAtWork, UnitAtWork, Attached
  <2> QED BY <2>1, <2>2
<1>8. Probing'
  <2> SUFFICES ASSUME call.at \in {"identify", "probe"}
               PROVE  /\ \A e \in present : e < call.drive /\ unit'[e].st = "idle"
                      /\ \A e \in Drives : unit'[e].st # "idle" => unit'[e].op = "identify" /\ unit'[e].left = 1
    BY <1>4, Zenon DEF Probing
  <2>1. d \notin present /\ u.op = "identify" /\ u.left = 1
    BY <1>1, Zenon DEF Probing, u
  <2>2. \A e \in present : e \in Drives \ {d}
    BY <2>1 DEF DiskTypes
  <2>3. \A e \in present : e < call.drive /\ unit'[e].st = "idle"
    BY <1>5, <2>2, Zenon DEF Probing
  <2>4. ASSUME NEW e \in Drives, unit'[e].st # "idle"
        PROVE  unit'[e].op = "identify" /\ unit'[e].left = 1
    <3>1. CASE e = d
      BY <1>3, <2>1, <2>4, <3>1, Zenon DEF v
    <3>2. CASE e # d
      BY <1>5, <2>4, <3>2, Zenon DEF Probing
    <3> QED BY <3>1, <3>2
  <2> QED BY <2>3, <2>4, Zenon
<1>9. BusySelected'
  BY <1>3, <1>4, <1>5 DEF BusySelected, v, DiskTypes
<1>10. CallKnown'
  BY <1>4 DEF CallKnown
<1> QED BY <1>6, <1>7, <1>8, <1>9, <1>10

\* A caller asks for sectors.
LEMMA SectorsIInv ==
  ASSUME DiskIInv, NEW op \in {"read", "write"}, NEW d \in Drives, NEW lba \in Lbas,
         NEW n \in Counts, disk_sectors(op, d, lba, n)
  PROVE  DiskIInv'
<1> USE DEF DiskIInv
<1>1. UNCHANGED <<machine, unit, media, sel, present>>
  BY DEF disk_sectors
<1>2. CASE d \in present
  <2>1. call' = [at |-> "ready", op |-> op, drive |-> d, lba |-> lba, n |-> n,
                 buf |-> <<>>, ok |-> FALSE, clean |-> TRUE]
    BY <1>2, Zenon DEF disk_sectors, NoCall
  <2>2. n \in 1 .. MaxCount
    BY DiskAssumption
  <2>3. call' \in Calls
    BY <2>1, <2>2 DEF Calls
  <2>4. call'.at = "ready" /\ call'.op = op /\ call'.drive = d /\ call'.n = n /\ call'.buf = <<>>
    BY <2>1
  <2>6. call'.n # 0 /\ Len(call'.buf) <= call'.n
    BY <2>2, <2>4 DEF MaxCount
  <2>7. op # "none"
    OBVIOUS
  <2>5. CallKnown'
    BY <1>1, <1>2, <2>4, <2>6, <2>7, Zenon DEF CallKnown
  <2> QED BY <1>1, <2>3, <2>4, <2>5 DEF DiskTypes, UnitsAtWork, UnitAtWork, Attached, Probing, BusySelected
<1>3. CASE d \notin present
  <2>1. call' = NoCall
    BY <1>3 DEF disk_sectors
  <2>2. NoCall.at = "idle" /\ NoCall.buf = <<>> /\ NoCall.n = 0
    BY DEF NoCall
  <2>3. CallKnown'
    BY <2>1, <2>2 DEF CallKnown
  <2> QED BY <1>1, <2>1, <2>2, <2>3, IdleTypes DEF DiskTypes, UnitsAtWork, UnitAtWork, Attached, Probing, BusySelected
<1> QED BY <1>2, <1>3

\* A wait that gives up in disk_read_sectors or disk_write_sectors.
LEMMA TimeoutIInv == ASSUME DiskIInv, ReadyTimeout \/ DataTimeout PROVE DiskIInv'
<1> USE DEF DiskIInv
<1>1. UNCHANGED <<machine, unit, media, sel, present>> /\ call' = NoCall
  BY DEF ReadyTimeout, DataTimeout
<1>2. NoCall.at = "idle" /\ NoCall.buf = <<>> /\ NoCall.n = 0
  BY DEF NoCall
<1>3. CallKnown'
  BY <1>1, <1>2 DEF CallKnown
<1> QED BY <1>1, <1>2, <1>3, IdleTypes DEF DiskTypes, UnitsAtWork, UnitAtWork, Attached, Probing, BusySelected

\* A wait that gives up in disk_identify.
LEMMA ProbeTimeoutIInv == ASSUME DiskIInv, ProbeTimeout PROVE DiskIInv'
<1> USE DEF DiskIInv
<1> DEFINE d == call.drive
<1>1. UNCHANGED <<machine, unit, media, sel, present>> /\ call' = NextProbe(d) /\ call.at = "probe"
  BY DEF ProbeTimeout
<1>2. d \in Drives /\ call.buf = <<>>
  BY <1>1 DEF DiskTypes, Calls, CallKnown
<1>3. /\ call' \in Calls /\ call'.buf = <<>> /\ call'.at \in {"idle", "identify"}
      /\ call'.at = "identify" => call'.drive = d + 1
  BY <1>1, <1>2, NextProbeIs DEF DiskTypes
<1>4. CallKnown'
  BY <1>3 DEF CallKnown, Calls
<1>5. Probing'
  <2>1. \A e \in present : e \in Drives
    BY DEF DiskTypes
  <2>2. \A e \in present : e < d + 1
    BY <1>1, <1>2, <2>1 DEF Probing, Drives
  <2> QED BY <1>1, <1>3, <2>2 DEF Probing
<1> QED BY <1>1, <1>3, <1>4, <1>5 DEF DiskTypes, UnitsAtWork, UnitAtWork, Attached, BusySelected

\* A step that changes one drive leaves the others at work as they are.
LEMMA OtherUnits ==
  ASSUME UnitsAtWork, NEW d \in Drives, machine' = machine,
         \A e \in Drives \ {d} : unit'[e] = unit[e], UnitAtWork(d)'
  PROVE  UnitsAtWork'
<1> SUFFICES ASSUME NEW e \in Drives PROVE UnitAtWork(e)'
  BY Zenon DEF UnitsAtWork
<1>1. CASE e # d
  BY <1>1, Zenon DEF UnitsAtWork, UnitAtWork, Attached
<1> QED BY <1>1

\* A command sent to drive d begins, or finds nobody or a drive at work.
LEMMA Accepted ==
  ASSUME unit \in [Drives -> Units], NEW d \in Drives, NEW u \in Units, Accept(d, u)
  PROVE  /\ unit' \in [Drives -> Units]
         /\ \A e \in Drives \ {d} : unit'[e] = unit[e]
         /\ (d \in Attached /\ unit'[d] = u) \/ unit'[d] = unit[d]
         /\ d \in Attached /\ unit[d].st = "idle" => unit'[d] = u
<1>1. CASE unit' = unit /\ ~(d \in Attached /\ unit[d].st = "idle")
  BY <1>1
<1>2. CASE unit' = [unit EXCEPT ![d] = u] /\ d \in Attached
  BY <1>2
<1> QED BY <1>1, <1>2 DEF Accept

\* Selecting a drive on its channel.
LEMMA Selected ==
  ASSUME sel \in [Buses -> Drives], \A c \in Buses : Channel(sel[c]) = c,
         NEW d \in Drives, sel' = [sel EXCEPT ![Channel(d)] = d]
  PROVE  /\ sel' \in [Buses -> Drives] /\ \A c \in Buses : Channel(sel'[c]) = c
         /\ sel'[Channel(d)] = d
         /\ \A e \in Drives : Channel(e) # Channel(d) => sel'[Channel(e)] = sel[Channel(e)]
<1>1. Channel(d) \in Buses /\ \A e \in Drives : Channel(e) \in Buses
  BY Channels4
<1>2. /\ sel' \in [Buses -> Drives] /\ sel'[Channel(d)] = d
      /\ \A c \in Buses : c # Channel(d) => sel'[c] = sel[c]
  BY <1>1
<1> QED BY <1>1, <1>2, Zenon

\* disk_identify selects a drive and sends IDENTIFY.
LEMMA IdentifyIInv == ASSUME DiskIInv, disk_identify PROVE DiskIInv'
<1> USE DEF DiskIInv
<1>0. PICK d \in Drives : d = call.drive
  BY DEF DiskTypes, Calls
<1> DEFINE w == [st |-> "busy", op |-> "identify", sec |-> 0, left |-> 1]
<1>1. /\ UNCHANGED <<machine, media, present>> /\ call.at = "identify"
      /\ sel' = [sel EXCEPT ![Channel(d)] = d]
      /\ \/ call' = NextProbe(d) /\ unit' = unit
         \/ call' = [call EXCEPT !.at = "probe"] /\ Accept(d, w)
  BY <1>0 DEF disk_identify
<1>2. d \in Drives /\ call.buf = <<>> /\ call \in Calls /\ w \in Units
  BY <1>0, <1>1 DEF DiskTypes, Calls, CallKnown, Units, MaxCount
<1>3. /\ sel' \in [Buses -> Drives] /\ \A c \in Buses : Channel(sel'[c]) = c
      /\ sel'[Channel(d)] = d
  BY <1>1, <1>2, Selected, Zenon DEF DiskTypes
<1>4. /\ unit' \in [Drives -> Units]
      /\ \A e \in Drives \ {d} : unit'[e] = unit[e]
      /\ (d \in Attached /\ unit'[d] = w) \/ unit'[d] = unit[d]
  <2>1. CASE unit' = unit
    BY <2>1 DEF DiskTypes
  <2>2. CASE Accept(d, w)
    <3> HIDE DEF w
    <3> QED BY <1>2, <2>2, Accepted DEF DiskTypes
  <2> QED BY <1>1, <2>1, <2>2
<1>5. w.st = "busy" /\ w.op = "identify" /\ w.left = 1
  OBVIOUS
<1>6. /\ call' \in Calls /\ call'.buf = <<>>
      /\ \/ call'.at \in {"idle", "identify"} /\ (call'.at = "identify" => call'.drive = d + 1)
         \/ call'.at = "probe" /\ call'.drive = d
  <2>1. CASE call' = NextProbe(d)
    BY <1>2, <2>1, NextProbeIs
  <2>2. CASE call' = [call EXCEPT !.at = "probe"]
    BY <1>0, <1>2, <2>2 DEF Calls
  <2> QED BY <1>1, <2>1, <2>2
<1>7. \A e \in present : e \in Drives \ {d} /\ e < d /\ unit'[e].st = "idle"
  <2>1. \A e \in present : e \in Drives /\ e < d /\ unit[e].st = "idle"
    BY <1>0, <1>1 DEF Probing, DiskTypes
  <2>2. \A e \in present : e # d
    BY <1>2, <2>1 DEF Drives
  <2> QED BY <1>4, <2>1, <2>2
<1> HIDE DEF w
<1>8. DiskTypes'
  BY <1>1, <1>3, <1>4, <1>6 DEF DiskTypes
<1>9. UnitsAtWork'
  <2>1. UnitAtWork(d)
    BY <1>2 DEF UnitsAtWork
  <2>2. UnitAtWork(d)'
    BY <1>1, <1>4, <1>5, <2>1 DEF UnitAtWork, Attached
  <2> QED BY <1>1, <1>2, <1>4, <2>2, OtherUnits
<1>10. Probing'
  <2>1. ASSUME NEW e \in Drives, unit'[e].st # "idle"
        PROVE  unit'[e].op = "identify" /\ unit'[e].left = 1
    <3>1. unit[e].st # "idle" => unit[e].op = "identify" /\ unit[e].left = 1
      BY <1>1 DEF Probing
    <3>2. unit'[e] = unit[e] \/ unit'[e] = w
      BY <1>4
    <3> QED BY <1>5, <2>1, <3>1, <3>2
  <2>2. ASSUME NEW e \in present, call'.at \in {"identify", "probe"} PROVE e < call'.drive
    BY <1>2, <1>6, <1>7, <2>2 DEF Drives
  <2> QED BY <1>1, <1>7, <2>1, <2>2, Zenon DEF Probing
<1>11. BusySelected'
  BY <1>1, <1>7 DEF BusySelected
<1>12. CallKnown'
  BY <1>3, <1>6 DEF CallKnown, Calls
<1> QED BY <1>8, <1>9, <1>10, <1>11, <1>12

\* The data of a drive selected on its channel.
LEMMA DataOf ==
  ASSUME NEW d \in Drives, sel[Channel(d)] = d, DRQ(Channel(d))
  PROVE  d \in Attached /\ unit[d].st = "drq"
  BY DEF DRQ, DRDY

\* ata_process_identify.
LEMMA IdentifiedIInv == ASSUME DiskIInv, Identified PROVE DiskIInv'
<1> USE DEF DiskIInv
<1>0. PICK d \in Drives : d = call.drive
  BY DEF DiskTypes, Calls
<1>1. /\ UNCHANGED <<machine, media, sel>> /\ call.at = "probe" /\ DRQ(Channel(d))
      /\ unit' = [unit EXCEPT ![d] = Moved(unit[d])]
      /\ present' = present \cup {d} /\ call' = NextProbe(d)
  BY <1>0 DEF Identified
<1>2. d \in Drives /\ call.buf = <<>> /\ call \in Calls /\ sel[Channel(d)] = d
  BY <1>0, <1>1 DEF DiskTypes, Calls, CallKnown
<1>3. d \in Attached /\ unit[d].st = "drq"
  BY <1>1, <1>2, DataOf
<1>4. unit[d].op = "identify" /\ unit[d].left = 1 /\ UnitAtWork(d)
  BY <1>1, <1>2, <1>3 DEF Probing, UnitsAtWork
<1>5. d \in machine.ata
  BY <1>3, <1>4 DEF UnitAtWork, Attached
<1>6. unit' = [unit EXCEPT ![d] = Idle]
  BY <1>1, <1>4 DEF Moved
<1>7. /\ unit' \in [Drives -> Units] /\ unit'[d] = Idle
      /\ \A e \in Drives \ {d} : unit'[e] = unit[e]
  BY <1>2, <1>6, IdleTypes DEF DiskTypes
<1>8. /\ call' \in Calls /\ call'.buf = <<>> /\ call'.at \in {"idle", "identify"}
      /\ call'.at = "identify" => call'.drive = d + 1
  BY <1>1, <1>2, NextProbeIs
<1>9. Idle.st = "idle"
  BY DEF Idle
<1>10. \A e \in present' : e \in Drives /\ e < d + 1 /\ unit'[e].st = "idle"
  <2>1. \A e \in present : e \in Drives /\ e < d /\ unit[e].st = "idle"
    BY <1>0, <1>1 DEF Probing, DiskTypes
  <2>2. ASSUME NEW e \in present' PROVE e \in Drives /\ e < d + 1 /\ unit'[e].st = "idle"
    <3>1. CASE e = d
      BY <1>2, <1>7, <1>9, <3>1 DEF Drives
    <3>2. CASE e # d
      <4>1. e \in Drives /\ e < d /\ unit[e].st = "idle"
        BY <1>1, <2>1, <2>2, <3>2
      <4> QED BY <1>2, <1>7, <3>2, <4>1 DEF Drives
    <3> QED BY <3>1, <3>2
  <2> QED BY <2>2, Zenon
<1>11. DiskTypes'
  BY <1>1, <1>5, <1>7, <1>8 DEF DiskTypes
<1>12. UnitsAtWork'
  <2>1. UnitAtWork(d)'
    BY <1>7, <1>9 DEF UnitAtWork
  <2> QED BY <1>1, <1>2, <1>7, <2>1, OtherUnits
<1>13. Probing'
  <2>1. ASSUME NEW e \in Drives, unit'[e].st # "idle"
        PROVE  unit'[e].op = "identify" /\ unit'[e].left = 1
    <3>1. unit[e].st # "idle" => unit[e].op = "identify" /\ unit[e].left = 1
      BY <1>1 DEF Probing
    <3> QED BY <1>7, <1>9, <2>1, <3>1
  <2> QED BY <1>8, <1>10, <2>1, Zenon DEF Probing
<1>14. BusySelected'
  BY <1>10 DEF BusySelected
<1>15. CallKnown'
  BY <1>8 DEF CallKnown, Calls
<1> QED BY <1>11, <1>12, <1>13, <1>14, <1>15

\* The sector that the address registers name is a number.
LEMMA DecodeInt ==
  ASSUME NEW lba \in Nat
  PROVE  Decode(Registers(lba)) \in Int
<1>1. /\ Radix \in Nat \ {0} /\ Heads \in Nat /\ Spt \in Nat
      /\ Radix * Radix \in Nat \ {0} /\ Radix * Radix * Radix \in Nat \ {0}
  BY DiskAssumption
<1> DEFINE a == lba % Radix
           b == (lba \div Radix) % Radix
           c == (lba \div (Radix * Radix)) % Radix
           h == (lba \div (Radix * Radix * Radix)) % 16
<1>2. a \in Int /\ b \in Int /\ c \in Int /\ h \in Int
  BY <1>1
<1>3. Registers(lba) = [lba0 |-> a, lba1 |-> b, lba2 |-> c, head |-> h]
  BY DEF Registers
<1> HIDE DEF a, b, c, h
<1>4. ((b + Radix * c) * Heads + h) * Spt + a - 1 \in Int
  BY <1>1, <1>2
<1>5. Decode(Registers(lba)) \in {((b + Radix * c) * Heads + h) * Spt + a - 1, -1}
  BY <1>3 DEF Decode
<1> QED BY <1>4, <1>5

\* The address of a call is a number.
LEMMA CallAddress == ASSUME call \in Calls PROVE call.lba \in Nat
<1>1. call.lba \in Lbas \cup {0}
  BY Zenon DEF Calls
<1>2. Lbas \subseteq Nat
  BY DiskAssumption, Zenon
<1>3. \A k \in Lbas \cup {0} : k \in Nat
  BY <1>2
<1> QED BY <1>1, <1>3

\* The drive a command is about is not busy, nor is the other one on its
\* channel.
LEMMA ChannelQuiet ==
  ASSUME DiskIInv, NEW d \in present, Ready(Channel(d)), NEW e \in present, Channel(e) = Channel(d)
  PROVE  unit[e].st # "busy"
<1> SUFFICES ASSUME unit[e].st = "busy" PROVE FALSE
  OBVIOUS
<1>1. sel[Channel(d)] = e
  BY Zenon DEF DiskIInv, BusySelected
<1>2. e \in Attached
  BY DEF DiskIInv, DiskTypes, Attached
<1> QED BY <1>1, <1>2 DEF Ready, BSY, DRDY

\* What a command sent to a drive that is present does.
SentTo(d, u) ==
  /\ d = call.drive /\ d \in present /\ d \in Attached /\ unit[d].st # "busy"
  /\ call.at = "ready" /\ call.buf = <<>> /\ call.n # 0
  /\ u = [st |-> "busy", op |-> call.op, sec |-> Decode(Registers(call.lba)), left |-> call.n]
  /\ Accept(d, u) /\ sel' = [sel EXCEPT ![Channel(d)] = d]
  /\ call' = [call EXCEPT !.at = "data", !.clean = unit[d].st = "idle"]
  /\ UNCHANGED <<machine, media, present, drive_count>>

\* A call sends its command only to a drive that is present and not busy.
LEMMA CommandIs ==
  ASSUME DiskIInv, Command
  PROVE  \E d \in Drives, u \in Units : SentTo(d, u)
<1> USE DEF DiskIInv
<1> DEFINE d == call.drive
           u == [st |-> "busy", op |-> call.op, sec |-> Decode(Registers(call.lba)), left |-> call.n]
<1>1. /\ call.at = "ready" /\ Ready(Channel(d))
      /\ sel' = [sel EXCEPT ![Channel(d)] = d] /\ Accept(d, u)
      /\ call' = [call EXCEPT !.at = "data", !.clean = unit[d].st = "idle"]
      /\ UNCHANGED <<machine, media, present, drive_count>>
  BY Zenon DEF Command, SendCommand
<1>2. d \in Drives /\ d \in present /\ d \in Attached /\ call.buf = <<>> /\ call.n # 0
  BY <1>1 DEF DiskTypes, Calls, CallKnown, Attached
<1>3. unit[d].st # "busy"
  BY <1>1, <1>2, ChannelQuiet
<1>4. call.lba \in Nat
  BY CallAddress DEF DiskTypes
<1>5. u \in Units
  BY <1>4, DecodeInt DEF DiskTypes, Calls, Units
<1> QED BY <1>1, <1>2, <1>3, <1>5, Zenon DEF SentTo

\* disk_read_sectors and disk_write_sectors send their command.
LEMMA CommandIInv == ASSUME DiskIInv, Command PROVE DiskIInv'
<1> USE DEF DiskIInv
<1>0. PICK d \in Drives, u \in Units : SentTo(d, u)
  BY CommandIs, Zenon
<1>1. /\ d = call.drive /\ d \in present /\ d \in Attached /\ unit[d].st # "busy"
      /\ call.at = "ready" /\ call.buf = <<>> /\ call.n # 0
      /\ u = [st |-> "busy", op |-> call.op, sec |-> Decode(Registers(call.lba)), left |-> call.n]
      /\ Accept(d, u) /\ sel' = [sel EXCEPT ![Channel(d)] = d]
      /\ call' = [call EXCEPT !.at = "data", !.clean = unit[d].st = "idle"]
      /\ UNCHANGED <<machine, media, present, drive_count>>
  BY <1>0, Zenon DEF SentTo
<1>2. u.st = "busy"
  BY <1>1
<1>3. /\ sel' \in [Buses -> Drives] /\ \A c \in Buses : Channel(sel'[c]) = c
      /\ sel'[Channel(d)] = d
      /\ \A e \in Drives : Channel(e) # Channel(d) => sel'[Channel(e)] = sel[Channel(e)]
  BY <1>1, Selected, Zenon DEF DiskTypes
<1>4. /\ unit' \in [Drives -> Units]
      /\ \A e \in Drives \ {d} : unit'[e] = unit[e]
      /\ unit'[d] = u \/ unit'[d] = unit[d]
  BY <1>1, Accepted DEF DiskTypes
<1>5. (unit[d].st = "idle") \in BOOLEAN
  OBVIOUS
<1>6. /\ call' \in Calls /\ call'.at = "data" /\ call'.drive = d /\ call'.op = call.op
      /\ call'.buf = <<>> /\ call'.n = call.n
  BY <1>1, <1>5, Zenon DEF DiskTypes, Calls
<1>7. DiskTypes'
  BY <1>1, <1>3, <1>4, <1>6 DEF DiskTypes
<1>8. UnitsAtWork'
  <2>1. UnitAtWork(d)
    BY DEF UnitsAtWork
  <2>2. UnitAtWork(d)'
    BY <1>1, <1>2, <1>4, <2>1 DEF UnitAtWork, Attached
  <2> QED BY <1>1, <1>4, <2>2, OtherUnits
<1>9. Probing'
  BY <1>6 DEF Probing
<1>10. BusySelected'
  <2> SUFFICES ASSUME NEW e \in present, unit'[e].st = "busy" PROVE sel'[Channel(e)] = e
    BY <1>1 DEF BusySelected
  <2>1. e \in Drives
    BY DEF DiskTypes
  <2>2. CASE e = d
    BY <1>3, <2>2
  <2>3. CASE e # d
    <3>1. unit[e].st = "busy"
      BY <1>4, <2>1, <2>3
    <3>2. Channel(e) # Channel(d)
      <4>1. Ready(Channel(d))
        BY <1>1 DEF Command
      <4> QED BY <1>1, <3>1, <4>1, ChannelQuiet
    <3>3. sel[Channel(e)] = e
      BY <3>1 DEF BusySelected
    <3> QED BY <1>3, <2>1, <3>2, <3>3
  <2> QED BY <2>2, <2>3
<1>11. CallKnown'
  BY <1>1, <1>3, <1>6 DEF CallKnown, DiskTypes, Calls
<1> QED BY <1>7, <1>8, <1>9, <1>10, <1>11

\* What one turn of the loop does, with drive d in state u and data x.
Turn(d, u, x) ==
  /\ d = call.drive /\ u = unit[d] /\ d \in Attached /\ d \in present
  /\ sel[Channel(d)] = d /\ call.at = "data" /\ u.st = "drq"
  /\ x = (IF call.op = "read" /\ u.op = "read" THEN media[d][u.sec] ELSE Word(Len(call.buf) + 1))
  /\ media' = (IF u.op = "write" /\ call.op = "write"
                 THEN [media EXCEPT ![d][u.sec] = Word(Len(call.buf) + 1)] ELSE media)
  /\ call' = (IF Len(call.buf) + 1 = call.n
                THEN [call EXCEPT !.buf = Append(call.buf, x), !.at = "idle", !.ok = TRUE]
                ELSE [call EXCEPT !.buf = Append(call.buf, x)])
  /\ unit' = [unit EXCEPT ![d] = Moved(u)]
  /\ UNCHANGED <<machine, sel, present, drive_count>>

\* One turn of the loop moves a sector of the drive of the call.
LEMMA TransferIs ==
  ASSUME DiskIInv, TransferSector
  PROVE  \E d \in Drives, u \in Units, x \in Int : Turn(d, u, x)
<1> USE DEF DiskIInv
<1> DEFINE d == call.drive
           u == unit[d]
           m == Len(call.buf) + 1
           x == IF call.op = "read" /\ u.op = "read" THEN media[d][u.sec] ELSE Word(m)
<1>1. /\ call.at = "data" /\ DRQ(Channel(d))
      /\ media' = IF u.op = "write" /\ call.op = "write" THEN [media EXCEPT ![d][u.sec] = Word(m)] ELSE media
      /\ unit' = [unit EXCEPT ![d] = Moved(u)]
      /\ UNCHANGED <<machine, sel, present, drive_count>>
  BY Zenon DEF TransferSector
<1>2. call' = IF m = [call EXCEPT !.buf = Append(@, x)].n
                THEN [[call EXCEPT !.buf = Append(@, x)] EXCEPT !.at = "idle", !.ok = TRUE]
                ELSE [call EXCEPT !.buf = Append(@, x)]
  BY Zenon DEF TransferSector
<1>3. d \in Drives /\ d \in present /\ sel[Channel(d)] = d /\ Len(call.buf) \in Nat
  BY <1>1 DEF DiskTypes, Calls, CallKnown
<1>4. d \in Attached /\ u.st = "drq" /\ u \in Units
  BY <1>1, <1>3, DataOf DEF DiskTypes
<1>5. x \in Int
  <2>1. CASE call.op = "read" /\ u.op = "read"
    <3>1. u.sec \in 0 .. Capacity - 1
      BY <1>3, <1>4, <2>1 DEF UnitsAtWork, UnitAtWork
    <3> QED BY <1>3, <2>1, <3>1, Zenon DEF DiskTypes
  <2>2. CASE ~(call.op = "read" /\ u.op = "read")
    BY <1>3, <2>2 DEF Word
  <2> QED BY <2>1, <2>2
<1> HIDE DEF x
<1>6. call' = IF m = call.n
                THEN [call EXCEPT !.buf = Append(call.buf, x), !.at = "idle", !.ok = TRUE]
                ELSE [call EXCEPT !.buf = Append(call.buf, x)]
  BY <1>2 DEF DiskTypes, Calls
<1>7. x = IF call.op = "read" /\ u.op = "read" THEN media[d][u.sec] ELSE Word(m)
  BY DEF x
<1> QED BY <1>1, <1>3, <1>4, <1>5, <1>6, <1>7, Zenon DEF Turn

\* disk_read_sectors and disk_write_sectors move a sector.
LEMMA TransferIInv == ASSUME DiskIInv, TransferSector PROVE DiskIInv'
<1> USE DEF DiskIInv
<1>0. PICK d \in Drives, u \in Units, x \in Int : Turn(d, u, x)
  BY TransferIs, Zenon
<1>1. /\ d = call.drive /\ u = unit[d] /\ d \in Attached /\ d \in present
      /\ sel[Channel(d)] = d /\ call.at = "data" /\ u.st = "drq"
      /\ unit' = [unit EXCEPT ![d] = Moved(u)]
      /\ UNCHANGED <<machine, sel, present>>
  BY <1>0, Zenon DEF Turn
<1>2. u.left # 0 /\ UnitAtWork(d)
  BY <1>1 DEF UnitsAtWork, UnitAtWork
<1>3. Moved(u) \in Units /\ Moved(u).st # "drq"
  <2>1. CASE u.left = 1 /\ u.op # "write"
    BY <2>1, IdleTypes DEF Moved, Idle
  <2>2. CASE ~(u.left = 1 /\ u.op # "write")
    <3>1. Moved(u) = [u EXCEPT !.st = "busy", !.left = u.left - 1, !.sec = u.sec + 1]
      BY <2>2 DEF Moved
    <3>2. u.left - 1 \in 0 .. MaxCount /\ u.sec + 1 \in Int
      BY <1>2 DEF Units, MaxCount
    <3> QED BY <3>1, <3>2, Zenon DEF Units
  <2> QED BY <2>1, <2>2
<1>4. /\ unit' \in [Drives -> Units] /\ unit'[d] = Moved(u)
      /\ \A e \in Drives \ {d} : unit'[e] = unit[e]
  BY <1>1, <1>3 DEF DiskTypes
<1>5. media' \in [Drives -> [0 .. Capacity - 1 -> Int]]
  <2>1. CASE u.op = "write" /\ call.op = "write"
    <3>1. media' = [media EXCEPT ![d][u.sec] = Word(Len(call.buf) + 1)]
      BY <1>0, <2>1 DEF Turn
    <3>2. Word(Len(call.buf) + 1) \in Int
      BY DEF DiskTypes, Calls, Word
    <3> QED BY <3>1, <3>2, Zenon DEF DiskTypes
  <2>2. CASE ~(u.op = "write" /\ call.op = "write")
    BY <1>0, <2>2 DEF Turn, DiskTypes
  <2> QED BY <2>1, <2>2
<1>6. call \in Calls /\ call.buf \in Seq(Int) /\ Len(call.buf) \in Nat /\ Len(call.buf) < call.n
  BY <1>1 DEF DiskTypes, Calls, CallKnown
<1>7. Append(call.buf, x) \in Seq(Int) /\ Len(Append(call.buf, x)) = Len(call.buf) + 1
  BY <1>6
<1>8. /\ call' \in Calls /\ call'.buf = Append(call.buf, x) /\ call'.n = call.n
      /\ call'.drive = d /\ call'.op = call.op
      /\ call'.at = IF Len(call.buf) + 1 = call.n THEN "idle" ELSE "data"
  <2>1. CASE Len(call.buf) + 1 = call.n
    <3>1. call' = [call EXCEPT !.buf = Append(call.buf, x), !.at = "idle", !.ok = TRUE]
      BY <1>0, <2>1, Zenon DEF Turn
    <3> QED BY <1>1, <1>6, <1>7, <2>1, <3>1, Zenon DEF Calls
  <2>2. CASE Len(call.buf) + 1 # call.n
    <3>1. call' = [call EXCEPT !.buf = Append(call.buf, x)]
      BY <1>0, <2>2, Zenon DEF Turn
    <3> QED BY <1>1, <1>6, <1>7, <2>2, <3>1, Zenon DEF Calls
  <2> QED BY <2>1, <2>2
<1>9. DiskTypes'
  BY <1>1, <1>4, <1>5, <1>8 DEF DiskTypes
<1>10. UnitsAtWork'
  <2>1. UnitAtWork(d)'
    BY <1>1, <1>3, <1>4, Zenon DEF UnitAtWork, Attached
  <2> QED BY <1>1, <1>4, <2>1, OtherUnits
<1>11. Probing'
  BY <1>8 DEF Probing
<1>12. BusySelected'
  <2> SUFFICES ASSUME NEW e \in present, unit'[e].st = "busy" PROVE sel[Channel(e)] = e
    BY <1>1 DEF BusySelected
  <2>1. e \in Drives
    BY DEF DiskTypes
  <2> QED BY <1>1, <1>4, <2>1 DEF BusySelected
<1>13. CallKnown'
  <2>1. call.n \in Nat
    <3>1. call.n \in 0 .. MaxCount
      BY <1>6, Zenon DEF Calls
    <3> QED BY <3>1 DEF MaxCount
  <2>2. call.op # "none"
    BY <1>1, Zenon DEF CallKnown
  <2>3. Len(call'.buf) <= call'.n /\ (call'.at # "idle" => Len(call'.buf) < call'.n)
    BY <1>6, <1>7, <1>8, <2>1
  <2>4. call'.at \in {"idle", "data"}
    BY <1>8, Zenon
  <2> QED BY <1>1, <1>8, <2>2, <2>3, <2>4, Zenon DEF CallKnown
<1> QED BY <1>9, <1>10, <1>11, <1>12, <1>13

\* Every step of the driver and of the drives keeps the invariant.
LEMMA DiskNextIInv == DiskIInv /\ [DiskNext]_dvars => DiskIInv'
<1> SUFFICES ASSUME DiskIInv, [DiskNext]_dvars PROVE DiskIInv'
  OBVIOUS
<1>1. ASSUME NEW d \in Drives, UnitStep(d) PROVE DiskIInv'
  BY <1>1, UnitStepIInv
<1>2. ASSUME NEW op \in {"read", "write"}, NEW d \in Drives, NEW lba \in Lbas, NEW n \in Counts,
             disk_sectors(op, d, lba, n)
      PROVE  DiskIInv'
  BY <1>2, SectorsIInv
<1>3. CASE DriverStep
  BY <1>3, IdentifyIInv, IdentifiedIInv, ProbeTimeoutIInv, CommandIInv, TransferIInv, TimeoutIInv
     DEF DriverStep
<1>4. CASE UNCHANGED dvars
  BY <1>4 DEF dvars, DiskIInv, DiskTypes, UnitsAtWork, UnitAtWork, Attached, Probing, BusySelected, CallKnown
<1> QED BY <1>1, <1>2, <1>3, <1>4 DEF DiskNext

\* The quotient and the remainder of a division.
LEMMA Euclid ==
  ASSUME NEW B \in Int, B > 0, NEW a \in Int
  PROVE  a = B * (a \div B) + (a % B)
  OBVIOUS

\* They are natural numbers, and the remainder is less than the divisor.
LEMMA Division ==
  ASSUME NEW a \in Nat, NEW B \in Nat \ {0}
  PROVE  a = B * (a \div B) + (a % B) /\ a \div B \in Nat /\ a % B \in 0 .. B - 1
<1>1. B \in Int /\ B > 0 /\ a \in Int
  OBVIOUS
<1>2. a \div B \in Nat /\ a % B \in 0 .. B - 1
  OBVIOUS
<1> QED BY <1>1, <1>2, Euclid, Zenon

\* There is one quotient.
LEMMA OneQuotient ==
  ASSUME NEW B \in Nat \ {0}, NEW p \in Nat, NEW s \in 0 .. B - 1
  PROVE  (B * p + s) \div B = p /\ ((B * p + s) % B) = s
  OBVIOUS

\* The third digit of a number below B^3.
LEMMA ThirdDigit ==
  ASSUME NEW B \in Nat \ {0}, NEW a \in Nat, a < B * B * B, NEW p \in Nat,
         NEW r \in 0 .. B - 1, NEW t \in 0 .. B - 1, a = B * (B * p + t) + r
  PROVE  a \div (B * B) = p /\ p % B = p
<1>4. B * B \in Nat \ {0} /\ B * B * B \in Nat \ {0}
  OBVIOUS
<1>5. a = (B * B) * p + (B * t + r)
  OBVIOUS
<1>6. B * t + r \in 0 .. B * B - 1
  <2>1. B * t <= B * (B - 1)
    OBVIOUS
  <2> QED BY <2>1
<1>7. a \div (B * B) = p
  BY <1>4, <1>5, <1>6, OneQuotient
<1>8. p < B
  <2> SUFFICES ASSUME p >= B PROVE FALSE
    OBVIOUS
  <2>1. (B * B) * p >= (B * B) * B
    OBVIOUS
  <2> QED BY <1>4, <1>5, <1>6, <2>1
<1> QED BY <1>7, <1>8

\* The digits of a number below B^3.
LEMMA Digits ==
  ASSUME NEW B \in Nat \ {0}, NEW a \in Nat, a < B * B * B
  PROVE  /\ ((a \div B) % B) + B * ((a \div (B * B)) % B) = a \div B
         /\ a \div (B * B * B) = 0
<1> DEFINE q == a \div B
           r == a % B
           p == q \div B
           t == q % B
<1>1. q \in Nat /\ r \in 0 .. B - 1 /\ a = B * q + r
  BY Division, Zenon
<1>2. p \in Nat /\ t \in 0 .. B - 1 /\ q = B * p + t
  BY <1>1, Division, Zenon
<1> HIDE DEF q, r, p, t
<1>3. a \div (B * B) = p /\ p % B = p
  BY <1>1, <1>2, ThirdDigit
<1>4. B * B * B \in Nat \ {0}
  OBVIOUS
<1>5. a \div (B * B * B) = 0
  BY <1>4
<1>6. (q % B) + B * p = q
  BY <1>1, <1>2 DEF t
<1> QED BY <1>3, <1>5, <1>6, Zenon DEF q

\* Addresses that fit the three address registers.
ShortAddresses == \A lba \in Lbas : lba < Radix * Radix * Radix

\* The registers of such an address name the cylinder, head and sector it
\* becomes, if any.
LEMMA AddressKept ==
  ASSUME NEW lba \in Nat, lba < Radix * Radix * Radix, Decode(Registers(lba)) # -1
  PROVE  Decode(Registers(lba)) = ChsOf(lba)
<1>1. Radix \in Nat \ {0} /\ Heads \in Nat /\ Spt \in Nat
  BY DiskAssumption
<1> DEFINE a == lba % Radix
           b == (lba \div Radix) % Radix
           c == (lba \div (Radix * Radix)) % Radix
           q == lba \div Radix
<1>2. b + Radix * c = q /\ lba \div (Radix * Radix * Radix) = 0
  BY <1>1, Digits, Zenon
<1>3. a \in Int /\ q \in Int
  BY <1>1
<1>4. Registers(lba) = [lba0 |-> a, lba1 |-> b, lba2 |-> c, head |-> 0]
  BY <1>2 DEF Registers
<1> HIDE DEF a, b, c, q
<1>5. Decode(Registers(lba)) = ((b + Radix * c) * Heads + 0) * Spt + a - 1
  BY <1>4 DEF Decode
<1>6. (q * Heads + 0) * Spt + a - 1 = (q * Heads * Spt) + a - 1
  BY <1>1, <1>3
<1> QED BY <1>2, <1>5, <1>6 DEF ChsOf, q, a

Target == Decode(Registers(call.lba))

\* The buffer holds the sectors of the drive from Target on.
InPlace == \A j \in 1 .. Len(call.buf) : call.buf[j] = media[call.drive][Target + (j - 1)]

\* While a call moves its sectors, the drive is at the next one, unless it
\* has given the command up.
DataMoves ==
  call.at = "data" /\ call.clean =>
    /\ InPlace
    /\ call.buf # <<>> => Target \in Nat
    /\ unit[call.drive].st # "idle" => /\ unit[call.drive].op = call.op
                                       /\ unit[call.drive].sec = Target + Len(call.buf)
                                       /\ unit[call.drive].left = call.n - Len(call.buf)

\* A call that has returned count has its sectors in place.
DataMoved ==
  call.at = "idle" /\ call.ok /\ call.clean =>
    InPlace /\ Len(call.buf) = call.n /\ Target \in Nat

MovesIInv == DiskIInv /\ DataMoves /\ DataMoved

\* Boot, and a call that has not begun or has failed, claim nothing.
LEMMA NothingMoved ==
  ASSUME call.at \notin {"idle", "data"} \/ call = NoCall
  PROVE  DataMoves /\ DataMoved
<1>1. NoCall.at = "idle" /\ ~NoCall.ok
  BY Zenon DEF NoCall
<1> QED BY <1>1, Zenon DEF DataMoves, DataMoved

\* A step of a drive leaves the call and the sectors alone.
LEMMA UnitStepMoves ==
  ASSUME DiskIInv, DataMoves, DataMoved, NEW d \in Drives, UnitStep(d)
  PROVE  DataMoves' /\ DataMoved'
<1> DEFINE u == unit[d]
           v == unit'[d]
<1>1. UNCHANGED <<media, call>>
  BY DEF UnitStep
<1>2. DataMoved' /\ (InPlace' <=> InPlace)
  BY <1>1, Zenon DEF DataMoved, InPlace, Target
<1>3. v = Idle \/ v = [u EXCEPT !.st = "drq"]
  BY DEF UnitStep, DiskIInv, DiskTypes
<1>4. u \in Units /\ u.st = "busy"
  BY DEF UnitStep, DiskIInv, DiskTypes
<1>5. v.st # "idle" => v.op = u.op /\ v.left = u.left /\ v.sec = u.sec
  BY <1>3, <1>4 DEF Units, Idle
<1>6. \A e \in Drives \ {d} : unit'[e] = unit[e]
  BY DEF UnitStep, DiskIInv, DiskTypes
<1>7. call.drive \in Drives
  BY DEF DiskIInv, DiskTypes, Calls
<1>8. DataMoves'
  <2> SUFFICES ASSUME call.at = "data", call.clean
               PROVE  unit'[call.drive].st # "idle" =>
                        /\ unit'[call.drive].op = call.op
                        /\ unit'[call.drive].sec = Target + Len(call.buf)
                        /\ unit'[call.drive].left = call.n - Len(call.buf)
    BY <1>1, <1>2, Zenon DEF DataMoves, Target
  <2>1. CASE call.drive = d
    BY <1>4, <1>5, <2>1 DEF DataMoves
  <2>2. CASE call.drive # d
    BY <1>6, <1>7, <2>2 DEF DataMoves
  <2> QED BY <2>1, <2>2
<1> QED BY <1>2, <1>8

\* A command that finds its drive idle begins at its first sector.
LEMMA CommandMoves ==
  ASSUME DiskIInv, DataMoves, DataMoved, Command
  PROVE  DataMoves' /\ DataMoved'
<1>0. PICK d \in Drives, u \in Units : SentTo(d, u)
  BY CommandIs, Zenon
<1>1. /\ d = call.drive /\ d \in Attached /\ call.buf = <<>>
      /\ u = [st |-> "busy", op |-> call.op, sec |-> Decode(Registers(call.lba)), left |-> call.n]
      /\ Accept(d, u)
      /\ call' = [call EXCEPT !.at = "data", !.clean = unit[d].st = "idle"]
  BY <1>0, Zenon DEF SentTo
<1>2. unit \in [Drives -> Units] /\ call \in Calls
  BY DEF DiskIInv, DiskTypes
<1>3. unit[d].st = "idle" => unit'[d] = u
  BY <1>1, <1>2, Accepted
<1>4. /\ call'.at = "data" /\ call'.drive = d /\ call'.op = call.op /\ call'.lba = call.lba
      /\ call'.buf = <<>> /\ call'.n = call.n
  BY <1>1, <1>2 DEF Calls
<1>5. call'.clean <=> unit[d].st = "idle"
  BY <1>1, <1>2, Zenon DEF Calls
<1>6. u.op = call.op /\ u.sec = Target /\ u.left = call.n /\ Target' = Target
  BY <1>1, <1>4 DEF Target
<1>7. Target \in Int /\ call.n \in Int /\ Len(call'.buf) = 0
  BY <1>4, <1>6, <1>2 DEF Units, Calls
<1>8. InPlace'
  BY <1>4 DEF InPlace
<1>9. Target + Len(call'.buf) = Target /\ call.n - Len(call'.buf) = call.n
  BY <1>7
<1>10. DataMoves'
  BY <1>3, <1>4, <1>5, <1>6, <1>8, <1>9, Zenon DEF DataMoves
<1>11. DataMoved'
  BY <1>4 DEF DataMoved
<1> QED BY <1>10, <1>11

\* A turn of the loop puts the next sector in place.
LEMMA TransferMoves ==
  ASSUME DiskIInv, DataMoves, DataMoved, TransferSector
  PROVE  DataMoves' /\ DataMoved'
<1>0. PICK d \in Drives, u \in Units, x \in Int : Turn(d, u, x)
  BY TransferIs, Zenon
<1> DEFINE l == Len(call.buf)
<1>1. /\ d = call.drive /\ u = unit[d] /\ call.at = "data" /\ u.st = "drq"
      /\ x = (IF call.op = "read" /\ u.op = "read" THEN media[d][u.sec] ELSE Word(l + 1))
      /\ media' = (IF u.op = "write" /\ call.op = "write"
                     THEN [media EXCEPT ![d][u.sec] = Word(l + 1)] ELSE media)
      /\ call' = (IF l + 1 = call.n
                    THEN [call EXCEPT !.buf = Append(call.buf, x), !.at = "idle", !.ok = TRUE]
                    ELSE [call EXCEPT !.buf = Append(call.buf, x)])
      /\ unit' = [unit EXCEPT ![d] = Moved(u)]
  BY <1>0, Zenon DEF Turn
<1>2. /\ call \in Calls /\ call.buf \in Seq(Int) /\ l \in Nat /\ l < call.n
      /\ call.op \in {"read", "write"} /\ call.n \in Nat
  <2>1. call \in Calls
    BY DEF DiskIInv, DiskTypes
  <2>2. call.buf \in Seq(Int) /\ call.op \in {"none", "read", "write"} /\ call.n \in 0 .. MaxCount
    BY <2>1, Zenon DEF Calls
  <2>3. l < call.n /\ call.op # "none"
    BY <1>1, Zenon DEF DiskIInv, CallKnown
  <2>4. call.n \in Nat /\ l \in Nat
    <3>1. call.n \in 0 .. MaxCount
      BY <2>2
    <3>2. call.n \in Nat
      BY <3>1 DEF MaxCount
    <3> QED BY <2>2, <3>2
  <2> QED BY <2>1, <2>2, <2>3, <2>4, Zenon
<1>3. /\ call'.buf = Append(call.buf, x) /\ call'.n = call.n /\ call'.drive = d
      /\ call'.op = call.op /\ call'.lba = call.lba
  BY <1>1, <1>2 DEF Calls
<1>4. call'.at = (IF l + 1 = call.n THEN "idle" ELSE "data")
  BY <1>1, <1>2 DEF Calls
<1>5. call'.clean <=> call.clean
  BY <1>1, <1>2, Zenon DEF Calls
<1>6. Len(call'.buf) = l + 1 /\ call'.buf # <<>> /\ Target' = Target
  BY <1>2, <1>3 DEF Target
<1> SUFFICES ASSUME call.clean
             PROVE  /\ InPlace' /\ Target \in Nat
                    /\ unit'[d].st # "idle" => /\ unit'[d].op = call.op
                                               /\ unit'[d].sec = Target + (l + 1)
                                               /\ unit'[d].left = call.n - (l + 1)
  BY <1>3, <1>4, <1>5, <1>6, Zenon DEF DataMoves, DataMoved
<1>7. /\ InPlace /\ (call.buf # <<>> => Target \in Nat)
      /\ u.op = call.op /\ u.sec = Target + l /\ u.left = call.n - l
  BY <1>1 DEF DataMoves
<1>8. u.sec \in 0 .. Capacity - 1
  BY <1>1, <1>2, <1>7 DEF DiskIInv, UnitsAtWork, UnitAtWork
<1>9. Target \in Nat
  <2>1. CASE call.buf = <<>>
    <3>1. l = 0
      BY <2>1
    <3>2. Target \in Int
      BY <1>2, CallAddress, DecodeInt DEF Target
    <3> QED BY <1>7, <1>8, <3>1, <3>2
  <2>2. CASE call.buf # <<>>
    BY <1>7, <2>2
  <2> QED BY <2>1, <2>2
<1>10. media \in [Drives -> [0 .. Capacity - 1 -> Int]]
  BY DEF DiskIInv, DiskTypes
<1>11. media'[d][u.sec] = x
  <2>1. CASE call.op = "read"
    BY <1>1, <1>7, <2>1
  <2>2. CASE call.op = "write"
    BY <1>1, <1>7, <1>8, <1>10, <2>2, Zenon
  <2> QED BY <1>2, <2>1, <2>2
<1>12. ASSUME NEW k \in 0 .. Capacity - 1, k # u.sec PROVE media'[d][k] = media[d][k]
  BY <1>1, <1>8, <1>10, <1>12
<1>13. InPlace'
  <2> SUFFICES ASSUME NEW j \in 1 .. l + 1 PROVE call'.buf[j] = media'[d][Target + (j - 1)]
    BY <1>3, <1>6, Zenon DEF InPlace
  <2>1. CASE j = l + 1
    <3>1. call'.buf[j] = x
      BY <1>2, <1>3, <2>1
    <3>2. Target + (j - 1) = u.sec
      BY <1>2, <1>7, <1>9, <2>1
    <3> QED BY <1>11, <3>1, <3>2
  <2>2. CASE j # l + 1
    <3>1. j \in 1 .. l
      BY <1>2, <2>2
    <3>2. call'.buf[j] = call.buf[j]
      BY <1>2, <1>3, <3>1
    <3>3. Target + (j - 1) \in 0 .. Capacity - 1 /\ Target + (j - 1) # u.sec
      <4>1. l \in Nat /\ u.sec = Target + l
        BY <1>2, <1>7, Zenon
      <4>2. Capacity \in Nat
        BY DiskAssumption
      <4> HIDE DEF l
      <4> QED BY <1>8, <1>9, <3>1, <4>1, <4>2
    <3>4. call.buf[j] = media[d][Target + (j - 1)]
      BY <1>1, <1>7, <3>1, Zenon DEF InPlace
    <3> QED BY <1>12, <3>2, <3>3, <3>4, Zenon
  <2> QED BY <2>1, <2>2
<1>14. unit'[d] = Moved(u)
  BY <1>1 DEF DiskIInv, DiskTypes
<1>15. /\ Moved(u).st # "idle" => /\ Moved(u).op = u.op
                                  /\ Moved(u).sec = u.sec + 1
                                  /\ Moved(u).left = u.left - 1
  BY DEF Moved, Idle, Units
<1>16. u.sec + 1 = Target + (l + 1) /\ u.left - 1 = call.n - (l + 1)
  BY <1>2, <1>7, <1>9
<1> QED BY <1>7, <1>9, <1>13, <1>14, <1>15, <1>16, Zenon

\* Every step keeps what is known of the sectors moved.
LEMMA MovesNext == MovesIInv /\ [DiskNext]_dvars => MovesIInv'
<1> SUFFICES ASSUME DiskIInv, DataMoves, DataMoved, [DiskNext]_dvars
             PROVE  DataMoves' /\ DataMoved'
  BY DiskNextIInv, Zenon DEF MovesIInv
<1>0. ASSUME call'.at \notin {"idle", "data"} \/ call' = NoCall PROVE DataMoves' /\ DataMoved'
  <2>1. NoCall.at = "idle" /\ ~NoCall.ok
    BY Zenon DEF NoCall
  <2> QED BY <1>0, <2>1, Zenon DEF DataMoves, DataMoved
<1>1. ASSUME NEW d \in Drives, UnitStep(d) PROVE DataMoves' /\ DataMoved'
  BY <1>1, UnitStepMoves
<1>2. ASSUME NEW op \in {"read", "write"}, NEW d \in Drives, NEW lba \in Lbas, NEW n \in Counts,
             disk_sectors(op, d, lba, n)
      PROVE  DataMoves' /\ DataMoved'
  <2>1. call' = NoCall \/ call' = [NoCall EXCEPT !.at = "ready", !.op = op, !.drive = d, !.lba = lba, !.n = n]
    BY <1>2 DEF disk_sectors
  <2>2. call' = NoCall \/ call'.at = "ready"
    BY <2>1, Zenon DEF NoCall
  <2> QED BY <1>0, <2>2
<1>3. CASE disk_identify \/ Identified \/ ProbeTimeout
  <2>1. \/ call' = NextProbe(call.drive)
        \/ call' = [call EXCEPT !.at = "probe"]
    BY <1>3 DEF disk_identify, Identified, ProbeTimeout
  <2>2. call \in Calls
    BY DEF DiskIInv, DiskTypes
  <2>3. call' = NoCall \/ call'.at \in {"identify", "probe"}
    BY <2>1, <2>2, Zenon DEF NextProbe, Calls
  <2> QED BY <1>0, <2>3
<1>4. CASE ReadyTimeout \/ DataTimeout
  BY <1>0, <1>4 DEF ReadyTimeout, DataTimeout
<1>5. CASE UNCHANGED dvars
  BY <1>5 DEF dvars, DataMoves, DataMoved, InPlace, Target
<1> QED BY <1>1, <1>2, <1>3, <1>4, <1>5, CommandMoves, TransferMoves DEF DiskNext, DriverStep

\* A command begins only on a drive that is not busy.
LEMMA CommandStep ==
  ASSUME DiskIInv, [DiskNext]_dvars, call.at = "ready", call'.at = "data"
  PROVE  unit[call.drive].st # "busy"
<1>0. call \in Calls
  BY DEF DiskIInv, DiskTypes
<1>1. call' # call /\ call' # NoCall
  BY DEF NoCall
<1>2. CASE Command
  BY <1>2, CommandIs, Zenon DEF SentTo
<1>3. ASSUME NEW op \in {"read", "write"}, NEW d \in Drives, NEW lba \in Lbas, NEW n \in Counts,
             disk_sectors(op, d, lba, n)
      PROVE  FALSE
  BY <1>3 DEF disk_sectors
<1>4. ~(\E d \in Drives : UnitStep(d)) /\ ~UNCHANGED dvars
  BY <1>1 DEF UnitStep, dvars
<1>5. ~(disk_identify \/ Identified \/ ProbeTimeout \/ ReadyTimeout \/ TransferSector \/ DataTimeout)
  BY <1>1 DEF disk_identify, Identified, ProbeTimeout, ReadyTimeout, TransferSector, DataTimeout
<1> QED BY <1>2, <1>3, <1>4, <1>5 DEF DiskNext, DriverStep

\* A call that has returned count has moved the sectors its address becomes.
LEMMA MovedItsSectors ==
  ASSUME ShortAddresses, MovesIInv
  PROVE  MovesItsSectors
<1> SUFFICES ASSUME call.at = "idle", call.ok, call.clean, NEW m \in 1 .. call.n
             PROVE  call.buf[m] = media[call.drive][ChsOf(call.lba) + m - 1]
  BY Zenon DEF MovesItsSectors
<1>1. InPlace /\ Len(call.buf) = call.n /\ Target \in Nat
  BY Zenon DEF MovesIInv, DataMoved
<1>2. call.buf[m] = media[call.drive][Target + (m - 1)]
  BY <1>1, Zenon DEF InPlace
<1>3. call \in Calls /\ call.lba \in Nat
  BY CallAddress DEF MovesIInv, DiskIInv, DiskTypes
<1>4. call.lba < Radix * Radix * Radix
  <2>1. Radix * Radix * Radix > 0
    <3>1. Radix \in Nat \ {0}
      BY DiskAssumption
    <3> QED BY <3>1
  <2>2. call.lba \in Lbas \cup {0}
    BY <1>3, Zenon DEF Calls
  <2> QED BY <2>1, <2>2 DEF ShortAddresses
<1>5. Target # -1
  BY <1>1
<1>6. Target = ChsOf(call.lba)
  BY <1>3, <1>4, <1>5, AddressKept DEF Target
<1>7. m \in Int
  OBVIOUS
<1>8. Target + (m - 1) = ChsOf(call.lba) + m - 1
  BY <1>1, <1>6, <1>7
<1> QED BY <1>2, <1>8

\* drive_count counts the drives found.
Counted == drive_count = Flag(0) + Flag(1) + Flag(2) + Flag(3)

\* It does from boot on: a drive is counted when its flag is set.
LEMMA DrivesCounted ==
  /\ disk_init => Counted
  /\ DiskIInv /\ Counted /\ [DiskNext]_dvars => Counted'
<1> USE DEF Counted
<1>1. disk_init => Counted
  BY DEF disk_init, Flag
<1>2. ASSUME DiskIInv, Counted, [DiskNext]_dvars
      PROVE  Counted'
  <2>1. CASE Identified
    <3>1. PICK d \in Drives : d = call.drive
      BY <1>2 DEF DiskIInv, DiskTypes, Calls
    <3>2. present' = present \cup {d} /\ drive_count' = drive_count + 1 /\ call.at = "probe"
      BY <2>1, <3>1 DEF Identified
    <3>3. d \notin present
      BY <1>2, <3>1, <3>2 DEF DiskIInv, Probing, Drives
    <3> QED BY <1>2, <3>2, <3>3 DEF Flag, Drives
  <2>2. CASE UNCHANGED <<present, drive_count>>
    BY <1>2, <2>2 DEF Flag
  <2> QED BY <1>2, <2>1, <2>2, Zenon DEF DiskNext, DriverStep, UnitStep, disk_sectors, disk_identify, ProbeTimeout,
          Command, SendCommand, ReadyTimeout, TransferSector, DataTimeout, dvars
<1> QED BY <1>1, <1>2

\* A step of the two drivers is a step of each or leaves it alone.
LEMMA DriversStep ==
  [Timer(PitNext) \/ Ata(DiskNext)]_mvars => [PitNext]_pvars /\ [DiskNext]_dvars
  BY DEF Timer, Ata, mvars

\* Counter, waits, drives and calls keep their types: a drive is marked
\* present only when it is an ATA drive, each channel keeps one of its own
\* drives selected, drive_count counts the flags, and no buffer is overrun.
THEOREM DriversTypesHold == DriversSpec => []DriversTypeOK
<1>1. DriversInit => PitIInv /\ DiskIInv /\ Counted
  BY PitInitIInv, DiskInitIInv, DrivesCounted DEF DriversInit
<1>2. PitIInv /\ DiskIInv /\ Counted /\ [Timer(PitNext) \/ Ata(DiskNext)]_mvars
        => PitIInv' /\ DiskIInv' /\ Counted'
  BY DriversStep, PitNextIInv, DiskNextIInv, DrivesCounted
<1>3. PitIInv /\ DiskIInv /\ Counted => DriversTypeOK
  BY DEF PitIInv, DiskIInv, DiskTypes, CallKnown, Calls, Units, Counted, DriversTypeOK, DiskTypeOK
<1> QED BY <1>1, <1>2, <1>3, PTL DEF DriversSpec

\* disk_read_sectors and disk_write_sectors never write a command to a drive
\* that is busy, although ata_wait_ready polls whichever drive the channel
\* has selected: a busy drive stays selected until it is done.
THEOREM NoCommandToABusyDrive == DriversSpec => NoCommandWhileBusy
<1>1. DriversInit => DiskIInv
  BY DiskInitIInv DEF DriversInit
<1>2. DiskIInv /\ [Timer(PitNext) \/ Ata(DiskNext)]_mvars => DiskIInv'
  BY DriversStep, DiskNextIInv
<1>3. DiskIInv /\ [Timer(PitNext) \/ Ata(DiskNext)]_mvars
        => [call.at = "ready" /\ call'.at = "data" => unit[call.drive].st # "busy"]_dvars
  BY DriversStep, CommandStep
<1> QED BY <1>1, <1>2, <1>3, PTL DEF DriversSpec, NoCommandWhileBusy

\* A call of the disk driver that returns count, and whose command found the
\* drive idle, has moved the consecutive sectors from its address on, in
\* order, for every geometry, count and address that fits the registers.
THEOREM CallsMoveTheirSectors ==
  ASSUME ShortAddresses
  PROVE  DriversSpec => []MovesItsSectors
<1>1. DriversInit => MovesIInv
  <2>1. disk_init => call.at = "identify"
    BY DEF disk_init, NoCall
  <2> QED BY <2>1, DiskInitIInv, NothingMoved DEF DriversInit, MovesIInv
<1>2. MovesIInv /\ [Timer(PitNext) \/ Ata(DiskNext)]_mvars => MovesIInv'
  BY DriversStep, MovesNext
<1>3. MovesIInv => MovesItsSectors
  BY MovedItsSectors
<1> QED BY <1>1, <1>2, <1>3, PTL DEF DriversSpec
=============================================================================
