-------------------------------- MODULE Disk --------------------------------
(***************************************************************************)
(* The ATA driver of kernel/disk.c and the drives on its two channels.     *)
(* The driver polls: a wait that gives up is a step that may come whenever *)
(* the awaited status is not there, however slow the drive is.  The 256    *)
(* words of a sector move in one step.  The geometry and the model name    *)
(* read by IDENTIFY are only displayed and are left out.                   *)
(***************************************************************************)
EXTENDS Integers, Sequences

CONSTANTS
  Radix,       \* values of one address register: 256 in the code
  Heads, Spt,  \* geometry of the drives: heads, sectors per track
  Capacity,    \* sectors of a drive
  Machines,    \* what can be attached: records of the sets ata and atapi
  Lbas, Counts \* the arguments callers pass

Drives == 0..3
Buses == {0, 1}
Channel(d) == d \div 2
MaxCount == 255  \* count is a uint8_t

\* A count of 0, which a drive takes for 256, is left out.
ASSUME DiskAssumption ==
  /\ Radix \in Nat \ {0} /\ Heads \in Nat /\ Spt \in Nat /\ Capacity \in Nat
  /\ Machines \subseteq [ata : SUBSET Drives, atapi : SUBSET Drives]
  /\ Lbas \subseteq Nat /\ Counts \subseteq 1 .. MaxCount

VARIABLES
  machine,     \* the drives attached (external)
  unit,        \* state of each attached drive (external)
  media,       \* the sectors of each drive (external)
  sel,         \* the drive selected on each channel, by HDDEVSEL
  present,     \* the present flags of g_disks
  drive_count, \* g_drive_count
  call         \* the driver call in progress, or the last one

dvars == <<machine, unit, media, sel, present, drive_count, call>>

Attached == machine.ata \cup machine.atapi
Idle == [st |-> "idle", op |-> "none", sec |-> 0, left |-> 0]
Original(d, s) == Capacity * d + s
Word(i) == -i  \* the i-th sector of a buffer to be written
NoCall == [at |-> "idle", op |-> "none", drive |-> 0, lba |-> 0, n |-> 0,
           buf |-> <<>>, ok |-> FALSE, clean |-> TRUE]

Flag(d) == IF d \in present THEN 1 ELSE 0  \* g_disks[d].present

DiskTypeOK ==
  /\ unit \in [Drives -> [st : {"idle", "busy", "drq"}, op : {"none", "read", "write", "identify"},
                          sec : Int, left : 0 .. MaxCount]]
  /\ sel \in [Buses -> Drives] /\ \A c \in Buses : Channel(sel[c]) = c
  /\ present \subseteq machine.ata /\ drive_count = Flag(0) + Flag(1) + Flag(2) + Flag(3)
  /\ call.at \in {"identify", "probe", "idle", "ready", "data"}
  /\ Len(call.buf) <= call.n

\* disk_init clears g_disks and identifies the drives in order.
disk_init ==
  /\ machine \in Machines
  /\ unit = [d \in Drives |-> Idle]
  /\ media = [d \in Drives |-> [s \in 0 .. Capacity - 1 |-> Original(d, s)]]
  /\ sel = [c \in Buses |-> 2 * c]
  /\ present = {} /\ drive_count = 0
  /\ call = [NoCall EXCEPT !.at = "identify"]

-----------------------------------------------------------------------------
(* External: the drives.                                                   *)

\* The status of a drive that is not attached has neither DRDY nor DRQ.
DRDY(c) == sel[c] \in Attached
BSY(c) == DRDY(c) /\ unit[sel[c]].st = "busy"
DRQ(c) == DRDY(c) /\ unit[sel[c]].st = "drq"
\* Nobody drives the bus of an empty channel, and its status reads 0xFF.
Floating(c) == \A d \in Attached : Channel(d) # c

\* The sector the address registers name, or -1: without the LBA bit they
\* are a sector counted from 1, a cylinder and a head.
Decode(r) ==
  LET s == ((r.lba1 + Radix * r.lba2) * Heads + r.head) * Spt + r.lba0 - 1
  IN  IF r.lba0 \in 1 .. Spt /\ r.head < Heads /\ s < Capacity THEN s ELSE -1

\* A drive that is idle begins a command; one in the middle of a transfer
\* may abort it for the new command or ignore the new one.
Accept(d, u) ==
  IF d \notin Attached \/ unit[d].st = "busy" THEN UNCHANGED unit
  ELSE \/ unit' = [unit EXCEPT ![d] = u]
       \/ unit[d].st = "drq" /\ UNCHANGED unit

\* A drive gets ready for the next sector, or ends the command: one that
\* cannot be carried out, or a write whose last sector it has stored.
UnitStep(d) ==
  /\ unit[d].st = "busy"
  /\ LET u == unit[d]
         bad == IF u.op = "identify" THEN d \in machine.atapi ELSE u.sec \notin 0 .. Capacity - 1
     IN  unit' = [unit EXCEPT ![d] = IF u.left = 0 \/ bad THEN Idle ELSE [u EXCEPT !.st = "drq"]]
  /\ UNCHANGED <<machine, media, sel, present, drive_count, call>>

\* A drive that has moved a sector.
Moved(u) == IF u.left = 1 /\ u.op # "write" THEN Idle
            ELSE [u EXCEPT !.st = "busy", !.left = @ - 1, !.sec = @ + 1]

-----------------------------------------------------------------------------
(* disk.c.                                                                 *)

\* Fault: BSY is not looked at.
ReadyAlthoughBusy(c) == DRDY(c)

\* What ata_wait_ready waits for, on the drive selected.
Ready(c) == ~BSY(c) /\ DRDY(c)

\* The next drive to identify, or the end of disk_init.
NextProbe(d) == IF d = 3 THEN NoCall ELSE [call EXCEPT !.at = "identify", !.drive = d + 1]

\* disk_identify selects the drive, and sends IDENTIFY unless the bus floats.
disk_identify ==
  LET d == call.drive
      c == Channel(d)
  IN  /\ call.at = "identify"
      /\ sel' = [sel EXCEPT ![c] = d]
      /\ IF Floating(c)
           THEN call' = NextProbe(d) /\ UNCHANGED unit
           ELSE /\ call' = [call EXCEPT !.at = "probe"]
                /\ Accept(d, [st |-> "busy", op |-> "identify", sec |-> 0, left |-> 1])
      /\ UNCHANGED <<machine, media, present, drive_count>>

\* DRQ appears: ata_process_identify marks the drive present.
Identified ==
  LET d == call.drive
  IN  /\ call.at = "probe" /\ DRQ(Channel(d))
      /\ unit' = [unit EXCEPT ![d] = Moved(@)]
      /\ present' = present \cup {d} /\ drive_count' = drive_count + 1
      /\ call' = NextProbe(d)
      /\ UNCHANGED <<machine, media, sel>>

\* Fault: a drive that does not answer is counted.
ProbeCountsAnyway ==
  /\ call.at = "probe" /\ ~DRQ(Channel(call.drive))
  /\ call' = NextProbe(call.drive)
  /\ drive_count' = drive_count + 1
  /\ UNCHANGED <<machine, unit, media, sel, present>>

\* ata_wait_status gives up: the drive counts as absent.
ProbeTimeout ==
  /\ call.at = "probe" /\ ~DRQ(Channel(call.drive))
  /\ call' = NextProbe(call.drive)
  /\ UNCHANGED <<machine, unit, media, sel, present, drive_count>>

\* disk_read_sectors and disk_write_sectors refuse a drive that is not present.
disk_sectors(op, d, lba, n) ==
  /\ call.at = "idle"
  /\ call' = IF d \in present
               THEN [NoCall EXCEPT !.at = "ready", !.op = op, !.drive = d, !.lba = lba, !.n = n]
               ELSE NoCall
  /\ UNCHANGED <<machine, unit, media, sel, present, drive_count>>

\* Fault: only the low byte of the address is written.
LowByteOnly(lba) == [lba0 |-> lba % Radix, lba1 |-> 0, lba2 |-> 0, head |-> 0]

\* The address registers; the select byte is 0xA0 or 0xB0 with bits 24 to 27
\* of the address and no LBA bit.
Registers(lba) ==
  [lba0 |-> lba % Radix,
   lba1 |-> (lba \div Radix) % Radix,
   lba2 |-> (lba \div (Radix * Radix)) % Radix,
   head |-> (lba \div (Radix * Radix * Radix)) % 16]

\* Writes the registers, selects the drive and sends the command.
SendCommand ==
  /\ sel' = [sel EXCEPT ![Channel(call.drive)] = call.drive]
  /\ Accept(call.drive, [st |-> "busy", op |-> call.op, sec |-> Decode(Registers(call.lba)), left |-> call.n])
  /\ call' = [call EXCEPT !.at = "data", !.clean = unit[call.drive].st = "idle"]
  /\ UNCHANGED <<machine, media, present, drive_count>>

\* ata_wait_ready has read DRDY from the drive selected on the channel.
Command == call.at = "ready" /\ Ready(Channel(call.drive)) /\ SendCommand

ReadyTimeout ==
  /\ call.at = "ready" /\ ~Ready(Channel(call.drive))
  /\ call' = NoCall
  /\ UNCHANGED <<machine, unit, media, sel, present, drive_count>>

\* One turn of the loop: DRQ is there and a sector moves.  A drive still at
\* an older command moves a sector of that one; reading the data register
\* of a write, or writing that of a read, gets or changes nothing.
TransferSector ==
  LET d == call.drive
      u == unit[d]
      i == Len(call.buf) + 1
  IN  /\ call.at = "data" /\ DRQ(Channel(d))
      /\ media' = IF u.op = "write" /\ call.op = "write" THEN [media EXCEPT ![d][u.sec] = Word(i)] ELSE media
      /\ call' = LET c == [call EXCEPT !.buf = Append(@, IF call.op = "read" /\ u.op = "read"
                                                           THEN media[d][u.sec] ELSE Word(i))]
                 IN  IF i = c.n THEN [c EXCEPT !.at = "idle", !.ok = TRUE] ELSE c
      /\ unit' = [unit EXCEPT ![d] = Moved(u)]
      /\ UNCHANGED <<machine, sel, present, drive_count>>

\* Fault: the wait for the data begins again when it gives up.
WaitAgain == call.at = "data" /\ ~DRQ(Channel(call.drive)) /\ UNCHANGED dvars

DataTimeout ==
  /\ call.at = "data" /\ ~DRQ(Channel(call.drive))
  /\ call' = NoCall
  /\ UNCHANGED <<machine, unit, media, sel, present, drive_count>>

DriverStep ==
  \/ disk_identify \/ Identified \/ ProbeTimeout
  \/ Command \/ ReadyTimeout \/ TransferSector \/ DataTimeout

DiskNext ==
  \/ \E d \in Drives : UnitStep(d)
  \/ \E op \in {"read", "write"}, d \in Drives, lba \in Lbas, n \in Counts : disk_sectors(op, d, lba, n)
  \/ DriverStep

-----------------------------------------------------------------------------
(* Properties.                                                             *)

\* The cylinder, head and sector that an address given as a number becomes.
ChsOf(lba) == ((lba \div Radix) * Heads * Spt) + (lba % Radix) - 1

\* A call that returns count has moved the consecutive sectors that begin at
\* the cylinder, head and sector its address becomes, in order, unless its
\* command found the drive in the middle of a transfer that an earlier call
\* had given up on: a time-out returns from the loop and leaves the drive as
\* it is.
MovesItsSectors ==
  call.at = "idle" /\ call.ok /\ call.clean =>
    \A i \in 1 .. call.n : call.buf[i] = media[call.drive][ChsOf(call.lba) + i - 1]

\* No command is written to a drive that is busy, although ata_wait_ready
\* reads the status of the drive selected last and not of the one the call
\* is about: a drive is left selected until it is no longer busy.
NoCommandWhileBusy ==
  [][call.at = "ready" /\ call'.at = "data" => unit[call.drive].st # "busy"]_dvars

\* Every wait is bounded: disk_init gets past its first drive and to its
\* end, and a call returns, whatever the drive does.
DiskCallReturns == (call.at \in {"probe", "ready", "data"}) ~> (call.at = "idle")

\* "Drive/head select with LBA bit" (disk.c:165): the sector a successful
\* call reads is the one whose number it was given.
ReadsTheSectorAsked ==
  call.at = "idle" /\ call.ok /\ call.clean /\ call.op = "read" =>
    call.lba + call.n <= Capacity /\ \A i \in 1 .. call.n : call.buf[i] = media[call.drive][call.lba + i - 1]
=============================================================================
