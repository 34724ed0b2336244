------------------------------ MODULE Process ------------------------------
(***************************************************************************)
(* The process manager of kernel/process.c: the process table, the PID     *)
(* allocator and the round-robin scheduler.                                *)
(*                                                                         *)
(* An action is one call of an exported function, run to completion, or    *)
(* one timer tick (pit_irq0_handler calling process_tick).  What happens   *)
(* when a tick arrives in the middle of a call is the subject of module    *)
(* ScheduleRace.  A call that returns -1 changes nothing and is a          *)
(* stuttering step.  The entry of process p is indexed by its PID: the     *)
(* code keeps the pid field of a used entry equal to its index.  Names,    *)
(* stacks, saved registers and exit codes are left out.                    *)
(***************************************************************************)
EXTENDS Integers, FiniteSets

CONSTANTS
  MaxProcesses,  \* MAX_PROCESSES, 32 in process.h
  TimeSlice,     \* PROCESS_TIME_SLICE, 10 in process.h
  Priorities     \* the priorities callers pass to process_spawn

ASSUME ProcessAssumption ==
  /\ MaxProcesses \in Nat \ {0, 1}
  /\ TimeSlice \in 1..255
  /\ Priorities \subseteq 0..255

VARIABLES
  state,     \* g_process_table[p].state
  priority,  \* g_process_table[p].priority
  ticks,     \* g_process_table[p].ticks
  current,   \* g_current_pid
  count,     \* g_process_count, a uint8_t
  next_pid   \* g_next_pid

vars == <<state, priority, ticks, current, count, next_pid>>

Pids == 0 .. MaxProcesses - 1

\* PROC_STATE_BLOCKED is declared by process.h and assigned nowhere.
States == {"UNUSED", "READY", "RUNNING", "TERMINATED"}

TypeOK ==
  /\ state \in [Pids -> States]
  /\ priority \in [Pids -> 0..255]
  /\ ticks \in [Pids -> 0..TimeSlice]
  /\ current \in Pids
  /\ count \in 0..255
  /\ next_pid \in 1 .. MaxProcesses - 1

(* process_init: every entry unused, except the kernel's, which runs. The  *)
(* ticks of an unused entry are the zeroes of .bss.                        *)
Init ==
  /\ state = [p \in Pids |-> IF p = 0 THEN "RUNNING" ELSE "UNUSED"]
  /\ priority = [p \in Pids |-> IF p = 0 THEN 0 ELSE 128]
  /\ ticks = [p \in Pids |-> IF p = 0 THEN TimeSlice ELSE 0]
  /\ current = 0
  /\ count = 1
  /\ next_pid = 1

-----------------------------------------------------------------------------
(* The scheduler.  The operators take the table and the current PID as     *)
(* they are at the moment of the call: process_exit and process_kill       *)
(* change an entry before they call process_schedule.                      *)

\* How many entries the scan of process_find_next looks at before p: it
\* starts after the current entry and ends with it.
ScanPosition(cur, p) == IF p > cur THEN p - cur - 1 ELSE p - cur - 1 + MaxProcesses

\* Fault: the scan starts at entry 0 each time.
FindNextFromZero(st, cur, next) ==
  LET ready == {p \in Pids : st[p] = "READY"}
  IN  IF ready # {} THEN next \in ready /\ \A p \in ready : next <= p ELSE next = 0

\* process_find_next: the first READY entry in scan order, whatever its
\* priority: every uint8_t priority is below 256, so the loop breaks at once.
\* The fallback to a READY current entry cannot apply, the scan included it.
process_find_next(st, cur, next) ==
  LET ready == {p \in Pids : st[p] = "READY"}
  IN  IF ready # {}
        THEN next \in ready /\ \A p \in ready : ScanPosition(cur, next) <= ScanPosition(cur, p)
        ELSE next = 0

\* Fault: the process switched away from keeps its RUNNING state.
ScheduleWithoutDemotion(st, tk) ==
  \E next \in Pids :
    /\ process_find_next(st, current, next)
    /\ state' = [st EXCEPT ![next] = "RUNNING"]
    /\ current' = next
    /\ ticks' = [tk EXCEPT ![next] = TimeSlice]

\* process_schedule.  The kernel entry is never made READY.
process_schedule(st, tk) ==
  \E next \in Pids :
    /\ process_find_next(st, current, next)
    /\ state' = [st EXCEPT ![current] = IF current # 0 /\ @ = "RUNNING" THEN "READY" ELSE @,
                           ![next] = "RUNNING"]
    /\ current' = next
    /\ ticks' = [tk EXCEPT ![next] = TimeSlice]

-----------------------------------------------------------------------------
(* The exported operations.                                                *)

\* The unused entries process_allocate_pid takes the first of: those from
\* g_next_pid on, or, when there is none, those below it.
FreeSlots ==
  LET above == {p \in next_pid .. MaxProcesses - 1 : state[p] = "UNUSED"}
      below == {p \in 1 .. next_pid - 1 : state[p] = "UNUSED"}
  IN  IF above # {} THEN above ELSE below

\* Fault: g_next_pid skips an entry.
AllocateSkipping(pid) ==
  /\ pid \in FreeSlots
  /\ \A q \in FreeSlots : pid <= q
  /\ next_pid' = IF pid < next_pid THEN next_pid
                 ELSE IF pid + 2 >= MaxProcesses THEN 1 ELSE pid + 2

\* process_allocate_pid: g_next_pid moves only when the first loop finds pid.
process_allocate_pid(pid) ==
  /\ pid \in FreeSlots
  /\ \A q \in FreeSlots : pid <= q
  /\ next_pid' = IF pid < next_pid THEN next_pid
                 ELSE IF pid + 1 >= MaxProcesses THEN 1 ELSE pid + 1

process_spawn(prio) ==
  \E pid \in Pids :
    /\ process_allocate_pid(pid)
    /\ state' = [state EXCEPT ![pid] = "READY"]
    /\ priority' = [priority EXCEPT ![pid] = prio]
    /\ ticks' = [ticks EXCEPT ![pid] = TimeSlice]
    /\ count' = (count + 1) % 256
    /\ UNCHANGED current

\* process_exit, by whichever process is current, the kernel included.
process_exit ==
  /\ process_schedule([state EXCEPT ![current] = "TERMINATED"], ticks)
  /\ count' = (count - 1) % 256
  /\ UNCHANGED <<priority, next_pid>>

\* process_kill: a terminated entry still counts as found by process_get.
process_kill(pid) ==
  /\ pid # 0 /\ state[pid] # "UNUSED"
  /\ LET st == [state EXCEPT ![pid] = "TERMINATED"]
     IN  IF current = pid THEN process_schedule(st, ticks)
         ELSE state' = st /\ UNCHANGED <<current, ticks>>
  /\ count' = IF count > 0 THEN count - 1 ELSE 0
  /\ UNCHANGED <<priority, next_pid>>

\* Fault: a tick never forces a switch.
TickNoSwitch ==
  /\ ticks' = [ticks EXCEPT ![current] = IF @ > 1 THEN @ - 1 ELSE TimeSlice]
  /\ UNCHANGED <<state, current, priority, count, next_pid>>

\* process_tick, called by the timer interrupt.
process_tick ==
  /\ LET tk == [ticks EXCEPT ![current] = IF @ > 0 THEN @ - 1 ELSE 0]
     IN  IF tk[current] = 0 THEN process_schedule(state, tk)
         ELSE ticks' = tk /\ UNCHANGED <<state, current>>
  /\ UNCHANGED <<priority, count, next_pid>>

Next ==
  \/ \E prio \in Priorities : process_spawn(prio)
  \/ process_exit
  \/ \E pid \in Pids : process_kill(pid)
  \/ process_tick

Spec == Init /\ [][Next]_vars

\* The timer keeps ticking (pit_init programs it to repeat); callers may stop.
FairSpec == Spec /\ WF_vars(process_tick)

-----------------------------------------------------------------------------
(* Properties.                                                             *)

\* Between calls the current process is RUNNING with time left, and no other
\* process but the kernel is RUNNING: process_schedule leaves exactly one
\* user process with the CPU, whichever of exit, kill and tick called it.
OnlyCurrentRuns ==
  /\ state[current] = "RUNNING"
  /\ ticks[current] > 0
  /\ \A p \in Pids \ {0} : state[p] = "RUNNING" => p = current

\* The entries in use are 1 .. g_next_pid-1, or all of them once g_next_pid
\* has wrapped: process_allocate_pid never hands out a PID twice, and its
\* second loop ("Wrap around and try again") never finds anything.
SlotsFillUpwards ==
  LET used == {p \in Pids \ {0} : state[p] # "UNUSED"}
  IN  used = 1 .. next_pid - 1 \/ (next_pid = 1 /\ used = Pids \ {0})

\* A terminated process never runs again and its entry is never given to
\* another one, whatever is spawned, killed or scheduled later.
DeadStaysDead ==
  [][\A p \in Pids \ {0} : state[p] = "TERMINATED" => state'[p] = "TERMINATED"]_vars

\* Every switch brings the CPU closer, in scan order, to each process that
\* keeps waiting: process_find_next never passes over a READY process, so one
\* waits for at most MaxProcesses - 1 switches.
NoOvertaking ==
  [][\A p \in Pids : state[p] = "READY" /\ state'[p] = "READY" /\ current' # current
       => ScanPosition(current', p) < ScanPosition(current, p)]_vars

\* A user process loses the CPU to the kernel only if no other process is
\* READY: the kernel is process_find_next's last resort.
KernelIsLastResort ==
  [][current # 0 /\ current' = 0 => \A p \in Pids : state[p] # "READY"]_vars

\* A READY process eventually gets the CPU or is killed while it waits, as
\* long as the timer ticks.
ReadyEventuallyRuns ==
  \A p \in Pids : state[p] = "READY" ~> state[p] # "READY"
=============================================================================
