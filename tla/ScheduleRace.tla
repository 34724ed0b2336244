---------------------------- MODULE ScheduleRace ----------------------------
(***************************************************************************)
(* process_spawn, process_exit and process_kill, preempted by the timer.   *)
(*                                                                         *)
(* The kernel calls them with interrupts enabled (kmain executes sti       *)
(* before shell_main), and nothing in process.c disables them.  No code    *)
(* switches stacks either: after the interrupt returns, the interrupted    *)
(* call goes on, on a process table process_tick may have changed.  The    *)
(* call is therefore cut at each access to state that process_tick writes, *)
(* in program order, and process_tick, which runs behind an interrupt      *)
(* gate, is one step.  g_process_count, which a tick never touches, is     *)
(* left out of these steps.                                                *)
(***************************************************************************)
EXTENDS Process

VARIABLES
  pc,      \* where the interrupted call is; "idle" between calls
  victim,  \* proc of process_spawn and process_exit, pid of process_kill
  start,   \* next_pid of process_find_next
  i,       \* its loop counter
  next,    \* the entry process_find_next returned to process_schedule
  seen     \* the current entry, as the fallback or process_schedule read it

call == <<pc, victim, start, i, next, seen>>
rvars == <<vars, call>>

Rest == <<priority, count, next_pid>>

RaceInit ==
  /\ Init
  /\ pc = "idle" /\ victim = 0 /\ start = 0 /\ i = 0 /\ next = 0 /\ seen = 0

Goto(from, to) == pc = from /\ pc' = to

-----------------------------------------------------------------------------
(* The steps of process_spawn, and of the others up to process_schedule.   *)

\* process_spawn up to proc->state = PROC_STATE_READY; a tick neither takes
\* an entry into use nor moves g_next_pid, so the allocation is part of it.
BeginSpawn ==
  /\ Goto("idle", "fill")
  /\ \E pid \in Pids :
       /\ process_allocate_pid(pid)
       /\ victim' = pid
       /\ state' = [state EXCEPT ![pid] = "READY"]
  /\ UNCHANGED <<priority, ticks, current, count, start, i, next, seen>>

\* The rest of the entry, which a tick may have switched to by now.
SpawnFill(prio) ==
  /\ Goto("fill", "idle")
  /\ priority' = [priority EXCEPT ![victim] = prio]
  /\ ticks' = [ticks EXCEPT ![victim] = TimeSlice]
  /\ UNCHANGED <<state, current, count, next_pid, victim, start, i, next, seen>>

\* process_exit: proc = process_current().
BeginExit ==
  /\ Goto("idle", "terminate")
  /\ victim' = current
  /\ UNCHANGED <<vars, start, i, next, seen>>

\* proc->state = PROC_STATE_TERMINATED, then the call of process_schedule.
ExitTerminate ==
  /\ Goto("terminate", "enter")
  /\ state' = [state EXCEPT ![victim] = "TERMINATED"]
  /\ UNCHANGED <<ticks, current, Rest, victim, start, i, next, seen>>

\* process_kill up to the new state of the entry; a tick neither takes an
\* entry into use nor frees one, so the checks before it are part of the step.
BeginKill(pid) ==
  /\ pid # 0 /\ state[pid] # "UNUSED"
  /\ Goto("idle", "check")
  /\ victim' = pid
  /\ state' = [state EXCEPT ![pid] = "TERMINATED"]
  /\ UNCHANGED <<ticks, current, Rest, start, i, next, seen>>

\* if (g_current_pid == pid) process_schedule();
KillCheck ==
  /\ pc = "check"
  /\ pc' = IF current = victim THEN "enter" ELSE "idle"
  /\ UNCHANGED <<vars, victim, start, i, next, seen>>

-----------------------------------------------------------------------------
(* process_schedule and process_find_next.                                 *)

\* next_pid = (g_current_pid + 1) % MAX_PROCESSES
FindNextEnter ==
  /\ Goto("enter", "scan")
  /\ start' = (current + 1) % MaxProcesses
  /\ i' = 0
  /\ UNCHANGED <<vars, victim, next, seen>>

\* Fault: the loop takes any entry that is not running.
ScanTakesIdle ==
  LET p == (start + i) % MaxProcesses
  IN  /\ pc = "scan"
      /\ IF state[p] # "RUNNING"
           THEN pc' = "demote" /\ next' = p /\ UNCHANGED i
           ELSE /\ pc' = IF i = MaxProcesses - 1 THEN "fallback" ELSE "scan"
                /\ i' = IF i = MaxProcesses - 1 THEN i ELSE i + 1
                /\ UNCHANGED next
      /\ UNCHANGED <<vars, victim, start, seen>>

\* One iteration of the loop, which leaves at the first READY entry.
FindNextScan ==
  LET p == (start + i) % MaxProcesses
  IN  /\ pc = "scan"
      /\ IF state[p] = "READY"
           THEN pc' = "demote" /\ next' = p /\ UNCHANGED i
           ELSE /\ pc' = IF i = MaxProcesses - 1 THEN "fallback" ELSE "scan"
                /\ i' = IF i = MaxProcesses - 1 THEN i ELSE i + 1
                /\ UNCHANGED next
      /\ UNCHANGED <<vars, victim, start, seen>>

\* Nothing was READY: the entry of g_current_pid, its state, and g_current_pid
\* again if that is READY by now, else the kernel.
FindNextFallback ==
  /\ Goto("fallback", "fallback_state")
  /\ seen' = current
  /\ UNCHANGED <<vars, victim, start, i, next>>

FallbackState ==
  /\ pc = "fallback_state"
  /\ IF state[seen] = "READY"
       THEN pc' = "fallback_again" /\ UNCHANGED next
       ELSE pc' = "demote" /\ next' = 0
  /\ UNCHANGED <<vars, victim, start, i, seen>>

FallbackAgain ==
  /\ Goto("fallback_again", "demote")
  /\ next' = current
  /\ UNCHANGED <<vars, victim, start, i, seen>>

\* current = process_current(); its state is read, and READY is stored if it
\* was RUNNING.
Demote ==
  /\ Goto("demote", "demote_state")
  /\ seen' = current
  /\ UNCHANGED <<vars, victim, start, i, next>>

DemoteState ==
  /\ pc = "demote_state"
  /\ pc' = IF seen # 0 /\ state[seen] = "RUNNING" THEN "demote_store" ELSE "setpid"
  /\ UNCHANGED <<vars, victim, start, i, next, seen>>

DemoteStore ==
  /\ Goto("demote_store", "setpid")
  /\ state' = [state EXCEPT ![seen] = "READY"]
  /\ UNCHANGED <<ticks, current, Rest, victim, start, i, next, seen>>

\* g_current_pid = next->pid
SetPid ==
  /\ Goto("setpid", "setstate")
  /\ current' = next
  /\ UNCHANGED <<state, ticks, Rest, victim, start, i, next, seen>>

\* next->state = PROC_STATE_RUNNING
SetState ==
  /\ Goto("setstate", "setticks")
  /\ state' = [state EXCEPT ![next] = "RUNNING"]
  /\ UNCHANGED <<ticks, current, Rest, victim, start, i, next, seen>>

\* Fault: the new slice is not given out.
SetNoTicks ==
  /\ Goto("setticks", "idle")
  /\ UNCHANGED <<vars, victim, start, i, next, seen>>

\* next->ticks = PROCESS_TIME_SLICE
SetTicks ==
  /\ Goto("setticks", "idle")
  /\ ticks' = [ticks EXCEPT ![next] = TimeSlice]
  /\ UNCHANGED <<state, current, Rest, victim, start, i, next, seen>>

Tick == process_tick /\ UNCHANGED call

CallStep ==
  \/ \E prio \in Priorities : SpawnFill(prio)
  \/ ExitTerminate \/ KillCheck
  \/ FindNextEnter \/ FindNextScan
  \/ FindNextFallback \/ FallbackState \/ FallbackAgain
  \/ Demote \/ DemoteState \/ DemoteStore
  \/ SetPid \/ SetState \/ SetTicks

RaceNext ==
  \/ BeginSpawn
  \/ BeginExit
  \/ \E pid \in Pids : BeginKill(pid)
  \/ CallStep
  \/ Tick

\* The timer keeps ticking and a call that has begun runs on.
RaceSpec == RaceInit /\ [][RaceNext]_rvars /\ WF_rvars(Tick) /\ WF_rvars(CallStep)

-----------------------------------------------------------------------------
(* Properties.                                                             *)

\* Whatever ticks a call is interrupted by, once it has returned the current
\* process is RUNNING and has time left, so process_tick has a slice to
\* count down and never finds a terminated process with the CPU.
CurrentRunsAfterCall ==
  pc = "idle" => state[current] = "RUNNING" /\ ticks[current] > 0

\* A process that is terminated before process_find_next looks at its entry
\* is not revived by the rest of the interrupted call, nor by a tick.
RaceDeadStaysDead ==
  [][\A p \in Pids \ {0} : state[p] = "TERMINATED" => state'[p] = "TERMINATED"]_rvars

\* READY processes keep getting the CPU when calls and ticks interleave.
RaceReadyEventuallyRuns ==
  \A p \in Pids : state[p] = "READY" ~> state[p] # "READY"

\* "Switch state: current -> READY, next -> RUNNING" (process.c:229): once
\* no call is under way, no user process but the current one is RUNNING.
SwitchedProcessIsReady ==
  pc = "idle" => \A p \in Pids \ {0} : state[p] = "RUNNING" => p = current
=============================================================================
