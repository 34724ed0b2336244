--------------------------- MODULE ProcessProofs ----------------------------
(***************************************************************************)
(* Proofs about the processes and what they share.  The process manager,   *)
(* modules Process and ScheduleRace: for every table size, time slice and  *)
(* set of priorities.  The heap, the pipes and the message queues, modules *)
(* Heap, Pipes, Queues and their composition MCIpc: for every number and   *)
(* size of pipes and queues and every set of messages and requests.        *)
(***************************************************************************)
EXTENDS MCIpc, ScheduleRace, TLAPS

-----------------------------------------------------------------------------
(* The process manager.                                                    *)

\* The inductive invariant: the three invariants of Process, and the fact
\* that the kernel's entry is never READY, which they need because entry 0
\* is what process_find_next falls back on.
IInv ==
  /\ TypeOK
  /\ OnlyCurrentRuns
  /\ SlotsFillUpwards
  /\ state[0] \in {"RUNNING", "TERMINATED"}

-----------------------------------------------------------------------------
\* What one call of process_schedule does, for a table st that differs from
\* the current one at most in a termination: it leaves a well-typed table in
\* which the new current process, and besides the kernel only that one, runs.
LEMMA ScheduleCorrect ==
  ASSUME IInv,
         NEW st \in [Pids -> States], NEW tk \in [Pids -> 0..TimeSlice],
         \A p \in Pids \ {current} : st[p] = state[p],
         st[current] \in {"RUNNING", "TERMINATED"},
         process_schedule(st, tk)
  PROVE  /\ state' \in [Pids -> States]
         /\ ticks' \in [Pids -> 0..TimeSlice]
         /\ current' \in Pids
         /\ OnlyCurrentRuns'
         /\ state'[0] \in {"RUNNING", "TERMINATED"}
         /\ \A p \in Pids \ {0} : state'[p] = "UNUSED" <=> state[p] = "UNUSED"
<1>1. PICK nxt \in Pids :
        /\ process_find_next(st, current, nxt)
        /\ state' = [st EXCEPT ![current] = IF current # 0 /\ @ = "RUNNING" THEN "READY" ELSE @,
                               ![nxt] = "RUNNING"]
        /\ current' = nxt
        /\ ticks' = [tk EXCEPT ![nxt] = TimeSlice]
  BY DEF process_schedule
<1>2. /\ current \in Pids /\ 0 \in Pids
      /\ state \in [Pids -> States]
      /\ state[current] = "RUNNING"
      /\ \A p \in Pids \ {0} : state[p] = "RUNNING" => p = current
      /\ state[0] \in {"RUNNING", "TERMINATED"}
      /\ TimeSlice \in 0..TimeSlice /\ TimeSlice > 0
  BY ProcessAssumption DEF IInv, TypeOK, OnlyCurrentRuns, Pids
<1>3. nxt = 0 \/ st[nxt] = "READY"
  BY <1>1 DEF process_find_next
<1>4. st[0] \in {"RUNNING", "TERMINATED"}
  BY <1>2
<1>5. /\ state' \in [Pids -> States]
      /\ ticks' \in [Pids -> 0..TimeSlice]
      /\ current' \in Pids
  BY <1>1, <1>2 DEF States
<1>6. OnlyCurrentRuns'
  BY <1>1, <1>2, <1>3 DEF OnlyCurrentRuns, States
<1>7. state'[0] \in {"RUNNING", "TERMINATED"}
  BY <1>1, <1>2, <1>4 DEF States
<1>8. \A p \in Pids \ {0} : state'[p] = "UNUSED" <=> state[p] = "UNUSED"
  BY <1>1, <1>2, <1>3 DEF States
<1> QED BY <1>5, <1>6, <1>7, <1>8

\* The allocator's invariant speaks only of which entries are unused.
LEMMA SlotsUnchanged ==
  ASSUME SlotsFillUpwards, UNCHANGED next_pid,
         \A p \in Pids \ {0} : state'[p] = "UNUSED" <=> state[p] = "UNUSED"
  PROVE  SlotsFillUpwards'
<1>1. {p \in Pids \ {0} : state'[p] # "UNUSED"} = {p \in Pids \ {0} : state[p] # "UNUSED"}
  OBVIOUS
<1> QED BY <1>1 DEF SlotsFillUpwards, Pids

\* A successful spawn takes entry g_next_pid, and the used entries stay an
\* initial segment of the table.
LEMMA SpawnSlots ==
  ASSUME IInv, NEW pid \in Pids, process_allocate_pid(pid),
         state' = [state EXCEPT ![pid] = "READY"]
  PROVE  /\ pid = next_pid
         /\ state[pid] = "UNUSED"
         /\ next_pid' \in 1 .. MaxProcesses - 1
         /\ SlotsFillUpwards'
<1> DEFINE used == {p \in Pids \ {0} : state[p] # "UNUSED"}
<1>1. /\ next_pid \in 1 .. MaxProcesses - 1
      /\ MaxProcesses \in Nat /\ MaxProcesses > 1
      /\ state \in [Pids -> States]
      /\ used = 1 .. next_pid - 1 \/ (next_pid = 1 /\ used = Pids \ {0})
  BY ProcessAssumption DEF IInv, TypeOK, SlotsFillUpwards
<1>2. /\ pid \in FreeSlots /\ (\A q \in FreeSlots : pid <= q)
      /\ next_pid' = IF pid < next_pid THEN next_pid
                     ELSE IF pid + 1 >= MaxProcesses THEN 1 ELSE pid + 1
  BY DEF process_allocate_pid
<1>3. pid \in 1 .. MaxProcesses - 1 /\ state[pid] = "UNUSED"
  BY <1>1, <1>2 DEF FreeSlots
<1>4. used = 1 .. next_pid - 1
  BY <1>1, <1>3 DEF Pids
<1>5. next_pid \in FreeSlots /\ pid >= next_pid
  BY <1>1, <1>3, <1>4 DEF FreeSlots, Pids
<1>6. pid = next_pid
  BY <1>1, <1>2, <1>3, <1>5
<1>7. {p \in Pids \ {0} : state'[p] # "UNUSED"} = 1 .. next_pid
  BY <1>1, <1>4, <1>6 DEF Pids, States
<1>8. next_pid' = IF next_pid + 1 >= MaxProcesses THEN 1 ELSE next_pid + 1
  BY <1>1, <1>2, <1>6
<1>9. SlotsFillUpwards'
  BY <1>1, <1>7, <1>8 DEF SlotsFillUpwards, Pids
<1> QED BY <1>1, <1>3, <1>6, <1>8, <1>9

-----------------------------------------------------------------------------
\* The counter g_process_count stays a byte, whichever way it moves.
LEMMA CountByte ==
  ASSUME NEW n \in 0..255
  PROVE  (n + 1) % 256 \in 0..255 /\ (n - 1) % 256 \in 0..255
  OBVIOUS

\* Only the kernel runs at boot.
LEMMA InitIInv == Init => IInv
<1> SUFFICES ASSUME Init PROVE IInv
  OBVIOUS
<1>1. TypeOK
  BY ProcessAssumption DEF Init, TypeOK, Pids, States
<1>2. OnlyCurrentRuns
  BY ProcessAssumption DEF Init, OnlyCurrentRuns, Pids
<1>3. {p \in Pids \ {0} : state[p] # "UNUSED"} = {}
  BY DEF Init
<1>4. SlotsFillUpwards
  BY <1>3 DEF Init, SlotsFillUpwards
<1> QED BY <1>1, <1>2, <1>4, ProcessAssumption DEF IInv, Init, Pids

\* Every call and every tick keeps the invariant.
LEMMA NextIInv == IInv /\ [Next]_vars => IInv'
<1> SUFFICES ASSUME IInv, [Next]_vars PROVE IInv'
  OBVIOUS
<1>0. /\ TypeOK /\ OnlyCurrentRuns /\ SlotsFillUpwards
      /\ state[0] \in {"RUNNING", "TERMINATED"}
      /\ 0 \in Pids /\ MaxProcesses \in Nat /\ TimeSlice \in 1..255
  BY ProcessAssumption DEF IInv, Pids
<1>1. ASSUME NEW prio \in Priorities, process_spawn(prio) PROVE IInv'
  <2>1. PICK pid \in Pids :
          /\ process_allocate_pid(pid)
          /\ state' = [state EXCEPT ![pid] = "READY"]
          /\ priority' = [priority EXCEPT ![pid] = prio]
          /\ ticks' = [ticks EXCEPT ![pid] = TimeSlice]
          /\ count' = (count + 1) % 256
          /\ UNCHANGED current
    BY <1>1 DEF process_spawn
  <2>2. /\ state[pid] = "UNUSED"
        /\ next_pid' \in 1 .. MaxProcesses - 1
        /\ SlotsFillUpwards'
    BY <2>1, SpawnSlots
  <2>c. count' \in 0..255
    BY ONLY <1>0, <2>1, CountByte DEF TypeOK
  <2>d. TimeSlice \in 0..TimeSlice /\ "READY" \in States
    BY <1>0 DEF States
  <2>e. /\ state' \in [Pids -> States] /\ ticks' \in [Pids -> 0..TimeSlice]
        /\ priority' \in [Pids -> 0..255] /\ current' \in Pids
    BY ONLY <1>0, <1>1, <2>1, <2>d, ProcessAssumption DEF TypeOK
  <2>3. TypeOK'
    BY <2>2, <2>c, <2>e DEF TypeOK
  <2>4. OnlyCurrentRuns'
    BY <1>0, <2>1, <2>2 DEF TypeOK, OnlyCurrentRuns
  <2>5. state'[0] \in {"RUNNING", "TERMINATED"}
    BY <1>0, <2>1, <2>2 DEF TypeOK
  <2> QED BY <2>2, <2>3, <2>4, <2>5 DEF IInv
<1>2. CASE process_exit
  <2> DEFINE st == [state EXCEPT ![current] = "TERMINATED"]
  <2>1. /\ st \in [Pids -> States] /\ ticks \in [Pids -> 0..TimeSlice]
        /\ \A p \in Pids \ {current} : st[p] = state[p]
        /\ st[current] \in {"RUNNING", "TERMINATED"}
    BY <1>0 DEF TypeOK, States
  <2>2. process_schedule(st, ticks) /\ count' = (count - 1) % 256 /\ UNCHANGED <<priority, next_pid>>
    BY <1>2 DEF process_exit
  <2>c. count' \in 0..255
    BY ONLY <1>0, <2>2, CountByte DEF TypeOK
  <2> HIDE DEF st
  <2>3. QED BY <1>0, <2>1, <2>2, <2>c, ScheduleCorrect, SlotsUnchanged DEF IInv, TypeOK
<1>3. ASSUME NEW pid \in Pids, process_kill(pid) PROVE IInv'
  <2> DEFINE st == [state EXCEPT ![pid] = "TERMINATED"]
  <2>c. count' = IF count > 0 THEN count - 1 ELSE 0
    BY <1>3 DEF process_kill
  <2>d. count' \in 0..255
    BY ONLY <1>0, <2>c DEF TypeOK
  <2>1. /\ pid # 0 /\ state[pid] # "UNUSED"
        /\ count' \in 0..255 /\ UNCHANGED <<priority, next_pid>>
    BY <1>0, <1>3, <2>d DEF process_kill, TypeOK
  <2>2. st \in [Pids -> States] /\ ticks \in [Pids -> 0..TimeSlice]
    BY <1>0 DEF TypeOK, States
  <2>3. CASE current = pid
    <3>1. /\ process_schedule(st, ticks)
          /\ \A p \in Pids \ {current} : st[p] = state[p]
          /\ st[current] \in {"RUNNING", "TERMINATED"}
      BY <1>0, <1>3, <2>3 DEF process_kill, TypeOK
    <3> HIDE DEF st
    <3> QED BY <1>0, <2>1, <2>2, <3>1, ScheduleCorrect, SlotsUnchanged DEF IInv, TypeOK
  <2>4. CASE current # pid
    <3>1. state' = st /\ UNCHANGED <<current, ticks>>
      BY <1>3, <2>4 DEF process_kill
    <3>2. TypeOK' /\ OnlyCurrentRuns' /\ state'[0] \in {"RUNNING", "TERMINATED"}
      BY <1>0, <2>1, <2>2, <2>4, <3>1 DEF TypeOK, OnlyCurrentRuns
    <3>3. SlotsFillUpwards'
      BY <1>0, <2>1, <3>1, SlotsUnchanged DEF TypeOK
    <3> QED BY <3>2, <3>3 DEF IInv
  <2> QED BY <2>3, <2>4
<1>4. CASE process_tick
  <2> DEFINE tk == [ticks EXCEPT ![current] = IF @ > 0 THEN @ - 1 ELSE 0]
  <2>1. tk \in [Pids -> 0..TimeSlice] /\ UNCHANGED <<priority, count, next_pid>>
    BY <1>0, <1>4 DEF TypeOK, process_tick
  <2>2. CASE tk[current] = 0
    <3>1. process_schedule(state, tk)
      BY <1>4, <2>2 DEF process_tick
    <3> HIDE DEF tk
    <3>2. state \in [Pids -> States] /\ state[current] = "RUNNING"
      BY <1>0 DEF TypeOK, OnlyCurrentRuns
    <3> QED BY <1>0, <2>1, <3>1, <3>2, ScheduleCorrect, SlotsUnchanged DEF IInv, TypeOK
  <2>3. CASE tk[current] # 0
    <3>1. ticks' = tk /\ UNCHANGED <<state, current>>
      BY <1>4, <2>3 DEF process_tick
    <3>2. tk[current] > 0
      BY <1>0, <2>1, <2>3 DEF TypeOK
    <3> HIDE DEF tk
    <3> QED BY <1>0, <2>1, <3>1, <3>2 DEF IInv, TypeOK, OnlyCurrentRuns, SlotsFillUpwards
  <2> QED BY <2>2, <2>3
<1>5. CASE UNCHANGED vars
  BY <1>0, <1>5 DEF vars, IInv, TypeOK, OnlyCurrentRuns, SlotsFillUpwards
<1> QED BY <1>1, <1>2, <1>3, <1>4, <1>5 DEF Next

\* The process table is well typed in every reachable state of the process
\* manager: no PID leaves the table, no slice grows past TimeSlice, and
\* g_process_count and g_next_pid keep their ranges.
THEOREM TypeCorrect == Spec => []TypeOK
BY InitIInv, NextIInv, PTL DEF Spec, IInv

\* After every call the current process, and besides the kernel only that
\* one, is RUNNING, with time left in its slice.
THEOREM OnlyCurrentRunsAlways == Spec => []OnlyCurrentRuns
BY InitIInv, NextIInv, PTL DEF Spec, IInv

\* Entries are used from the bottom up and never freed, so process_spawn can
\* succeed at most MaxProcesses - 1 times.
THEOREM SlotsFillUpwardsAlways == Spec => []SlotsFillUpwards
BY InitIInv, NextIInv, PTL DEF Spec, IInv

-----------------------------------------------------------------------------
\* What a step may not do, gathered in one action.
FairStep ==
  /\ \A p \in Pids : state[p] = "READY" /\ state'[p] = "READY" /\ current' # current
       => ScanPosition(current', p) < ScanPosition(current, p)
  /\ current # 0 /\ current' = 0 => \A p \in Pids : state[p] # "READY"
  /\ \A p \in Pids \ {0} : state[p] = "TERMINATED" => state'[p] = "TERMINATED"

\* process_schedule takes the first READY process in scan order, so every
\* other READY process comes closer; it falls back on the kernel only when
\* the scan finds nothing.
LEMMA ScheduleFair ==
  ASSUME IInv,
         NEW st \in [Pids -> States], NEW tk \in [Pids -> 0..TimeSlice],
         \A p \in Pids \ {current} : st[p] = state[p],
         process_schedule(st, tk)
  PROVE  FairStep
<1>1. PICK nxt \in Pids :
        /\ process_find_next(st, current, nxt)
        /\ state' = [st EXCEPT ![current] = IF current # 0 /\ @ = "RUNNING" THEN "READY" ELSE @,
                               ![nxt] = "RUNNING"]
        /\ current' = nxt
  BY DEF process_schedule
<1>2. /\ MaxProcesses \in Nat /\ current \in Pids /\ 0 \in Pids
      /\ state \in [Pids -> States]
      /\ state[current] = "RUNNING"
      /\ state[0] \in {"RUNNING", "TERMINATED"}
  BY ProcessAssumption DEF IInv, TypeOK, OnlyCurrentRuns, Pids
<1>3. ASSUME NEW p \in Pids, state[p] = "READY", state'[p] = "READY", current' # current
      PROVE  ScanPosition(current', p) < ScanPosition(current, p)
  <2>1. p # current /\ st[p] = "READY" /\ p # nxt
    BY <1>1, <1>2, <1>3
  <2>2. ScanPosition(current, nxt) <= ScanPosition(current, p)
    BY <1>1, <2>1 DEF process_find_next
  <2> QED BY <1>1, <1>2, <1>3, <2>1, <2>2 DEF ScanPosition, Pids
<1>4. ASSUME current # 0, current' = 0, NEW p \in Pids, state[p] = "READY"
      PROVE  FALSE
  <2>1. nxt = 0 /\ st[0] = state[0] /\ p # current /\ st[p] = "READY"
    BY <1>1, <1>2, <1>4
  <2> QED BY <1>1, <1>2, <2>1 DEF process_find_next
<1>5. ASSUME NEW p \in Pids \ {0}, state[p] = "TERMINATED"
      PROVE  state'[p] = "TERMINATED"
  <2>1. p # current /\ st[p] = "TERMINATED"
    BY <1>2, <1>5
  <2>2. nxt # p
    BY <1>1, <1>5, <2>1 DEF process_find_next
  <2> QED BY <1>1, <1>2, <2>1, <2>2
<1> QED BY <1>3, <1>4, <1>5 DEF FairStep

\* Every step chooses as process_find_next does, or leaves the choice alone.
LEMMA NextFair == IInv /\ [Next]_vars => [FairStep]_vars
<1> SUFFICES ASSUME IInv, Next PROVE FairStep
  OBVIOUS
<1>0. TypeOK /\ OnlyCurrentRuns
  BY DEF IInv
<1>1. ASSUME NEW prio \in Priorities, process_spawn(prio) PROVE FairStep
  <2>1. PICK pid \in Pids :
          /\ process_allocate_pid(pid)
          /\ state' = [state EXCEPT ![pid] = "READY"]
          /\ UNCHANGED current
    BY <1>1 DEF process_spawn
  <2>2. state[pid] = "UNUSED"
    BY <2>1, SpawnSlots
  <2> QED BY <1>0, <2>1, <2>2 DEF FairStep, TypeOK
<1>2. CASE process_exit
  <2> DEFINE st == [state EXCEPT ![current] = "TERMINATED"]
  <2>1. /\ st \in [Pids -> States] /\ ticks \in [Pids -> 0..TimeSlice]
        /\ \A p \in Pids \ {current} : st[p] = state[p]
        /\ process_schedule(st, ticks)
    BY <1>0, <1>2 DEF TypeOK, States, process_exit
  <2> HIDE DEF st
  <2> QED BY <2>1, ScheduleFair
<1>3. ASSUME NEW pid \in Pids, process_kill(pid) PROVE FairStep
  <2> DEFINE st == [state EXCEPT ![pid] = "TERMINATED"]
  <2>1. st \in [Pids -> States] /\ ticks \in [Pids -> 0..TimeSlice]
    BY <1>0 DEF TypeOK, States
  <2>2. CASE current = pid
    <3>1. process_schedule(st, ticks) /\ \A p \in Pids \ {current} : st[p] = state[p]
      BY <1>0, <1>3, <2>2 DEF process_kill, TypeOK
    <3> HIDE DEF st
    <3> QED BY <2>1, <3>1, ScheduleFair
  <2>3. CASE current # pid
    BY <1>0, <1>3, <2>3 DEF process_kill, FairStep, TypeOK
  <2> QED BY <2>2, <2>3
<1>4. CASE process_tick
  <2> DEFINE tk == [ticks EXCEPT ![current] = IF @ > 0 THEN @ - 1 ELSE 0]
  <2>1. tk \in [Pids -> 0..TimeSlice] /\ state \in [Pids -> States]
    BY <1>0, ProcessAssumption DEF TypeOK
  <2>2. process_schedule(state, tk) \/ UNCHANGED <<state, current>>
    BY <1>4 DEF process_tick
  <2> HIDE DEF tk
  <2> QED BY <2>1, <2>2, ScheduleFair DEF FairStep
<1> QED BY <1>1, <1>2, <1>3, <1>4 DEF Next

\* No READY process is passed over: each switch brings the scan closer to it.
THEOREM NoOvertakingAlways == Spec => NoOvertaking
<1>1. [FairStep]_vars => [\A p \in Pids : state[p] = "READY" /\ state'[p] = "READY" /\ current' # current
                            => ScanPosition(current', p) < ScanPosition(current, p)]_vars
  BY DEF FairStep
<1> QED BY <1>1, InitIInv, NextIInv, NextFair, PTL DEF Spec, NoOvertaking

\* The kernel takes the CPU from a user process only if nothing is READY.
THEOREM KernelIsLastResortAlways == Spec => KernelIsLastResort
<1>1. [FairStep]_vars => [current # 0 /\ current' = 0 => \A p \in Pids : state[p] # "READY"]_vars
  BY DEF FairStep
<1> QED BY <1>1, InitIInv, NextIInv, NextFair, PTL DEF Spec, KernelIsLastResort

\* A terminated process is never scheduled again nor its entry given away.
THEOREM DeadStaysDeadAlways == Spec => DeadStaysDead
<1>1. [FairStep]_vars => [\A p \in Pids \ {0} : state[p] = "TERMINATED" => state'[p] = "TERMINATED"]_vars
  BY DEF FairStep
<1> QED BY <1>1, InitIInv, NextIInv, NextFair, PTL DEF Spec, DeadStaysDead

-----------------------------------------------------------------------------
(* Calls of the process manager preempted by the timer.                    *)

\* The current process may go on: what process_schedule leaves.
Good == state[current] = "RUNNING" /\ ticks[current] > 0

\* Where a tick may find a call.
PreemptionPoints ==
  {"idle", "fill", "terminate", "check", "enter", "scan",
   "fallback", "fallback_state", "fallback_again",
   "demote", "demote_state", "demote_store", "setpid", "setstate", "setticks"}

RaceTypeOK ==
  /\ state \in [Pids -> States] /\ ticks \in [Pids -> 0..TimeSlice]
  /\ current \in Pids /\ victim \in Pids /\ next \in Pids
  /\ start \in Pids /\ i \in Pids /\ seen \in Pids
  /\ pc \in PreemptionPoints

\* What the call in progress relies on at each point, whatever ticks came
\* before: the entry it selected is alive, or the kernel's, and so is the one
\* it is about to make READY; an entry it has read g_current_pid for is still
\* current or a tick has switched; and before the termination and after
\* g_current_pid is set, either the current process may go on or the rest of
\* the call sees to it.
CallOK ==
  /\ pc \in {"idle", "fill", "terminate"} => Good
  /\ pc = "check" => state[victim] = "TERMINATED" /\ victim # 0 /\ (current = victim \/ Good)
  /\ pc = "fallback_state" => current = seen \/ Good
  /\ pc = "fallback_again" => state[current] \in {"READY", "RUNNING"}
  /\ pc = "demote_store" => seen # 0 /\ state[seen] \in {"READY", "RUNNING"}
  /\ pc \in {"demote", "demote_state", "demote_store", "setpid", "setstate"} =>
       next = 0 \/ state[next] \in {"READY", "RUNNING"}
  /\ pc = "setstate" => current = next \/ Good
  /\ pc = "setticks" => state[current] = "RUNNING" /\ (current = next \/ Good)

\* The inductive invariant of calls and ticks.
RaceIInv == RaceTypeOK /\ CallOK

\* process_schedule called by a tick switches to a READY process or to the
\* kernel, demotes at most the current one and gives the new one a slice.
LEMMA TickSwitches ==
  ASSUME RaceTypeOK, process_tick
  PROVE  /\ state' \in [Pids -> States] /\ ticks' \in [Pids -> 0..TimeSlice] /\ current' \in Pids
         /\ \A p \in Pids \ {0} : \/ state'[p] = state[p]
                                  \/ {state[p], state'[p]} \subseteq {"READY", "RUNNING"}
         /\ Good' \/ (state' = state /\ current' = current /\ ticks'[current] > 0)
<1> USE ProcessAssumption DEF RaceTypeOK
<1> DEFINE tk == [ticks EXCEPT ![current] = IF @ > 0 THEN @ - 1 ELSE 0]
<1>1. tk \in [Pids -> 0..TimeSlice] /\ 0 \in Pids
  BY DEF Pids
<1>2. CASE tk[current] # 0
  <2>1. ticks' = tk /\ state' = state /\ current' = current
    BY <1>2 DEF process_tick
  <2> QED BY <1>1, <1>2, <2>1
<1>3. CASE tk[current] = 0
  <2>1. PICK nxt \in Pids :
          /\ process_find_next(state, current, nxt)
          /\ state' = [state EXCEPT ![current] = IF current # 0 /\ @ = "RUNNING" THEN "READY" ELSE @,
                                    ![nxt] = "RUNNING"]
          /\ current' = nxt
          /\ ticks' = [tk EXCEPT ![nxt] = TimeSlice]
    BY <1>3 DEF process_tick, process_schedule
  <2>2. nxt = 0 \/ state[nxt] = "READY"
    BY <2>1 DEF process_find_next
  <2>3. state' \in [Pids -> States] /\ state'[nxt] = "RUNNING"
    BY <2>1 DEF States
  <2>4. ticks' \in [Pids -> 0..TimeSlice] /\ ticks'[nxt] > 0
    BY <1>1, <2>1
  <2>5. \A p \in Pids \ {0} : \/ state'[p] = state[p]
                              \/ {state[p], state'[p]} \subseteq {"READY", "RUNNING"}
    BY <2>1, <2>2
  <2> QED BY <2>1, <2>3, <2>4, <2>5 DEF Good
<1> QED BY <1>2, <1>3

\* No call is under way at boot, and the kernel runs.
LEMMA RaceInitIInv == RaceInit => RaceIInv
  BY ProcessAssumption
     DEF RaceInit, Init, RaceIInv, RaceTypeOK, CallOK, Good, PreemptionPoints, Pids, States

\* A tick keeps what the interrupted call relies on.
LEMMA TickRace == ASSUME RaceIInv, Tick PROVE RaceIInv'
<1>1. /\ state' \in [Pids -> States] /\ ticks' \in [Pids -> 0..TimeSlice] /\ current' \in Pids
      /\ \A p \in Pids \ {0} : \/ state'[p] = state[p]
                               \/ {state[p], state'[p]} \subseteq {"READY", "RUNNING"}
      /\ Good' \/ (state' = state /\ current' = current /\ ticks'[current] > 0)
      /\ UNCHANGED call
  BY TickSwitches DEF RaceIInv, Tick
<1>2. RaceTypeOK'
  BY <1>1 DEF RaceIInv, RaceTypeOK, call
<1>3. CallOK'
  <2>1. CASE state' = state /\ current' = current /\ ticks'[current] > 0
    BY <1>1, <2>1 DEF RaceIInv, RaceTypeOK, CallOK, call, Good
  <2>2. CASE Good'
    BY <1>1, <2>2 DEF RaceIInv, RaceTypeOK, CallOK, call, Good
  <2> QED BY <1>1, <2>1, <2>2
<1> QED BY <1>2, <1>3 DEF RaceIInv

\* Every step of the interrupted call keeps it, too.
LEMMA CallRace ==
  ASSUME RaceIInv, BeginSpawn \/ BeginExit \/ (\E pid \in Pids : BeginKill(pid)) \/ CallStep
  PROVE  RaceIInv'
<1> USE ProcessAssumption DEF RaceIInv, RaceTypeOK, CallOK, Good, Goto, PreemptionPoints, vars
<1>0. 0 \in Pids /\ TimeSlice \in Nat \ {0} /\ \A p \in Pids : (p + 1) % MaxProcesses \in Pids
  BY DEF Pids
<1>1. CASE BeginSpawn
  BY <1>1 DEF BeginSpawn, process_allocate_pid, FreeSlots, States
<1>2. CASE BeginExit
  BY <1>2 DEF BeginExit
<1>3. CASE \E pid \in Pids : BeginKill(pid)
  BY <1>3 DEF BeginKill, States
<1>4. CASE \E prio \in Priorities : SpawnFill(prio)
  BY <1>4, <1>0 DEF SpawnFill
<1>5. CASE ExitTerminate
  BY <1>5 DEF ExitTerminate, States
<1>6. CASE KillCheck
  BY <1>6 DEF KillCheck
<1>7. CASE FindNextEnter
  BY <1>7, <1>0 DEF FindNextEnter
<1>8. CASE FindNextScan
  <2>1. (start + i) % MaxProcesses \in Pids /\ (i # MaxProcesses - 1 => i + 1 \in Pids)
    BY DEF Pids
  <2> QED BY <1>8, <2>1 DEF FindNextScan
<1>9. CASE FindNextFallback \/ FallbackState \/ FallbackAgain
  BY <1>9, <1>0 DEF FindNextFallback, FallbackState, FallbackAgain
<1>10. CASE Demote \/ DemoteState \/ DemoteStore
  BY <1>10 DEF Demote, DemoteState, DemoteStore, States
<1>11. CASE SetPid
  BY <1>11 DEF SetPid
<1>12. CASE SetState
  BY <1>12 DEF SetState, States
<1>13. CASE SetTicks
  BY <1>13, <1>0 DEF SetTicks
<1> QED BY <1>1, <1>2, <1>3, <1>4, <1>5, <1>6, <1>7, <1>8, <1>9, <1>10, <1>11, <1>12, <1>13 DEF CallStep

\* Every step of calls and ticks keeps the invariant.
LEMMA RaceNextIInv == RaceIInv /\ [RaceNext]_rvars => RaceIInv'
<1>1. ASSUME RaceIInv, UNCHANGED rvars PROVE RaceIInv'
  BY <1>1 DEF RaceIInv, RaceTypeOK, CallOK, Good, rvars, vars, call
<1> QED BY <1>1, TickRace, CallRace DEF RaceNext

\* Whenever no call is under way the current process is RUNNING with time
\* left, wherever ticks have interrupted spawn, exit and kill.
THEOREM CallsLeaveCurrentRunning == RaceSpec => []CurrentRunsAfterCall
<1>1. RaceIInv => CurrentRunsAfterCall
  BY DEF RaceIInv, CallOK, Good, CurrentRunsAfterCall
<1> QED BY <1>1, RaceInitIInv, RaceNextIInv, PTL DEF RaceSpec

\* Neither the rest of an interrupted call nor a tick revives a process.
THEOREM RaceTerminationIsFinal == RaceSpec => RaceDeadStaysDead
<1>1. ASSUME RaceIInv, [RaceNext]_rvars
      PROVE  \A p \in Pids \ {0} : state[p] = "TERMINATED" => state'[p] = "TERMINATED"
  <2> SUFFICES ASSUME NEW p \in Pids \ {0}, state[p] = "TERMINATED" PROVE state'[p] = "TERMINATED"
    OBVIOUS
  <2>1. CASE Tick
    BY <1>1, <2>1, TickSwitches DEF RaceIInv, Tick
  <2>2. CASE BeginSpawn
    BY <1>1, <2>2 DEF BeginSpawn, process_allocate_pid, FreeSlots, RaceIInv, RaceTypeOK
  <2>3. CASE BeginExit \/ (\E prio \in Priorities : SpawnFill(prio)) \/ KillCheck \/ FindNextEnter
             \/ FindNextScan \/ FindNextFallback \/ FallbackState \/ FallbackAgain
             \/ Demote \/ DemoteState \/ SetPid \/ SetTicks \/ UNCHANGED rvars
    BY <2>3 DEF BeginExit, SpawnFill, KillCheck, FindNextEnter, FindNextScan, FindNextFallback,
                FallbackState, FallbackAgain, Demote, DemoteState, SetPid, SetTicks, rvars, vars
  <2>4. CASE ExitTerminate \/ \E pid \in Pids : BeginKill(pid)
    BY <1>1, <2>4 DEF ExitTerminate, BeginKill, RaceIInv, RaceTypeOK
  <2>5. CASE DemoteStore \/ SetState
    BY <1>1, <2>5 DEF DemoteStore, SetState, Goto, RaceIInv, RaceTypeOK, CallOK
  <2> QED BY <1>1, <2>1, <2>2, <2>3, <2>4, <2>5 DEF RaceNext, CallStep
<1>2. RaceIInv /\ [RaceNext]_rvars
        => [\A p \in Pids \ {0} : state[p] = "TERMINATED" => state'[p] = "TERMINATED"]_rvars
  BY <1>1
<1> QED BY <1>2, RaceInitIInv, RaceNextIInv, PTL DEF RaceSpec, RaceDeadStaysDead

-----------------------------------------------------------------------------
(* Sequences.                                                              *)

\* Sequences with the same elements are equal.
LEMMA SameBytes ==
  ASSUME NEW S, NEW s \in Seq(S), NEW t \in Seq(S), Len(s) = Len(t),
         \A k \in 1 .. Len(s) : s[k] = t[k]
  PROVE  s = t
  OBVIOUS

\* The elements of a concatenation.
LEMMA Joined ==
  ASSUME NEW S, NEW s \in Seq(S), NEW t \in Seq(S), NEW h \in Nat, NEW j \in Nat, Len(s) = h, Len(t) = j
  PROVE  /\ s \o t \in Seq(S) /\ Len(s \o t) = h + j
         /\ \A k \in 1 .. h + j : (s \o t)[k] = IF k <= h THEN s[k] ELSE t[k - h]
  OBVIOUS

\* The two pieces of what a send copies.
LEMMA FirstPiece ==
  ASSUME NEW S, NEW s \in Seq(S), NEW e \in 0 .. Len(s)
  PROVE  /\ SubSeq(s, 1, e) \in Seq(S) /\ Len(SubSeq(s, 1, e)) = e
         /\ \A k \in 1 .. e : SubSeq(s, 1, e)[k] = s[k]
<1>1. SubSeq(s, 1, e) \in Seq(S) /\ Len(SubSeq(s, 1, e)) = e
  OBVIOUS
<1>2. \A k \in 1 .. e : SubSeq(s, 1, e)[k] = s[k]
  OBVIOUS
<1> QED BY <1>1, <1>2

\* The second one begins behind the first.
LEMMA LastPiece ==
  ASSUME NEW S, NEW s \in Seq(S), NEW e \in 0 .. Len(s)
  PROVE  /\ SubSeq(s, e + 1, Len(s)) \in Seq(S) /\ Len(SubSeq(s, e + 1, Len(s))) = Len(s) - e
         /\ \A k \in 1 .. Len(s) - e : SubSeq(s, e + 1, Len(s))[k] = s[e + k]
<1>1. SubSeq(s, e + 1, Len(s)) \in Seq(S) /\ Len(SubSeq(s, e + 1, Len(s))) = Len(s) - e
  OBVIOUS
<1>2. \A k \in 1 .. Len(s) - e : SubSeq(s, e + 1, Len(s))[k] = s[e + k]
  OBVIOUS
<1> QED BY <1>1, <1>2

-----------------------------------------------------------------------------
(* The pipes.                                                              *)

\* The inductive invariant.
PipesIInv == PipesTypeOK /\ RingConsistent

\* NextCell stays in the buffer and is one step along the ring: a step of
\* the position of ipc_pipe_write or ipc_pipe_read moves what CellAt finds.
LEMMA RingStep ==
  ASSUME NEW pos \in Cells, NEW k \in 0 .. IPC_BUFFER_SIZE
  PROVE  /\ NextCell(pos) \in Cells
         /\ k < IPC_BUFFER_SIZE => CellAt(pos, k) \in Cells
         /\ k < IPC_BUFFER_SIZE => NextCell(CellAt(pos, k)) = CellAt(pos, k + 1)
         /\ k > 0 => CellAt(NextCell(pos), k - 1) = CellAt(pos, k)
  BY PipesAssumption DEF Cells, NextCell, CellAt

\* A window is a sequence of messages as long as the count.
LEMMA WindowSeq ==
  ASSUME NEW b \in [Cells -> Messages], NEW r \in Cells, NEW c \in 0 .. IPC_BUFFER_SIZE
  PROVE  /\ Window(b, r, c) \in Seq(Messages)
         /\ Len(Window(b, r, c)) = c
         /\ \A k \in 1 .. c : Window(b, r, c)[k] = b[CellAt(r, k - 1)]
<1>1. \A k \in 1 .. c : CellAt(r, k - 1) \in Cells
  BY PipesAssumption DEF Cells, CellAt
<1>2. \A k \in 1 .. c : b[CellAt(r, k - 1)] \in Messages
  BY <1>1
<1>3. c \in Nat
  BY PipesAssumption
<1>4. Window(b, r, c) \in [1 .. c -> Messages]
  BY <1>2 DEF Window
<1> QED BY <1>3, <1>4 DEF Window

\* Writing behind a window that does not fill the ring appends to it.
LEMMA WindowWrite ==
  ASSUME NEW b \in [Cells -> Messages], NEW r \in Cells,
         NEW c \in 0 .. IPC_BUFFER_SIZE - 1, NEW m \in Messages
  PROVE  Window([b EXCEPT ![CellAt(r, c)] = m], r, c + 1) = Window(b, r, c) \o <<m>>
<1> DEFINE b2 == [b EXCEPT ![CellAt(r, c)] = m]
           W == Window(b, r, c)
           W2 == Window(b2, r, c + 1)
<1>1. CellAt(r, c) \in Cells
  BY PipesAssumption DEF Cells, CellAt
<1>2. \A k \in 1 .. c : CellAt(r, k - 1) \in Cells /\ CellAt(r, k - 1) # CellAt(r, c)
  BY PipesAssumption DEF Cells, CellAt
<1>3. b2 \in [Cells -> Messages] /\ c \in 0 .. IPC_BUFFER_SIZE /\ c + 1 \in 0 .. IPC_BUFFER_SIZE
  BY <1>1, PipesAssumption
<1>4. b2[CellAt(r, c)] = m /\ \A k \in 1 .. c : b2[CellAt(r, k - 1)] = b[CellAt(r, k - 1)]
  BY <1>1, <1>2
<1> HIDE DEF b2
<1>5. W \in Seq(Messages) /\ Len(W) = c /\ \A k \in 1 .. c : W[k] = b[CellAt(r, k - 1)]
  BY <1>3, WindowSeq
<1>6. W2 \in Seq(Messages) /\ Len(W2) = c + 1 /\ \A k \in 1 .. c + 1 : W2[k] = b2[CellAt(r, k - 1)]
  BY <1>3, WindowSeq
<1> HIDE DEF W, W2
<1>7. <<m>> \in Seq(Messages) /\ Len(<<m>>) = 1 /\ <<m>>[1] = m
  OBVIOUS
<1>8. W \o <<m>> \in Seq(Messages) /\ Len(W \o <<m>>) = c + 1
  BY <1>5, <1>7, Joined
<1>9. \A k \in 1 .. c + 1 : (W \o <<m>>)[k] = IF k <= c THEN W[k] ELSE <<m>>[k - c]
  BY <1>5, <1>7, Joined
<1>10. ASSUME NEW k \in 1 .. c + 1 PROVE W2[k] = (W \o <<m>>)[k]
  <2>1. CASE k \in 1 .. c BY <2>1, <1>4, <1>5, <1>6, <1>9
  <2>2. CASE k = c + 1
    <3>1. k - 1 = c /\ k - c = 1 /\ ~(k <= c) BY <2>2, <1>3
    <3>2. W2[k] = m BY <3>1, <1>4, <1>6, Zenon
    <3>3. (W \o <<m>>)[k] = <<m>>[k - c] BY <3>1, <1>9, Zenon
    <3> QED BY <3>1, <3>2, <3>3, <1>7, Zenon
  <2>3. k \in 1 .. c \/ k = c + 1 BY PipesAssumption
  <2> QED BY <2>1, <2>2, <2>3, Zenon
<1>11. W2 = W \o <<m>>
  BY <1>6, <1>8, <1>10, SameBytes
<1> QED BY <1>11, Zenon DEF W, W2, b2

\* Reading takes the first message of a window and leaves the others.
LEMMA WindowRead ==
  ASSUME NEW b \in [Cells -> Messages], NEW r \in Cells, NEW c \in 1 .. IPC_BUFFER_SIZE
  PROVE  /\ SubSeq(Window(b, r, c), 1, 1) = <<b[r]>>
         /\ SubSeq(Window(b, r, c), 2, c) = Window(b, NextCell(r), c - 1)
<1> DEFINE W == Window(b, r, c)
           W2 == Window(b, NextCell(r), c - 1)
           H == SubSeq(W, 1, 1)
           T == SubSeq(W, 2, c)
<1>1. c \in 0 .. IPC_BUFFER_SIZE /\ c - 1 \in 0 .. IPC_BUFFER_SIZE /\ c \in Int
  BY PipesAssumption
<1>2. NextCell(r) \in Cells /\ CellAt(r, 0) = r
  BY PipesAssumption DEF Cells, NextCell, CellAt
<1>3. \A k \in 1 .. c - 1 : CellAt(NextCell(r), k - 1) = CellAt(r, k)
  BY PipesAssumption DEF Cells, NextCell, CellAt
<1>4. W \in Seq(Messages) /\ Len(W) = c /\ \A k \in 1 .. c : W[k] = b[CellAt(r, k - 1)]
  BY <1>1, WindowSeq
<1>5. W2 \in Seq(Messages) /\ Len(W2) = c - 1 /\ \A k \in 1 .. c - 1 : W2[k] = b[CellAt(NextCell(r), k - 1)]
  BY <1>1, <1>2, WindowSeq
<1> HIDE DEF W, W2
<1>6. c = Len(W) /\ 1 \in 0 .. Len(W)
  BY <1>1, <1>4
<1>7. H \in Seq(Messages) /\ Len(H) = 1 /\ H[1] = W[1]
  BY <1>4, <1>6, FirstPiece
<1>8. T \in Seq(Messages) /\ Len(T) = c - 1 /\ \A k \in 1 .. c - 1 : T[k] = W[k + 1]
  <2>1. 1 + 1 = 2
    OBVIOUS
  <2> DEFINE U == SubSeq(W, 1 + 1, Len(W))
  <2>a. U \in Seq(Messages) /\ Len(U) = Len(W) - 1 /\ \A k \in 1 .. Len(W) - 1 : U[k] = W[1 + k]
    BY <1>4, <1>6, LastPiece
  <2>b. T = U
    BY <1>6, <2>1
  <2> HIDE DEF U, T
  <2>2. T \in Seq(Messages) /\ Len(T) = c - 1 /\ \A k \in 1 .. c - 1 : T[k] = W[1 + k]
    BY <1>6, <2>a, <2>b, Zenon
  <2> QED BY <1>1, <2>2
<1> HIDE DEF H, T
<1>9. W[1] = b[r]
  BY <1>1, <1>2, <1>4
<1>10. <<b[r]>> \in Seq(Messages) /\ Len(<<b[r]>>) = 1 /\ <<b[r]>>[1] = b[r]
  OBVIOUS
<1>11. H = <<b[r]>>
  BY <1>7, <1>9, <1>10, SameBytes
<1>12. ASSUME NEW k \in 1 .. c - 1 PROVE T[k] = W2[k]
  <2>1. k + 1 \in 1 .. c /\ (k + 1) - 1 = k BY <1>1
  <2>2. T[k] = W[k + 1] BY <1>8
  <2>3. W[k + 1] = b[CellAt(r, (k + 1) - 1)] BY <2>1, <1>4
  <2>4. W2[k] = b[CellAt(NextCell(r), k - 1)] BY <1>5
  <2>5. CellAt(NextCell(r), k - 1) = CellAt(r, k) BY <1>3
  <2> QED BY ONLY <2>1, <2>2, <2>3, <2>4, <2>5
<1>13. T = W2
  BY <1>5, <1>8, <1>12, SameBytes
<1> QED BY <1>11, <1>13 DEF W, W2, H, T

\* The state ipc_init leaves satisfies the invariant.
LEMMA PipesInitIInv == ipc_init => PipesIInv
  BY PipesAssumption DEF ipc_init, PipesIInv, PipesTypeOK, RingConsistent, PipeIds, Cells

\* Every call of the pipe interface preserves the invariant.
LEMMA PipesNextIInv == PipesIInv /\ [PipesNext]_ipcvars => PipesIInv'
<1> SUFFICES ASSUME PipesIInv, [PipesNext]_ipcvars PROVE PipesIInv'
  OBVIOUS
<1> USE PipesAssumption DEF PipesIInv, PipesTypeOK
<1>1. ASSUME NEW p \in PipeIds, ipc_pipe_create(p) PROVE PipesIInv'
  <2>1. PipesTypeOK' BY <1>1 DEF ipc_pipe_create, Cells
  <2>2. RingConsistent' BY <1>1 DEF ipc_pipe_create, RingConsistent, CellAt
  <2> QED BY <2>1, <2>2
<1>2. ASSUME NEW p \in PipeIds, ipc_pipe_close(p) PROVE PipesIInv'
  BY <1>2 DEF ipc_pipe_close, RingConsistent
<1>3. ASSUME NEW p \in PipeIds, NEW m \in Messages, ipc_pipe_write(p, m) PROVE PipesIInv'
  <2>1. NextCell(write_pos[p]) \in Cells BY RingStep
  <2>2. message_count[p] + 1 \in 0 .. IPC_BUFFER_SIZE BY <1>3 DEF ipc_pipe_write
  <2>3. PipesTypeOK' BY <1>3, <2>1, <2>2 DEF ipc_pipe_write
  <2>a. write_pos[p] = CellAt(read_pos[p], message_count[p])
    BY <1>3 DEF ipc_pipe_write, RingConsistent
  <2>b. read_pos[p] \in Cells /\ message_count[p] \in 0 .. IPC_BUFFER_SIZE
    OBVIOUS
  <2>c. message_count[p] < IPC_BUFFER_SIZE
    BY <1>3 DEF ipc_pipe_write
  <2>4. NextCell(write_pos[p]) = CellAt(read_pos[p], message_count[p] + 1)
    BY <2>a, <2>b, <2>c DEF CellAt, NextCell, Cells
  <2>5. RingConsistent' BY <1>3, <2>4 DEF ipc_pipe_write, RingConsistent
  <2> QED BY <2>3, <2>5
<1>4. ASSUME NEW p \in PipeIds, ipc_pipe_read(p) PROVE PipesIInv'
  <2>1. NextCell(read_pos[p]) \in Cells BY RingStep
  <2>2. message_count[p] - 1 \in 0 .. IPC_BUFFER_SIZE BY <1>4 DEF ipc_pipe_read
  <2>3. buffer[p][read_pos[p]] \in Messages OBVIOUS
  <2>4. PipesTypeOK' BY <1>4, <2>1, <2>2, <2>3 DEF ipc_pipe_read
  <2>a. read_pos[p] \in Cells /\ message_count[p] \in 0 .. IPC_BUFFER_SIZE
    OBVIOUS
  <2>b. message_count[p] > 0
    BY <1>4, <2>a DEF ipc_pipe_read
  <2>5. CellAt(NextCell(read_pos[p]), message_count[p] - 1) = CellAt(read_pos[p], message_count[p])
    BY ONLY <2>a, <2>b, RingStep, Zenon
  <2>6. RingConsistent' BY <1>4, <2>5 DEF ipc_pipe_read, RingConsistent
  <2> QED BY <2>4, <2>6
<1>5. CASE UNCHANGED ipcvars
  BY <1>5 DEF ipcvars, RingConsistent, CellAt
<1> QED BY <1>1, <1>2, <1>3, <1>4, <1>5 DEF PipesNext

\* The positions and counts of every pipe stay inside the buffer.
THEOREM PipesTypeCorrect == PipesSpec => []PipesTypeOK
<1> QED BY PipesInitIInv, PipesNextIInv, PTL DEF PipesSpec, PipesIInv

\* After any sequence of calls the counters of an open pipe agree.
THEOREM RingConsistentAlways == PipesSpec => []RingConsistent
<1> QED BY PipesInitIInv, PipesNextIInv, PTL DEF PipesSpec, PipesIInv

-----------------------------------------------------------------------------
(* The refinement.                                                         *)

\* The sequence of messages in a pipe is as long as its count.
LEMMA ContentsLen ==
  ASSUME PipesIInv, NEW p \in PipeIds, in_use[p]
  PROVE  Len(PipeContents(p)) = message_count[p]
  BY WindowSeq DEF PipesIInv, PipesTypeOK, PipeContents

\* The refinement mapping of Ch, as it is substituted.
POpen == {q \in PipeIds : in_use[q]}
PCapacity == [q \in PipeIds |-> IF in_use[q] THEN IPC_BUFFER_SIZE ELSE 0]
PContents == [q \in PipeIds |-> PipeContents(q)]

\* A call on one pipe leaves the contents of the others as they are.
LEMMA OthersUnchanged ==
  ASSUME NEW p \in PipeIds, NEW q \in PipeIds \ {p}, PipesIInv,
         \/ ipc_pipe_create(p) \/ ipc_pipe_close(p) \/ ipc_pipe_read(p)
         \/ \E m \in Messages : ipc_pipe_write(p, m)
  PROVE  PipeContents(q)' = PipeContents(q)
<1>1. in_use'[q] = in_use[q] /\ read_pos'[q] = read_pos[q]
  BY DEF PipesIInv, PipesTypeOK, ipc_pipe_create, ipc_pipe_close, ipc_pipe_read, ipc_pipe_write
<1>2. message_count'[q] = message_count[q] /\ buffer'[q] = buffer[q]
  BY DEF PipesIInv, PipesTypeOK, ipc_pipe_create, ipc_pipe_close, ipc_pipe_read, ipc_pipe_write
<1> QED BY <1>1, <1>2 DEF PipeContents, Window, CellAt

\* Taking a slot opens an empty channel.
LEMMA PipeCreateStep ==
  ASSUME PipesIInv, NEW p \in PipeIds, ipc_pipe_create(p)
  PROVE  Ch!Create(p, IPC_BUFFER_SIZE)
<1>1. p \notin POpen /\ POpen' = POpen \cup {p}
  BY DEF PipesIInv, PipesTypeOK, ipc_pipe_create, POpen
<1>2. PCapacity' = [PCapacity EXCEPT ![p] = IPC_BUFFER_SIZE]
  BY Zenon DEF PipesIInv, PipesTypeOK, ipc_pipe_create, PCapacity
<1>3. PipeContents(p)' = <<>> /\ PipeContents(p) = <<>>
  BY DEF PipesIInv, PipesTypeOK, ipc_pipe_create, PipeContents, Window
<1>4. PContents' = PContents
  BY <1>3, OthersUnchanged DEF PContents
<1> QED BY <1>1, <1>2, <1>4 DEF Ch!Create, POpen, PCapacity, PContents, ipc_pipe_create

\* Closing a pipe closes the channel and loses its contents.
LEMMA PipeCloseStep ==
  ASSUME PipesIInv, NEW p \in PipeIds, ipc_pipe_close(p)
  PROVE  Ch!Close(p)
<1>1. p \in POpen /\ POpen' = POpen \ {p}
  BY DEF PipesIInv, PipesTypeOK, ipc_pipe_close, POpen
<1>2. PCapacity' = [PCapacity EXCEPT ![p] = 0]
  BY Zenon DEF PipesIInv, PipesTypeOK, ipc_pipe_close, PCapacity
<1>3. PipeContents(p)' = <<>>
  BY DEF PipesIInv, PipesTypeOK, ipc_pipe_close, PipeContents
<1>4. PContents' = [PContents EXCEPT ![p] = <<>>]
  BY <1>3, OthersUnchanged, Zenon DEF PContents
<1> QED BY <1>1, <1>2, <1>4 DEF Ch!Close, POpen, PCapacity, PContents, ipc_pipe_close

\* A write puts its message behind those in the channel.
LEMMA PipeWriteStep ==
  ASSUME PipesIInv, NEW p \in PipeIds, NEW m \in Messages, ipc_pipe_write(p, m)
  PROVE  Ch!Put(p, <<m>>)
<1>1. p \in POpen /\ POpen' = POpen /\ PCapacity' = PCapacity
  BY DEF ipc_pipe_write, POpen, PCapacity
<1>2. /\ in_use[p] /\ in_use'[p] /\ read_pos'[p] = read_pos[p]
      /\ message_count'[p] = message_count[p] + 1
      /\ message_count[p] \in 0 .. IPC_BUFFER_SIZE - 1
      /\ buffer[p] \in [Cells -> Messages] /\ read_pos[p] \in Cells
  BY PipesAssumption DEF PipesIInv, PipesTypeOK, ipc_pipe_write
<1>a. write_pos[p] = CellAt(read_pos[p], message_count[p])
  BY <1>2 DEF PipesIInv, RingConsistent
<1>b. buffer'[p] = [buffer[p] EXCEPT ![write_pos[p]] = m]
  BY DEF PipesIInv, PipesTypeOK, ipc_pipe_write
<1>3. PipeContents(p)' = Window(buffer'[p], read_pos'[p], message_count'[p])
  BY <1>2 DEF PipeContents, Window, CellAt
<1>c. PipeContents(p) = Window(buffer[p], read_pos[p], message_count[p])
  BY <1>2 DEF PipeContents
<1>d. Window([buffer[p] EXCEPT ![CellAt(read_pos[p], message_count[p])] = m], read_pos[p], message_count[p] + 1)
        = Window(buffer[p], read_pos[p], message_count[p]) \o <<m>>
  BY <1>2, WindowWrite, Zenon
<1>4. PipeContents(p)' = PipeContents(p) \o <<m>>
  BY ONLY <1>2, <1>3, <1>a, <1>b, <1>c, <1>d, Zenon
<1>5. PContents' = [PContents EXCEPT ![p] = @ \o <<m>>]
  BY <1>4, OthersUnchanged, Zenon DEF PContents
<1>6. Len(PContents[p]) + Len(<<m>>) <= PCapacity[p]
  <2>1. Len(PContents[p]) = message_count[p] BY <1>2, ContentsLen DEF PContents
  <2>2. PCapacity[p] = IPC_BUFFER_SIZE BY <1>2 DEF PCapacity
  <2> QED BY <2>1, <2>2, <1>2, PipesAssumption
<1> QED BY <1>1, <1>5, <1>6 DEF Ch!Put, POpen, PCapacity, PContents, ipc_pipe_write

\* A read takes the oldest message of the channel.
LEMMA PipeReadStep ==
  ASSUME PipesIInv, NEW p \in PipeIds, ipc_pipe_read(p)
  PROVE  1 \in 1 .. Len(PContents[p]) /\ Ch!Take(p, 1)
<1>1. p \in POpen /\ POpen' = POpen /\ PCapacity' = PCapacity
  BY DEF ipc_pipe_read, POpen, PCapacity
<1>2. /\ in_use[p] /\ in_use'[p] /\ read_pos'[p] = NextCell(read_pos[p])
      /\ message_count'[p] = message_count[p] - 1 /\ buffer'[p] = buffer[p]
      /\ message' = <<buffer[p][read_pos[p]]>>
      /\ message_count[p] \in 1 .. IPC_BUFFER_SIZE
      /\ buffer[p] \in [Cells -> Messages] /\ read_pos[p] \in Cells
  BY PipesAssumption DEF PipesIInv, PipesTypeOK, ipc_pipe_read
<1>3. PipeContents(p)' = Window(buffer'[p], read_pos'[p], message_count'[p])
  BY <1>2 DEF PipeContents, Window, CellAt
<1>4. PContents[p] = Window(buffer[p], read_pos[p], message_count[p])
  BY <1>2 DEF PContents, PipeContents
<1>5. Len(PContents[p]) = message_count[p]
  BY <1>2, ContentsLen DEF PContents
<1>a. SubSeq(Window(buffer[p], read_pos[p], message_count[p]), 1, 1) = <<buffer[p][read_pos[p]]>>
  BY <1>2, WindowRead
<1>b. SubSeq(Window(buffer[p], read_pos[p], message_count[p]), 2, message_count[p])
        = Window(buffer[p], NextCell(read_pos[p]), message_count[p] - 1)
  BY <1>2, WindowRead
<1>6. message' = SubSeq(PContents[p], 1, 1)
  BY ONLY <1>2, <1>4, <1>a, Zenon
<1>7. PipeContents(p)' = SubSeq(PContents[p], 1 + 1, Len(PContents[p]))
  <2>1. 1 + 1 = 2 OBVIOUS
  <2> QED BY ONLY <2>1, <1>2, <1>3, <1>4, <1>5, <1>b
<1>c. \A q \in PipeIds : PContents'[q] = IF q = p THEN SubSeq(PContents[p], 1 + 1, Len(PContents[p])) ELSE PContents[q]
  BY <1>7, OthersUnchanged DEF PContents
<1>8. PContents' = [PContents EXCEPT ![p] = SubSeq(@, 1 + 1, Len(@))]
  <2> DEFINE T == SubSeq(PContents[p], 1 + 1, Len(PContents[p]))
  <2> HIDE DEF T
  <2>1. PContents' = [PContents EXCEPT ![p] = T]
    <3>1. \A q \in PipeIds : PipeContents(q)' = IF q = p THEN T ELSE PipeContents(q)
      BY <1>c DEF PContents, T
    <3> QED BY <3>1, Zenon DEF PContents
  <2> QED BY <2>1 DEF T
<1>9. 1 \in 1 .. Len(PContents[p])
  BY <1>2, <1>5, PipesAssumption
<1> QED BY <1>1, <1>6, <1>8, <1>9 DEF Ch!Take, POpen, PCapacity, PContents

\* Every behaviour of the pipe table is one of independent bounded
\* first-in first-out channels.
THEOREM PipesRefineChannels == PipesSpec => PipesAreChannels
<1>1. ipc_init => Ch!ChannelsInit
  BY DEF ipc_init, Ch!ChannelsInit, PipeContents
<1>2. PipesIInv /\ [PipesNext]_ipcvars => [Ch!ChannelsNext]_(Ch!cvars)
  <2> SUFFICES ASSUME PipesIInv, [PipesNext]_ipcvars PROVE Ch!ChannelsNext \/ UNCHANGED Ch!cvars
    OBVIOUS
  <2>1. ASSUME NEW p \in PipeIds, ipc_pipe_create(p) PROVE Ch!ChannelsNext
    BY <2>1, PipeCreateStep DEF Ch!ChannelsNext
  <2>2. ASSUME NEW p \in PipeIds, ipc_pipe_close(p) PROVE Ch!ChannelsNext
    BY <2>2, PipeCloseStep DEF Ch!ChannelsNext
  <2>3. ASSUME NEW p \in PipeIds, NEW m \in Messages, ipc_pipe_write(p, m) PROVE Ch!ChannelsNext
    BY <2>3, PipeWriteStep, Zenon DEF Ch!ChannelsNext
  <2>4. ASSUME NEW p \in PipeIds, ipc_pipe_read(p) PROVE Ch!ChannelsNext
    BY <2>4, PipeReadStep DEF Ch!ChannelsNext, PContents
  <2>5. CASE UNCHANGED ipcvars
    BY <2>5 DEF ipcvars, Ch!cvars, PipeContents, Window, CellAt
  <2> QED BY <2>1, <2>2, <2>3, <2>4, <2>5 DEF PipesNext
<1> QED BY <1>1, <1>2, PipesInitIInv, PipesNextIInv, PTL DEF PipesSpec, PipesAreChannels, Ch!ChannelsSpec

-----------------------------------------------------------------------------
(* The heap, for every set of sizes that do not wrap the address space.    *)

\* No request, added to an address of the heap, wraps.  Without it the test
\* of malloc passes for a size that takes heap_ptr back below the heap.
NoWrap == \A size \in Sizes : HEAP_END + size <= AddressModulus

\* The inductive invariant: every block ends where heap_ptr stands or below,
\* and of two blocks one ends where the other begins or below.
HeapIInv ==
  /\ heap_ptr \in HEAP_START .. HEAP_END - 1
  /\ blocks \subseteq [ptr : HEAP_START .. HEAP_END - 1, size : Sizes]
  /\ \A b \in blocks : b.ptr + b.size <= heap_ptr
  /\ \A b1, b2 \in blocks :
       b1 # b2 => b1.ptr + b1.size <= b2.ptr \/ b2.ptr + b2.size <= b1.ptr

\* The fields of the blocks are numbers.
LEMMA BlockTypes ==
  ASSUME HeapIInv, NEW b \in blocks
  PROVE  b.ptr \in Nat /\ b.size \in Nat /\ heap_ptr \in Nat /\ HEAP_END \in Nat
<1>1. Sizes \subseteq Nat /\ HEAP_START \in Nat /\ HEAP_END \in Nat
  BY HeapAssumption DEF HEAP_END
<1>2. b \in [ptr : HEAP_START .. HEAP_END - 1, size : Sizes]
  BY DEF HeapIInv
<1>3. b.ptr \in HEAP_START .. HEAP_END - 1 /\ b.size \in Sizes
  BY <1>2
<1>4. heap_ptr \in HEAP_START .. HEAP_END - 1
  BY DEF HeapIInv
<1>5. b.ptr \in Nat BY <1>1, <1>3
<1>6. b.size \in Nat BY <1>1, <1>3, Zenon
<1>7. heap_ptr \in Nat BY <1>1, <1>4
<1> QED BY <1>1, <1>5, <1>6, <1>7

\* The heap memory_init leaves satisfies the invariant.
LEMMA HeapInitIInv == memory_init => HeapIInv
  BY HeapAssumption DEF memory_init, HeapIInv, HEAP_END

\* malloc preserves the invariant.
LEMMA MallocIInv ==
  ASSUME NoWrap, HeapIInv, NEW size \in Sizes, malloc(size)
  PROVE  HeapIInv'
<1> DEFINE new == [ptr |-> heap_ptr, size |-> size]
<1>1. size \in Nat /\ HEAP_START \in Nat /\ HEAP_END \in Nat
  BY HeapAssumption DEF HEAP_END
<1>2. heap_ptr \in Nat /\ heap_ptr < HEAP_END /\ HEAP_START <= heap_ptr
  BY <1>1 DEF HeapIInv
<1>3. HEAP_END + size <= AddressModulus /\ AddressModulus \in Nat
  BY HeapAssumption DEF NoWrap
<1>4. Advance(size) = heap_ptr + size
  BY <1>1, <1>2, <1>3 DEF Advance
<1>5. heap_ptr' = heap_ptr + size /\ heap_ptr + size < HEAP_END /\ blocks' = blocks \cup {new}
  BY <1>4 DEF malloc
<1>6. new \in [ptr : HEAP_START .. HEAP_END - 1, size : Sizes] /\ new.ptr + new.size = heap_ptr'
  BY <1>1, <1>2, <1>5
<1>7. \A b \in blocks : b.ptr \in Nat /\ b.size \in Nat /\ b.ptr + b.size <= heap_ptr
  BY BlockTypes DEF HeapIInv
<1>8. heap_ptr' \in HEAP_START .. HEAP_END - 1
  BY <1>1, <1>2, <1>5
<1>9. blocks' \subseteq [ptr : HEAP_START .. HEAP_END - 1, size : Sizes]
  BY <1>5, <1>6 DEF HeapIInv
<1>10. \A b \in blocks' : b.ptr + b.size <= heap_ptr'
  BY <1>1, <1>2, <1>5, <1>6, <1>7
<1>11. \A b \in blocks : b.ptr + b.size <= new.ptr
  BY <1>7
<1>12. ASSUME NEW b1 \in blocks', NEW b2 \in blocks', b1 # b2
       PROVE  b1.ptr + b1.size <= b2.ptr \/ b2.ptr + b2.size <= b1.ptr
  BY <1>5, <1>11, <1>12 DEF HeapIInv
<1> QED BY <1>8, <1>9, <1>10, <1>12 DEF HeapIInv

\* Every step of the allocator preserves the invariant.
LEMMA HeapNextIInv == ASSUME NoWrap PROVE HeapIInv /\ [HeapNext]_hvars => HeapIInv'
<1>1. ASSUME HeapIInv, HeapNext PROVE HeapIInv'
  BY <1>1, MallocIInv DEF HeapNext
<1>2. ASSUME HeapIInv, UNCHANGED hvars PROVE HeapIInv'
  BY <1>2 DEF hvars, HeapIInv
<1> QED BY <1>1, <1>2

\* Every block ends below HEAP_END.
LEMMA BlocksStayInHeap == HeapIInv => BlocksInHeap
<1> SUFFICES ASSUME HeapIInv, NEW b \in blocks PROVE b.ptr + b.size <= HEAP_END
  BY DEF BlocksInHeap
<1>1. b.ptr \in Nat /\ b.size \in Nat /\ b.ptr + b.size <= heap_ptr /\ heap_ptr \in Nat
  BY BlockTypes DEF HeapIInv
<1>2. heap_ptr <= HEAP_END - 1 /\ HEAP_END \in Nat
  BY HeapAssumption DEF HeapIInv, HEAP_END
<1> QED BY <1>1, <1>2

\* Every block malloc returns lies in the heap.
THEOREM BlocksInHeapAlways == ASSUME NoWrap PROVE HeapSpec => []BlocksInHeap
<1>1. HeapIInv /\ [HeapNext]_hvars => HeapIInv'
  BY HeapNextIInv
<1> QED BY <1>1, HeapInitIInv, BlocksStayInHeap, PTL DEF HeapSpec

\* No two blocks malloc returns share a byte.
THEOREM BlocksDisjointAlways == ASSUME NoWrap PROVE HeapSpec => []BlocksDisjoint
<1>1. HeapIInv => BlocksDisjoint
  <2> SUFFICES ASSUME HeapIInv, NEW b1 \in blocks, NEW b2 \in blocks, b1 # b2,
                      NEW a \in Addresses(b1) \cap Addresses(b2)
               PROVE  FALSE
    BY DEF BlocksDisjoint
  <2>1. /\ b1.ptr \in Nat /\ b1.size \in Nat /\ b2.ptr \in Nat /\ b2.size \in Nat
        /\ b1.ptr + b1.size <= b2.ptr \/ b2.ptr + b2.size <= b1.ptr
    BY BlockTypes DEF HeapIInv
  <2> QED BY <2>1 DEF Addresses
<1>2. HeapIInv /\ [HeapNext]_hvars => HeapIInv'
  BY HeapNextIInv
<1> QED BY <1>1, <1>2, HeapInitIInv, PTL DEF HeapSpec

-----------------------------------------------------------------------------
(* The message queues.                                                     *)

\* A position of a ring of m bytes, and how far after another one it is.
Wrap(a, m) == IF a >= m THEN a - m ELSE a
Distance(x, from, m) == IF x >= from THEN x - from ELSE x - from + m

\* The modulo of ipc_queue_send and ipc_queue_recv is the wrap of a position
\* that has gone round once at most.
LEMMA RingModulo ==
  ASSUME NEW m \in Nat \ {0}, NEW a \in Nat, a < m + m
  PROVE  a % m = Wrap(a, m) /\ Wrap(a, m) \in 0 .. m - 1
  BY DEF Wrap

\* memcpy changes the bytes it is told to and no others.
LEMMA CopiedBytes ==
  ASSUME NEW mem \in [HeapAddresses -> Bytes], NEW addr \in Nat, NEW d \in Seq(Bytes),
         HEAP_START <= addr, addr + Len(d) <= HEAP_END
  PROVE  /\ Copied(mem, addr, d) \in [HeapAddresses -> Bytes]
         /\ \A a \in HeapAddresses :
              Copied(mem, addr, d)[a] = IF addr <= a /\ a < addr + Len(d) THEN d[a - addr + 1] ELSE mem[a]
<1>1. Len(d) \in Nat /\ \A k \in 1 .. Len(d) : d[k] \in Bytes
  OBVIOUS
<1>2. HEAP_START \in Nat /\ HEAP_END \in Nat
  BY HeapAssumption DEF HEAP_END
<1>3. ASSUME NEW a \in HeapAddresses
      PROVE  /\ Copied(mem, addr, d)[a] = IF addr <= a /\ a < addr + Len(d) THEN d[a - addr + 1] ELSE mem[a]
             /\ Copied(mem, addr, d)[a] \in Bytes
  <2>1. a \in Nat
    BY <1>2 DEF HeapAddresses
  <2>2. a \in addr .. addr + Len(d) - 1 <=> addr <= a /\ a < addr + Len(d)
    BY <1>1, <2>1
  <2>3. Copied(mem, addr, d)[a] = IF addr <= a /\ a < addr + Len(d) THEN d[a - addr + 1] ELSE mem[a]
    BY <2>2 DEF Copied
  <2>4. addr <= a /\ a < addr + Len(d) => a - addr + 1 \in 1 .. Len(d)
    BY <1>1, <2>1
  <2> QED BY <1>1, <2>3, <2>4
<1>4. Copied(mem, addr, d) = [a \in HeapAddresses |-> Copied(mem, addr, d)[a]]
  BY DEF Copied
<1> QED BY <1>3, <1>4

\* The memory after a send of d, in one piece or two.
AfterSend(mem, b, m, rear, d) ==
  IF Len(d) <= m - rear
    THEN Copied(mem, b + rear, d)
    ELSE Copied(Copied(mem, b + rear, SubSeq(d, 1, m - rear)), b, SubSeq(d, m - rear + 1, Len(d)))

\* mem2 is mem with d written round the ring from rear on, and nothing
\* outside the block of the queue.
Sent(mem2, mem, b, m, rear, d) ==
  /\ mem2 \in [HeapAddresses -> Bytes]
  /\ \A a \in HeapAddresses : a < b \/ a >= b + m => mem2[a] = mem[a]
  /\ \A x \in 0 .. m - 1 :
       mem2[b + x] = IF Distance(x, rear, m) < Len(d) THEN d[Distance(x, rear, m) + 1] ELSE mem[b + x]

\* That is what the copies of ipc_queue_send do.
LEMMA SentBytes ==
  ASSUME NEW mem \in [HeapAddresses -> Bytes], NEW b \in Nat, NEW m \in Nat \ {0},
         NEW rear \in 0 .. m - 1, NEW d \in Seq(Bytes), Len(d) <= m,
         HEAP_START <= b, b + m <= HEAP_END
  PROVE  Sent(AfterSend(mem, b, m, rear, d), mem, b, m, rear, d)
<1> DEFINE n == Len(d)
           end == m - rear
           mem2 == AfterSend(mem, b, m, rear, d)
<1>1. n \in Nat /\ end \in 1 .. m /\ HEAP_START \in Nat /\ HEAP_END \in Nat /\ n <= m
  BY HeapAssumption DEF HEAP_END
<1>2. \A x \in 0 .. m - 1 : b + x \in HeapAddresses
  BY <1>1 DEF HeapAddresses
<1>3. \A a \in HeapAddresses : a \in Nat
  BY <1>1 DEF HeapAddresses
<1>4. CASE n <= end
  <2>1. b + rear \in Nat /\ HEAP_START <= b + rear /\ b + rear + n <= HEAP_END
    BY <1>1, <1>4
  <2>2. mem2 = Copied(mem, b + rear, d)
    BY <1>4 DEF AfterSend
  <2> HIDE DEF mem2, n, end
  <2>3. /\ mem2 \in [HeapAddresses -> Bytes]
        /\ \A a \in HeapAddresses :
             mem2[a] = IF b + rear <= a /\ a < b + rear + n THEN d[a - (b + rear) + 1] ELSE mem[a]
    <3>1. b + rear + Len(d) <= HEAP_END
      BY <2>1, Zenon DEF n
    <3>2. /\ Copied(mem, b + rear, d) \in [HeapAddresses -> Bytes]
          /\ \A a \in HeapAddresses :
               Copied(mem, b + rear, d)[a] = IF b + rear <= a /\ a < b + rear + Len(d)
                                              THEN d[a - (b + rear) + 1] ELSE mem[a]
      BY <2>1, <3>1, CopiedBytes, Zenon
    <3> QED BY <2>2, <3>2, Zenon DEF n
  <2>4. ASSUME NEW a \in HeapAddresses, a < b \/ a >= b + m PROVE mem2[a] = mem[a]
    <3>1. ~(b + rear <= a /\ a < b + rear + n)
      BY <1>1, <1>3, <1>4, <2>4 DEF end
    <3> QED BY <2>3, <3>1, Zenon
  <2>5. ASSUME NEW x \in 0 .. m - 1
        PROVE  mem2[b + x] = IF Distance(x, rear, m) < n THEN d[Distance(x, rear, m) + 1] ELSE mem[b + x]
    <3>1. (b + rear <= b + x /\ b + x < b + rear + n) <=> Distance(x, rear, m) < n
      BY <1>1, <1>4 DEF Distance, end
    <3>2. Distance(x, rear, m) < n => (b + x) - (b + rear) + 1 = Distance(x, rear, m) + 1
      BY <1>1, <1>4 DEF Distance, end
    <3>3. mem2[b + x] = IF b + rear <= b + x /\ b + x < b + rear + n
                          THEN d[(b + x) - (b + rear) + 1] ELSE mem[b + x]
      BY <1>2, <2>3, Zenon
    <3> QED BY <3>1, <3>2, <3>3, Zenon
  <2> QED BY <2>3, <2>4, <2>5 DEF mem2, n, Sent
<1>5. CASE n > end
  <2> DEFINE d1 == SubSeq(d, 1, end)
             d2 == SubSeq(d, end + 1, n)
             mem1 == Copied(mem, b + rear, d1)
  <2>1. /\ d1 \in Seq(Bytes) /\ Len(d1) = end /\ \A k \in 1 .. end : d1[k] = d[k]
        /\ d2 \in Seq(Bytes) /\ Len(d2) = n - end /\ \A k \in 1 .. n - end : d2[k] = d[end + k]
    <3>1. end \in 0 .. Len(d)
      BY <1>1, <1>5
    <3> HIDE DEF end
    <3>2. d1 \in Seq(Bytes) /\ Len(d1) = end /\ \A k \in 1 .. end : d1[k] = d[k]
      BY <3>1, FirstPiece, Zenon
    <3>3. d2 \in Seq(Bytes) /\ Len(d2) = n - end /\ \A k \in 1 .. n - end : d2[k] = d[end + k]
      BY <3>1, LastPiece, Zenon
    <3> QED BY <3>2, <3>3
  <2>2. /\ b + rear \in Nat /\ HEAP_START <= b + rear /\ b + rear + end <= HEAP_END
        /\ b + (n - end) <= HEAP_END /\ n - end <= rear
    BY <1>1, <1>5
  <2>3. mem2 = Copied(mem1, b, d2)
    BY <1>1, <1>5 DEF AfterSend
  <2> HIDE DEF mem2, n, end, d1, d2
  <2>4. /\ mem1 \in [HeapAddresses -> Bytes]
        /\ \A a \in HeapAddresses :
             mem1[a] = IF b + rear <= a /\ a < b + rear + end THEN d1[a - (b + rear) + 1] ELSE mem[a]
    <3>1. b + rear + Len(d1) <= HEAP_END
      BY <2>1, <2>2
    <3>2. /\ mem1 \in [HeapAddresses -> Bytes]
          /\ \A a \in HeapAddresses :
               mem1[a] = IF b + rear <= a /\ a < b + rear + Len(d1) THEN d1[a - (b + rear) + 1] ELSE mem[a]
      BY <2>1, <2>2, <3>1, CopiedBytes, Zenon
    <3> QED BY <2>1, <3>2, Zenon
  <2> HIDE DEF mem1
  <2>5. /\ mem2 \in [HeapAddresses -> Bytes]
        /\ \A a \in HeapAddresses :
             mem2[a] = IF b <= a /\ a < b + (n - end) THEN d2[a - b + 1] ELSE mem1[a]
    <3>1. b + Len(d2) <= HEAP_END
      BY <2>1, <2>2
    <3>0. mem1 \in [HeapAddresses -> Bytes] /\ d2 \in Seq(Bytes)
      BY <2>1, <2>4, Zenon
    <3>2. /\ Copied(mem1, b, d2) \in [HeapAddresses -> Bytes]
          /\ \A a \in HeapAddresses :
               Copied(mem1, b, d2)[a] = IF b <= a /\ a < b + Len(d2) THEN d2[a - b + 1] ELSE mem1[a]
      BY <3>1, <3>0, CopiedBytes, Zenon
    <3> QED BY <2>1, <2>3, <3>2, Zenon
  <2>6. ASSUME NEW a \in HeapAddresses, a < b \/ a >= b + m PROVE mem2[a] = mem[a]
    <3>1. ~(b + rear <= a /\ a < b + rear + end) /\ ~(b <= a /\ a < b + (n - end))
      BY <1>1, <1>3, <2>2, <2>6 DEF end
    <3> QED BY <2>4, <2>5, <3>1, Zenon
  <2>7. ASSUME NEW x \in 0 .. m - 1
        PROVE  mem2[b + x] = IF Distance(x, rear, m) < n THEN d[Distance(x, rear, m) + 1] ELSE mem[b + x]
    <3>1. mem2[b + x] = IF b <= b + x /\ b + x < b + (n - end) THEN d2[(b + x) - b + 1] ELSE mem1[b + x]
      BY <1>2, <2>5, Zenon
    <3>2. mem1[b + x] = IF b + rear <= b + x /\ b + x < b + rear + end
                          THEN d1[(b + x) - (b + rear) + 1] ELSE mem[b + x]
      BY <1>2, <2>4, Zenon
    <3>3. CASE x < n - end
      <4>1. /\ b <= b + x /\ b + x < b + (n - end) /\ (b + x) - b + 1 = x + 1 /\ x + 1 \in 1 .. n - end
            /\ Distance(x, rear, m) + 1 = end + (x + 1) /\ Distance(x, rear, m) < n
        BY <1>1, <2>2, <3>3 DEF Distance, end
      <4> QED BY <2>1, <3>1, <4>1, Zenon
    <3>4. CASE x >= rear
      <4>1. /\ ~(b + x < b + (n - end)) /\ b + rear <= b + x /\ b + x < b + rear + end
            /\ (b + x) - (b + rear) + 1 = Distance(x, rear, m) + 1
            /\ Distance(x, rear, m) + 1 \in 1 .. end /\ Distance(x, rear, m) < n
        BY <1>1, <1>5, <2>2, <3>4 DEF Distance, end
      <4> QED BY <2>1, <3>1, <3>2, <4>1, Zenon
    <3>5. CASE x >= n - end /\ x < rear
      <4>1. ~(b + x < b + (n - end)) /\ ~(b + rear <= b + x) /\ ~(Distance(x, rear, m) < n)
        BY <1>1, <2>2, <3>5 DEF Distance, end
      <4> QED BY <3>1, <3>2, <4>1, Zenon
    <3>6. x < n - end \/ x >= rear \/ (x >= n - end /\ x < rear)
      BY <1>1
    <3> QED BY <3>3, <3>4, <3>5, <3>6
  <2> QED BY <2>5, <2>6, <2>7 DEF mem2, n, Sent
<1> QED BY <1>1, <1>4, <1>5

\* The size bytes of a ring from front on, in order.
RingBytes(mem, b, m, front, size) == [k \in 1 .. size |-> mem[b + Wrap(front + k - 1, m)]]

\* What the n elements of R are.
IsRing(R, mem, b, m, front, n) ==
  /\ R \in Seq(Bytes) /\ Len(R) = n
  /\ \A k \in 1 .. n : R[k] = mem[b + Wrap(front + k - 1, m)]

\* They are bytes of the block of the ring.
LEMMA RingBytesSeq ==
  ASSUME NEW mem \in [HeapAddresses -> Bytes], NEW b \in Nat, NEW m \in Nat \ {0},
         NEW front \in 0 .. m - 1, NEW size \in 0 .. m, HEAP_START <= b, b + m <= HEAP_END
  PROVE  IsRing(RingBytes(mem, b, m, front, size), mem, b, m, front, size)
<1>1. HEAP_START \in Nat /\ HEAP_END \in Nat
  BY HeapAssumption DEF HEAP_END
<1>2. \A k \in 1 .. m : b + Wrap(front + k - 1, m) \in HeapAddresses
  BY <1>1 DEF Wrap, HeapAddresses
<1>3. ASSUME NEW k \in 1 .. size PROVE mem[b + Wrap(front + k - 1, m)] \in Bytes
  <2>1. k \in 1 .. m
    OBVIOUS
  <2>2. b + Wrap(front + k - 1, m) \in HeapAddresses
    BY <1>2, <2>1, Zenon
  <2> QED BY <2>2, Zenon
<1>4. RingBytes(mem, b, m, front, size) \in [1 .. size -> Bytes]
  BY <1>3 DEF RingBytes
<1>5. \A k \in 1 .. size : RingBytes(mem, b, m, front, size)[k] = mem[b + Wrap(front + k - 1, m)]
  BY DEF RingBytes
<1>6. size \in Nat
  OBVIOUS
<1> HIDE DEF RingBytes
<1> QED BY <1>4, <1>5, <1>6 DEF IsRing

\* The ring holds d in mem2 behind what it held in mem.
Appends(mem2, mem, b, m, front, size, d) ==
  RingBytes(mem2, b, m, front, size + Len(d)) = RingBytes(mem, b, m, front, size) \o d

\* A send appends to the bytes of its ring.
LEMMA RingSend ==
  ASSUME NEW mem \in [HeapAddresses -> Bytes], NEW b \in Nat, NEW m \in Nat \ {0},
         NEW front \in 0 .. m - 1, NEW size \in 0 .. m, NEW d \in Seq(Bytes), d # <<>>,
         size + Len(d) <= m, HEAP_START <= b, b + m <= HEAP_END
  PROVE  Appends(AfterSend(mem, b, m, Wrap(front + size, m), d), mem, b, m, front, size, d)
<1> DEFINE n == Len(d)
           rear == Wrap(front + size, m)
           mem2 == AfterSend(mem, b, m, rear, d)
           R == RingBytes(mem, b, m, front, size)
           R2 == RingBytes(mem2, b, m, front, size + n)
<1>1. n \in Nat \ {0} /\ size < m /\ size + n \in 0 .. m /\ size \in Nat /\ n <= m
  OBVIOUS
<1>2. rear \in 0 .. m - 1
  BY DEF Wrap
<1>3. /\ mem2 \in [HeapAddresses -> Bytes]
      /\ \A x \in 0 .. m - 1 :
           mem2[b + x] = IF Distance(x, rear, m) < n THEN d[Distance(x, rear, m) + 1] ELSE mem[b + x]
  <2> HIDE DEF rear
  <2>1. Sent(mem2, mem, b, m, rear, d)
    BY <1>1, <1>2, SentBytes
  <2> QED BY <2>1, Zenon DEF Sent
<1> HIDE DEF n, mem2
<1>4. IsRing(R, mem, b, m, front, size)
  BY RingBytesSeq
<1>5. IsRing(R2, mem2, b, m, front, size + n)
  BY <1>1, <1>3, RingBytesSeq, Zenon
<1> HIDE DEF R, R2
<1>6. /\ R \o d \in Seq(Bytes) /\ Len(R \o d) = size + n
      /\ \A k \in 1 .. size + n : (R \o d)[k] = IF k <= size THEN R[k] ELSE d[k - size]
  <2>1. R \in Seq(Bytes) /\ Len(R) = size
    BY <1>4 DEF IsRing
  <2>2. Len(d) = n /\ n \in Nat
    BY <1>1 DEF n
  <2>3. R \o d \in Seq(Bytes) /\ Len(R \o d) = size + n
    BY <2>1, <2>2
  <2>4. ASSUME NEW k \in 1 .. size + n PROVE (R \o d)[k] = IF k <= size THEN R[k] ELSE d[k - size]
    BY <2>1, <2>2
  <2> QED BY <2>3, <2>4
<1>7. ASSUME NEW k \in 1 .. size + n PROVE R2[k] = (R \o d)[k]
  <2> DEFINE x == Wrap(front + k - 1, m)
  <2>0. k \in 1 .. m
    BY <1>1
  <2>1. /\ x \in 0 .. m - 1
        /\ k > size => Distance(x, rear, m) = k - 1 - size
        /\ k <= size => Distance(x, rear, m) = m - size + (k - 1)
    <3>1. front + k - 1 \in Nat /\ front + size \in Nat /\ size < m
      BY <1>1
    <3> QED BY <2>0, <3>1 DEF x, rear, Wrap, Distance
  <2>2. R2[k] = mem2[b + x]
    BY <1>5, Zenon DEF IsRing
  <2> HIDE DEF x, rear
  <2>3. CASE k <= size
    <3>1. ~(Distance(x, rear, m) < n) /\ k \in 1 .. size
      BY <1>1, <2>1, <2>3
    <3>2. mem2[b + x] = mem[b + x]
      BY <1>3, <2>1, <3>1
    <3>3. R[k] = mem[b + x]
      BY <1>4, <3>1, Zenon DEF x, IsRing
    <3> QED BY <1>6, <2>2, <2>3, <3>2, <3>3
  <2>4. CASE k > size
    <3>1. Distance(x, rear, m) < n /\ Distance(x, rear, m) + 1 = k - size /\ ~(k <= size)
      BY <1>1, <2>1, <2>4
    <3> QED BY <1>3, <1>6, <2>1, <2>2, <3>1, Zenon
  <2>5. k <= size \/ k > size
    BY <1>1
  <2> QED BY <2>3, <2>4, <2>5, Zenon
<1>8. R2 = R \o d
  BY <1>5, <1>6, <1>7, SameBytes, Zenon DEF IsRing
<1> QED BY <1>8 DEF R, R2, n, mem2, rear, Appends

\* The first n bytes of a ring, and the others.
Splits(mem, b, m, front, size, n) ==
  LET R == RingBytes(mem, b, m, front, size)
  IN /\ SubSeq(R, 1, n) = RingBytes(mem, b, m, front, n)
     /\ SubSeq(R, n + 1, Len(R)) = RingBytes(mem, b, m, Wrap(front + n, m), size - n)

\* A receive takes the first bytes of its ring and leaves the others.
LEMMA RingReceive ==
  ASSUME NEW mem \in [HeapAddresses -> Bytes], NEW b \in Nat, NEW m \in Nat \ {0},
         NEW front \in 0 .. m - 1, NEW size \in 0 .. m, NEW n \in 1 .. size,
         HEAP_START <= b, b + m <= HEAP_END
  PROVE  Splits(mem, b, m, front, size, n)
<1> DEFINE R == RingBytes(mem, b, m, front, size)
           A == RingBytes(mem, b, m, front, n)
           B == RingBytes(mem, b, m, Wrap(front + n, m), size - n)
           C == SubSeq(R, 1, n)
           D == SubSeq(R, n + 1, Len(R))
<1>1. n \in 0 .. m /\ size - n \in 0 .. m /\ Wrap(front + n, m) \in 0 .. m - 1
  BY DEF Wrap
<1>2. IsRing(R, mem, b, m, front, size)
  BY RingBytesSeq
<1>3. IsRing(A, mem, b, m, front, n)
  BY <1>1, RingBytesSeq
<1>4. IsRing(B, mem, b, m, Wrap(front + n, m), size - n)
  BY <1>1, RingBytesSeq
<1> HIDE DEF R, A, B
<1>5. /\ C \in Seq(Bytes) /\ Len(C) = n /\ \A k \in 1 .. n : C[k] = R[k]
      /\ D \in Seq(Bytes) /\ Len(D) = size - n /\ \A k \in 1 .. size - n : D[k] = R[n + k]
  <2>1. R \in Seq(Bytes) /\ Len(R) = size /\ n \in 0 .. Len(R)
    BY <1>1, <1>2 DEF IsRing
  <2>2. C \in Seq(Bytes) /\ Len(C) = n /\ \A k \in 1 .. n : C[k] = R[k]
    BY <2>1, FirstPiece, Zenon
  <2>3. D \in Seq(Bytes) /\ Len(D) = Len(R) - n /\ \A k \in 1 .. Len(R) - n : D[k] = R[n + k]
    BY <2>1, LastPiece, Zenon
  <2> QED BY <2>1, <2>2, <2>3, Zenon
<1> HIDE DEF C, D
<1>6. ASSUME NEW k \in 1 .. n PROVE C[k] = A[k]
  <2>1. k \in 1 .. size
    OBVIOUS
  <2> QED BY <1>2, <1>3, <1>5, <2>1, Zenon DEF IsRing
<1>7. ASSUME NEW k \in 1 .. size - n PROVE D[k] = B[k]
  <2>1. k \in 1 .. m /\ k + n <= m /\ n + k \in 1 .. size
    OBVIOUS
  <2>2. Wrap(Wrap(front + n, m) + k - 1, m) = Wrap(front + (n + k) - 1, m)
    BY <2>1 DEF Wrap
  <2>3. B[k] = mem[b + Wrap(Wrap(front + n, m) + k - 1, m)]
    BY <1>4, Zenon DEF IsRing
  <2>4. D[k] = R[n + k] /\ R[n + k] = mem[b + Wrap(front + (n + k) - 1, m)]
    BY <1>2, <1>5, <2>1, Zenon DEF IsRing
  <2> QED BY <2>2, <2>3, <2>4, Zenon
<1>8. C = A /\ D = B
  BY <1>3, <1>4, <1>5, <1>6, <1>7, SameBytes DEF IsRing
<1> QED BY <1>8 DEF R, A, B, C, D, Splits

\* A receive returns the bytes from front on, read in one piece or in two.
LEMMA ReceivedBytes ==
  ASSUME memory \in [HeapAddresses -> Bytes], NEW b \in Nat, NEW m \in Nat \ {0},
         NEW front \in 0 .. m - 1, NEW n \in 1 .. m, HEAP_START <= b, b + m <= HEAP_END
  PROVE  /\ n <= m - front => BytesAt(b + front, n) = RingBytes(memory, b, m, front, n)
         /\ n > m - front => BytesAt(b + front, m - front) \o BytesAt(b, n - (m - front))
                               = RingBytes(memory, b, m, front, n)
<1> DEFINE R == RingBytes(memory, b, m, front, n)
           end == m - front
<1>1. IsRing(R, memory, b, m, front, n)
  BY RingBytesSeq
<1> HIDE DEF R
<1>2. R \in Seq(Bytes) /\ Len(R) = n /\ n \in Nat /\ end \in 1 .. m
  BY <1>1 DEF IsRing
<1>3. \A k \in 1 .. n : R[k] = memory[b + Wrap(front + k - 1, m)]
  BY <1>1, Zenon DEF IsRing
<1>4. HEAP_START \in Nat /\ HEAP_END \in Nat
  BY HeapAssumption DEF HEAP_END
<1>5. ASSUME NEW a \in Nat, NEW c \in Nat, HEAP_START <= a, a + c <= HEAP_END
      PROVE  /\ BytesAt(a, c) \in Seq(Bytes) /\ Len(BytesAt(a, c)) = c
             /\ \A k \in 1 .. c : BytesAt(a, c)[k] = memory[a + k - 1]
  <2>1. \A k \in 1 .. c : a + k - 1 \in HeapAddresses
    BY <1>4, <1>5 DEF HeapAddresses
  <2>2. \A k \in 1 .. c : memory[a + k - 1] \in Bytes
    BY <2>1, Zenon
  <2>3. BytesAt(a, c) \in [1 .. c -> Bytes]
    BY <2>2, Zenon DEF BytesAt
  <2>4. \A k \in 1 .. c : BytesAt(a, c)[k] = memory[a + k - 1]
    BY Zenon DEF BytesAt
  <2> HIDE DEF BytesAt
  <2> QED BY <2>3, <2>4
<1>6. CASE n <= end
  <2> DEFINE T == BytesAt(b + front, n)
  <2>1. b + front \in Nat /\ HEAP_START <= b + front /\ b + front + n <= HEAP_END
    BY <1>2, <1>4, <1>6
  <2>2. T \in Seq(Bytes) /\ Len(T) = n /\ \A k \in 1 .. n : T[k] = memory[b + front + k - 1]
    BY <1>2, <1>5, <2>1
  <2> HIDE DEF T
  <2>3. ASSUME NEW k \in 1 .. n PROVE T[k] = R[k]
    <3>1. b + Wrap(front + k - 1, m) = b + front + k - 1
      BY <1>6 DEF Wrap
    <3> QED BY <1>3, <2>2, <3>1, Zenon
  <2>4. T = R
    BY <1>2, <2>2, <2>3, SameBytes
  <2> QED BY <1>6, <2>4, <1>2 DEF T, R
<1>7. CASE n > end
  <2> DEFINE T1 == BytesAt(b + front, end)
             T2 == BytesAt(b, n - end)
  <2>1. /\ b + front \in Nat /\ HEAP_START <= b + front /\ b + front + end <= HEAP_END /\ end \in Nat
        /\ n - end \in Nat /\ b + (n - end) <= HEAP_END
    BY <1>2, <1>4, <1>7
  <2>2. T1 \in Seq(Bytes) /\ Len(T1) = end /\ \A k \in 1 .. end : T1[k] = memory[b + front + k - 1]
    <3> HIDE DEF end
    <3> QED BY <1>5, <2>1
  <2>3. T2 \in Seq(Bytes) /\ Len(T2) = n - end /\ \A k \in 1 .. n - end : T2[k] = memory[b + k - 1]
    <3> HIDE DEF end
    <3> QED BY <1>5, <2>1
  <2> HIDE DEF T1, T2, end
  <2>4. /\ T1 \o T2 \in Seq(Bytes) /\ Len(T1 \o T2) = n
        /\ \A k \in 1 .. n : (T1 \o T2)[k] = IF k <= end THEN T1[k] ELSE T2[k - end]
    <3>1. /\ T1 \o T2 \in Seq(Bytes) /\ Len(T1 \o T2) = end + (n - end)
          /\ \A k \in 1 .. end + (n - end) : (T1 \o T2)[k] = IF k <= end THEN T1[k] ELSE T2[k - end]
      BY <2>1, <2>2, <2>3, Joined
    <3>2. end + (n - end) = n
      BY <1>2, <2>1
    <3> QED BY <3>1, <3>2, Zenon
  <2>5. ASSUME NEW k \in 1 .. n PROVE (T1 \o T2)[k] = R[k]
    <3>1. CASE k <= end
      <4>1. b + Wrap(front + k - 1, m) = b + front + k - 1 /\ k \in 1 .. end
        BY <1>2, <3>1 DEF Wrap, end
      <4> QED BY <1>3, <2>2, <2>4, <3>1, <4>1, Zenon
    <3>2. CASE ~(k <= end)
      <4>1. b + Wrap(front + k - 1, m) = b + (k - end) - 1 /\ k - end \in 1 .. n - end
        BY <1>2, <3>2 DEF Wrap, end
      <4> QED BY <1>3, <2>3, <2>4, <3>2, <4>1, Zenon
    <3> QED BY <3>1, <3>2, Zenon
  <2>6. T1 \o T2 = R
    BY <1>2, <2>4, <2>5, SameBytes, Zenon
  <2> QED BY <1>2, <1>7, <2>6 DEF T1, T2, R, end
<1> QED BY <1>2, <1>6, <1>7

\* The entries of g_queues.
QueueRecords ==
  [in_use : BOOLEAN, buffer : Nat, front : Nat, rear : Nat, size : Nat, max_size : Nat]

\* What holds of a queue in use: its counters agree, and its block lies in
\* the heap below top.
QueueOK(r, top) ==
  /\ r.max_size \in Sizes
  /\ r.front < r.max_size /\ r.size <= r.max_size
  /\ r.rear = Wrap(r.front + r.size, r.max_size)
  /\ HEAP_START <= r.buffer /\ r.buffer + r.max_size <= top

\* The blocks of two queues share no byte.
Apart(r, s) == r.buffer + r.max_size <= s.buffer \/ s.buffer + s.max_size <= r.buffer

\* The inductive invariant of the queues and their memory.
QueuesIInv ==
  /\ HeapIInv
  /\ memory \in [HeapAddresses -> Bytes]
  /\ queues \in [QueueIds -> QueueRecords]
  /\ \A q \in QueueIds : queues[q].in_use => QueueOK(queues[q], heap_ptr)
  /\ \A p, q \in QueueIds :
       p # q /\ queues[p].in_use /\ queues[q].in_use => Apart(queues[p], queues[q])

\* The fields of a queue in use.
LEMMA QueueTypes ==
  ASSUME NEW r \in QueueRecords, NEW top \in HEAP_START .. HEAP_END - 1, QueueOK(r, top)
  PROVE  /\ r.max_size \in Nat \ {0} /\ r.buffer \in Nat
         /\ r.front \in 0 .. r.max_size - 1 /\ r.rear \in 0 .. r.max_size - 1 /\ r.size \in 0 .. r.max_size
         /\ HEAP_START <= r.buffer /\ r.buffer + r.max_size <= HEAP_END
<1>1. HEAP_START \in Nat /\ HEAP_END \in Nat
  BY HeapAssumption DEF HEAP_END
<1>2. r.max_size \in Nat \ {0}
  <2>1. Sizes \subseteq Nat \ {0}
    BY HeapAssumption, QueuesAssumption
  <2> QED BY <2>1, Zenon DEF QueueOK
<1>3. r.buffer \in Nat /\ r.front \in Nat /\ r.rear \in Nat /\ r.size \in Nat
  BY DEF QueueRecords
<1> QED BY <1>1, <1>2, <1>3 DEF QueueOK, Wrap

\* The queues after boot.
LEMMA QueuesInitIInv == QueuesInit => QueuesIInv
<1> SUFFICES ASSUME QueuesInit PROVE QueuesIInv
  OBVIOUS
<1>1. HeapIInv
  BY HeapInitIInv DEF QueuesInit
<1>2. 0 \in Bytes /\ memory \in [HeapAddresses -> Bytes]
  BY DEF QueuesInit, Bytes
<1>3. queues \in [QueueIds -> QueueRecords] /\ \A q \in QueueIds : ~queues[q].in_use
  BY DEF QueuesInit, QueueRecords
<1> QED BY <1>1, <1>2, <1>3, Zenon DEF QueuesIInv

\* A call that changes the entry of one queue preserves the invariant when
\* the new entry is right and its block apart from those of the others.
LEMMA EntryIInv ==
  ASSUME QueuesIInv, NEW q \in QueueIds, NEW r \in QueueRecords,
         queues' = [queues EXCEPT ![q] = r],
         HeapIInv', heap_ptr <= heap_ptr', memory' \in [HeapAddresses -> Bytes],
         r.in_use => QueueOK(r, heap_ptr'),
         r.in_use => \A p \in QueueIds \ {q} : queues[p].in_use => Apart(queues[p], r)
  PROVE  QueuesIInv'
<1>1. HEAP_START \in Nat /\ HEAP_END \in Nat
  BY HeapAssumption DEF HEAP_END
<1>2. heap_ptr \in Nat /\ heap_ptr' \in Nat /\ heap_ptr \in HEAP_START .. HEAP_END - 1
  BY <1>1 DEF QueuesIInv, HeapIInv
<1>3. queues \in [QueueIds -> QueueRecords]
  BY DEF QueuesIInv
<1>4. queues' \in [QueueIds -> QueueRecords] /\ queues'[q] = r
  BY <1>3
<1>5. \A p \in QueueIds \ {q} : queues'[p] = queues[p]
  BY <1>3
<1>6. ASSUME NEW p \in QueueIds, queues'[p].in_use PROVE QueueOK(queues'[p], heap_ptr')
  <2>1. CASE p = q
    BY <1>4, <1>6, <2>1, Zenon
  <2>2. CASE p # q
    <3> DEFINE s == queues[p]
    <3>1. QueueOK(s, heap_ptr) /\ s \in QueueRecords
      BY <1>3, <1>5, <1>6, <2>2, Zenon DEF QueuesIInv
    <3> HIDE DEF s
    <3>2. s.max_size \in Nat /\ s.buffer \in Nat
      BY <1>2, <3>1, QueueTypes
    <3>3. QueueOK(s, heap_ptr')
      BY <1>2, <3>1, <3>2 DEF QueueOK
    <3> QED BY <1>5, <2>2, <3>3, Zenon DEF s
  <2> QED BY <2>1, <2>2
<1>7. ASSUME NEW p1 \in QueueIds, NEW p2 \in QueueIds, p1 # p2, queues'[p1].in_use, queues'[p2].in_use
      PROVE  Apart(queues'[p1], queues'[p2])
  <2>1. CASE p1 # q /\ p2 # q
    BY <1>5, <1>7, <2>1, Zenon DEF QueuesIInv
  <2>2. CASE p2 = q
    BY <1>4, <1>5, <1>7, <2>2, Zenon
  <2>3. CASE p1 = q
    <3>1. Apart(queues'[p2], queues'[p1])
      BY <1>4, <1>5, <1>7, <2>3, Zenon
    <3> QED BY <3>1, Zenon DEF Apart
  <2> QED BY <2>1, <2>2, <2>3
<1> QED BY <1>4, <1>6, <1>7, Zenon DEF QueuesIInv

\* The block malloc returns begins where heap_ptr stood.
LEMMA MallocBlock ==
  ASSUME NoWrap, HeapIInv, NEW size \in Sizes, malloc(size)
  PROVE  /\ size \in Nat /\ heap_ptr \in Nat /\ HEAP_START <= heap_ptr
         /\ heap_ptr' = heap_ptr + size
<1>1. size \in Nat /\ HEAP_START \in Nat /\ HEAP_END \in Nat
  BY HeapAssumption DEF HEAP_END
<1>2. heap_ptr \in Nat /\ heap_ptr < HEAP_END /\ HEAP_START <= heap_ptr
  BY <1>1 DEF HeapIInv
<1>3. HEAP_END + size <= AddressModulus /\ AddressModulus \in Nat
  BY HeapAssumption DEF NoWrap
<1> QED BY <1>1, <1>2, <1>3 DEF malloc, Advance

\* ipc_queue_create gives the queue a block of its own.
LEMMA CreateQueueIInv ==
  ASSUME NoWrap, QueuesIInv, NEW q \in QueueIds, NEW size \in Sizes, ipc_queue_create(q, size)
  PROVE  QueuesIInv'
<1> DEFINE r == [in_use |-> TRUE, buffer |-> heap_ptr, front |-> 0, rear |-> 0, size |-> 0, max_size |-> size]
<1>1. HeapIInv /\ malloc(size) /\ queues' = [queues EXCEPT ![q] = r] /\ memory' = memory
  BY Zenon DEF QueuesIInv, ipc_queue_create
<1>2. /\ size \in Nat \ {0} /\ heap_ptr \in Nat /\ HEAP_START <= heap_ptr
      /\ heap_ptr' = heap_ptr + size
  BY <1>1, MallocBlock, QueuesAssumption
<1>3. HeapIInv' /\ heap_ptr <= heap_ptr'
  BY <1>1, <1>2, MallocIInv
<1>4. r \in QueueRecords
  BY <1>2 DEF QueueRecords
<1>5. QueueOK(r, heap_ptr')
  BY <1>2 DEF QueueOK, Wrap
<1>6. ASSUME NEW p \in QueueIds \ {q}, queues[p].in_use PROVE Apart(queues[p], r)
  <2>1. QueueOK(queues[p], heap_ptr)
    BY <1>6, Zenon DEF QueuesIInv
  <2> QED BY <2>1, Zenon DEF Apart, QueueOK
<1>7. memory' \in [HeapAddresses -> Bytes]
  BY <1>1 DEF QueuesIInv
<1> HIDE DEF r
<1> QED BY <1>1, <1>3, <1>4, <1>5, <1>6, <1>7, EntryIInv, Zenon

\* ipc_queue_destroy changes in_use alone.
LEMMA DestroyQueueIInv ==
  ASSUME QueuesIInv, NEW q \in QueueIds, ipc_queue_destroy(q)
  PROVE  QueuesIInv'
<1> DEFINE r == [queues[q] EXCEPT !.in_use = FALSE]
<1>1. /\ queues \in [QueueIds -> QueueRecords] /\ queues[q] \in QueueRecords
      /\ heap_ptr' = heap_ptr /\ blocks' = blocks /\ memory' = memory
  BY DEF QueuesIInv, ipc_queue_destroy
<1>2. queues' = [queues EXCEPT ![q] = r]
  BY <1>1 DEF ipc_queue_destroy
<1>3. r \in QueueRecords /\ ~r.in_use
  BY <1>1, Zenon DEF QueueRecords
<1>4. HeapIInv' /\ heap_ptr <= heap_ptr' /\ memory' \in [HeapAddresses -> Bytes]
  <2>1. HeapIInv' /\ memory' \in [HeapAddresses -> Bytes]
    BY <1>1 DEF QueuesIInv, HeapIInv
  <2>2. heap_ptr \in Nat
    BY HeapAssumption DEF QueuesIInv, HeapIInv, HEAP_END
  <2> QED BY <1>1, <2>1, <2>2
<1> HIDE DEF r
<1> QED BY <1>2, <1>3, <1>4, EntryIInv, Zenon

\* The entry of a queue after a send of n bytes, and after a receive of n.
SentEntry(r, n) == [r EXCEPT !.rear = Wrap(r.front + (r.size + n), r.max_size), !.size = r.size + n]
ReceivedEntry(r, n) == [r EXCEPT !.front = Wrap(r.front + n, r.max_size), !.size = r.size - n]

\* Both keep the block of the queue, and the counters in agreement.
LEMMA EntriesOK ==
  ASSUME NEW r \in QueueRecords, r.in_use, NEW top \in HEAP_START .. HEAP_END - 1, QueueOK(r, top), NEW n \in Nat
  PROVE  /\ r.size + n <= r.max_size =>
              /\ SentEntry(r, n) \in QueueRecords /\ SentEntry(r, n).in_use /\ QueueOK(SentEntry(r, n), top)
              /\ SentEntry(r, n).buffer = r.buffer /\ SentEntry(r, n).max_size = r.max_size
         /\ n <= r.size =>
              /\ ReceivedEntry(r, n) \in QueueRecords /\ ReceivedEntry(r, n).in_use
              /\ QueueOK(ReceivedEntry(r, n), top)
              /\ ReceivedEntry(r, n).buffer = r.buffer /\ ReceivedEntry(r, n).max_size = r.max_size
<1>1. /\ r.max_size \in Nat \ {0} /\ r.buffer \in Nat
      /\ r.front \in 0 .. r.max_size - 1 /\ r.rear \in 0 .. r.max_size - 1 /\ r.size \in 0 .. r.max_size
  BY QueueTypes
<1>2. ASSUME r.size + n <= r.max_size
      PROVE  /\ SentEntry(r, n) \in QueueRecords /\ SentEntry(r, n).in_use /\ QueueOK(SentEntry(r, n), top)
             /\ SentEntry(r, n).buffer = r.buffer /\ SentEntry(r, n).max_size = r.max_size
  <2>1. Wrap(r.front + (r.size + n), r.max_size) \in Nat /\ r.size + n \in Nat
    BY <1>1, <1>2 DEF Wrap
  <2>2. /\ SentEntry(r, n) \in QueueRecords /\ SentEntry(r, n).in_use
        /\ SentEntry(r, n).buffer = r.buffer /\ SentEntry(r, n).max_size = r.max_size
        /\ SentEntry(r, n).front = r.front /\ SentEntry(r, n).size = r.size + n
        /\ SentEntry(r, n).rear = Wrap(r.front + (r.size + n), r.max_size)
    BY <2>1, Zenon DEF SentEntry, QueueRecords
  <2>3. QueueOK(SentEntry(r, n), top)
    BY <1>2, <2>2, Zenon DEF QueueOK
  <2> QED BY <2>2, <2>3
<1>3. ASSUME n <= r.size
      PROVE  /\ ReceivedEntry(r, n) \in QueueRecords /\ ReceivedEntry(r, n).in_use
             /\ QueueOK(ReceivedEntry(r, n), top)
             /\ ReceivedEntry(r, n).buffer = r.buffer /\ ReceivedEntry(r, n).max_size = r.max_size
  <2>1. /\ Wrap(r.front + n, r.max_size) \in Nat /\ r.size - n \in Nat /\ r.size - n <= r.max_size
        /\ Wrap(r.front + n, r.max_size) < r.max_size
        /\ Wrap(Wrap(r.front + n, r.max_size) + (r.size - n), r.max_size) = Wrap(r.front + r.size, r.max_size)
    BY <1>1, <1>3 DEF Wrap
  <2>2. /\ ReceivedEntry(r, n) \in QueueRecords /\ ReceivedEntry(r, n).in_use
        /\ ReceivedEntry(r, n).buffer = r.buffer /\ ReceivedEntry(r, n).max_size = r.max_size
        /\ ReceivedEntry(r, n).front = Wrap(r.front + n, r.max_size) /\ ReceivedEntry(r, n).size = r.size - n
        /\ ReceivedEntry(r, n).rear = r.rear
    BY <2>1, Zenon DEF ReceivedEntry, QueueRecords
  <2>3. QueueOK(ReceivedEntry(r, n), top)
    BY <2>1, <2>2, Zenon DEF QueueOK
  <2> QED BY <2>2, <2>3
<1> QED BY <1>2, <1>3

\* What is known of the queue a call is made on.
LEMMA EntryFacts ==
  ASSUME QueuesIInv, NEW q \in QueueIds, queues[q].in_use
  PROVE  LET r == queues[q]
         IN /\ queues \in [QueueIds -> QueueRecords] /\ r \in QueueRecords
            /\ heap_ptr \in HEAP_START .. HEAP_END - 1 /\ QueueOK(r, heap_ptr)
            /\ r.max_size \in Nat \ {0} /\ r.buffer \in Nat
            /\ r.front \in 0 .. r.max_size - 1 /\ r.size \in 0 .. r.max_size
            /\ r.rear = Wrap(r.front + r.size, r.max_size) /\ r.rear \in 0 .. r.max_size - 1
            /\ HEAP_START <= r.buffer /\ r.buffer + r.max_size <= HEAP_END
<1> DEFINE r == queues[q]
<1>1. /\ queues \in [QueueIds -> QueueRecords] /\ r \in QueueRecords
      /\ heap_ptr \in HEAP_START .. HEAP_END - 1 /\ QueueOK(r, heap_ptr)
  BY DEF QueuesIInv, HeapIInv
<1> HIDE DEF r
<1>2. /\ r.max_size \in Nat \ {0} /\ r.buffer \in Nat
      /\ r.front \in 0 .. r.max_size - 1 /\ r.rear \in 0 .. r.max_size - 1 /\ r.size \in 0 .. r.max_size
      /\ HEAP_START <= r.buffer /\ r.buffer + r.max_size <= HEAP_END
  BY <1>1, QueueTypes
<1>3. r.rear = Wrap(r.front + r.size, r.max_size)
  BY <1>1 DEF QueueOK
<1> QED BY <1>1, <1>2, <1>3 DEF r

\* What ipc_queue_send does to the entry and to the memory.
LEMMA SendFacts ==
  ASSUME QueuesIInv, NEW q \in QueueIds, NEW d \in Data, ipc_queue_send(q, d)
  PROVE  LET r == queues[q]
         IN /\ r.in_use /\ d \in Seq(Bytes) /\ d # <<>> /\ Len(d) \in Nat \ {0}
            /\ r.size + Len(d) <= r.max_size
            /\ memory' = AfterSend(memory, r.buffer, r.max_size, r.rear, d)
            /\ queues' = [queues EXCEPT ![q] = SentEntry(r, Len(d))]
            /\ heap_ptr' = heap_ptr /\ blocks' = blocks /\ data' = data
<1> DEFINE r == queues[q]
           n == Len(d)
           end == r.max_size - r.rear
<1>1. r.in_use /\ r.size + n <= r.max_size /\ heap_ptr' = heap_ptr /\ blocks' = blocks /\ data' = data
  BY DEF ipc_queue_send
<1>2. d \in Seq(Bytes) /\ d # <<>>
  BY QueuesAssumption
<1>3. n \in Nat \ {0}
  BY <1>2
<1>4. /\ queues \in [QueueIds -> QueueRecords] /\ r \in QueueRecords
      /\ r.max_size \in Nat \ {0} /\ r.buffer \in Nat
      /\ r.front \in 0 .. r.max_size - 1 /\ r.size \in 0 .. r.max_size
      /\ r.rear = Wrap(r.front + r.size, r.max_size) /\ r.rear \in 0 .. r.max_size - 1
  BY <1>1, EntryFacts
<1>5. /\ n <= end => (r.rear + n) % r.max_size = Wrap(r.front + (r.size + n), r.max_size)
      /\ ~(n <= end) => n - end = Wrap(r.front + (r.size + n), r.max_size)
  <2> HIDE DEF r, n
  <2>1. r.rear + n \in Nat /\ r.rear + n < r.max_size + r.max_size
    BY <1>1, <1>3, <1>4
  <2>2. (r.rear + n) % r.max_size = Wrap(r.rear + n, r.max_size)
    BY <1>4, <2>1, RingModulo
  <2>3. Wrap(r.rear + n, r.max_size) = Wrap(r.front + (r.size + n), r.max_size)
    BY <1>1, <1>3, <1>4 DEF Wrap
  <2>4. ~(n <= end) => n - end = Wrap(r.rear + n, r.max_size)
    BY <1>1, <1>3, <1>4 DEF Wrap
  <2> QED BY <2>2, <2>3, <2>4
<1>6. IF n <= end
        THEN /\ memory' = Copied(memory, r.buffer + r.rear, d)
             /\ queues' = [queues EXCEPT ![q].rear = (r.rear + n) % r.max_size, ![q].size = @ + n]
        ELSE /\ memory' = Copied(Copied(memory, r.buffer + r.rear, SubSeq(d, 1, end)),
                                 r.buffer, SubSeq(d, end + 1, n))
             /\ queues' = [queues EXCEPT ![q].rear = n - end, ![q].size = @ + n]
  BY DEF ipc_queue_send
<1>7. memory' = AfterSend(memory, r.buffer, r.max_size, r.rear, d)
  BY <1>6 DEF AfterSend
<1>8. \E x : x = Wrap(r.front + (r.size + n), r.max_size)
             /\ queues' = [queues EXCEPT ![q].rear = x, ![q].size = @ + n]
  BY <1>5, <1>6, Zenon
<1>9. PICK x : x = Wrap(r.front + (r.size + n), r.max_size)
               /\ queues' = [queues EXCEPT ![q].rear = x, ![q].size = @ + n]
  BY <1>8, Zenon
<1>10. queues' = [queues EXCEPT ![q] = [queues[q] EXCEPT !.rear = x, !.size = queues[q].size + n]]
  BY <1>4, <1>9, Zenon DEF QueueRecords
<1>11. queues' = [queues EXCEPT ![q] = SentEntry(r, n)]
  BY <1>9, <1>10, Zenon DEF SentEntry
<1> QED BY <1>1, <1>2, <1>3, <1>7, <1>11

\* What ipc_queue_recv does to the entry, and the bytes it returns.
LEMMA ReceiveFacts ==
  ASSUME QueuesIInv, NEW q \in QueueIds, NEW max \in RecvSizes, ipc_queue_recv(q, max)
  PROVE  LET r == queues[q]
             n == IF max < r.size THEN max ELSE r.size
         IN /\ r.in_use /\ n \in 1 .. r.size
            /\ data' = RingBytes(memory, r.buffer, r.max_size, r.front, n)
            /\ queues' = [queues EXCEPT ![q] = ReceivedEntry(r, n)]
            /\ heap_ptr' = heap_ptr /\ blocks' = blocks /\ memory' = memory
<1> DEFINE r == queues[q]
           n == IF max < r.size THEN max ELSE r.size
           end == r.max_size - r.front
<1>1. r.in_use /\ r.size # 0 /\ heap_ptr' = heap_ptr /\ blocks' = blocks /\ memory' = memory
  BY DEF ipc_queue_recv
<1>2. max \in Nat \ {0}
  BY QueuesAssumption
<1>3. /\ queues \in [QueueIds -> QueueRecords] /\ r \in QueueRecords
      /\ r.max_size \in Nat \ {0} /\ r.buffer \in Nat
      /\ r.front \in 0 .. r.max_size - 1 /\ r.size \in 0 .. r.max_size
      /\ HEAP_START <= r.buffer /\ r.buffer + r.max_size <= HEAP_END
  BY <1>1, EntryFacts
<1>4. memory \in [HeapAddresses -> Bytes]
  BY DEF QueuesIInv
<1>5. IF n <= end
        THEN /\ data' = BytesAt(r.buffer + r.front, n)
             /\ queues' = [queues EXCEPT ![q].front = (r.front + n) % r.max_size, ![q].size = @ - n]
        ELSE /\ data' = BytesAt(r.buffer + r.front, end) \o BytesAt(r.buffer, n - end)
             /\ queues' = [queues EXCEPT ![q].front = n - end, ![q].size = @ - n]
  BY DEF ipc_queue_recv
<1>6. n \in 1 .. r.size /\ n \in 1 .. r.max_size /\ n \in Nat
  <2> HIDE DEF r
  <2> QED BY <1>1, <1>2, <1>3
<1> HIDE DEF n
<1>7. /\ (r.front + n) % r.max_size = Wrap(r.front + n, r.max_size)
      /\ ~(n <= end) => n - end = Wrap(r.front + n, r.max_size) /\ n > end
  <2> HIDE DEF r
  <2>1. r.front + n \in Nat /\ r.front + n < r.max_size + r.max_size
    BY <1>3, <1>6
  <2>2. (r.front + n) % r.max_size = Wrap(r.front + n, r.max_size)
    BY <1>3, <2>1, RingModulo
  <2>3. ~(n <= end) => n - end = Wrap(r.front + n, r.max_size) /\ n > end
    BY <1>3, <1>6 DEF Wrap
  <2> QED BY <2>2, <2>3
<1>8. data' = RingBytes(memory, r.buffer, r.max_size, r.front, n)
  <2>1. /\ n <= end => BytesAt(r.buffer + r.front, n) = RingBytes(memory, r.buffer, r.max_size, r.front, n)
        /\ n > end => BytesAt(r.buffer + r.front, end) \o BytesAt(r.buffer, n - end)
                        = RingBytes(memory, r.buffer, r.max_size, r.front, n)
    <3> HIDE DEF r
    <3> QED BY <1>3, <1>4, <1>6, ReceivedBytes, Zenon
  <2> HIDE DEF r, end
  <2> QED BY <1>5, <1>7, <2>1, Zenon
<1>9. \E x : x = Wrap(r.front + n, r.max_size)
             /\ queues' = [queues EXCEPT ![q].front = x, ![q].size = @ - n]
  BY <1>5, <1>7, Zenon
<1>10. PICK x : x = Wrap(r.front + n, r.max_size)
               /\ queues' = [queues EXCEPT ![q].front = x, ![q].size = @ - n]
  BY <1>9, Zenon
<1>11. queues' = [queues EXCEPT ![q] = [queues[q] EXCEPT !.front = x, !.size = queues[q].size - n]]
  BY <1>3, <1>10, Zenon DEF QueueRecords
<1>12. queues' = [queues EXCEPT ![q] = ReceivedEntry(r, n)]
  BY <1>10, <1>11, Zenon DEF ReceivedEntry
<1> QED BY <1>1, <1>6, <1>8, <1>12 DEF n

\* A new entry with the block of the old one is as far from the others.
LEMMA SameBlockIInv ==
  ASSUME QueuesIInv, NEW q \in QueueIds, queues[q].in_use, NEW r \in QueueRecords,
         queues' = [queues EXCEPT ![q] = r], QueueOK(r, heap_ptr),
         r.buffer = queues[q].buffer, r.max_size = queues[q].max_size,
         heap_ptr' = heap_ptr, blocks' = blocks, memory' \in [HeapAddresses -> Bytes]
  PROVE  QueuesIInv'
<1>1. HeapIInv'
  BY DEF QueuesIInv, HeapIInv
<1>2. heap_ptr \in Nat
  BY HeapAssumption DEF QueuesIInv, HeapIInv, HEAP_END
<1>3. ASSUME NEW p \in QueueIds \ {q}, queues[p].in_use PROVE Apart(queues[p], r)
  <2>1. Apart(queues[p], queues[q])
    BY <1>3, Zenon DEF QueuesIInv
  <2> QED BY <2>1, Zenon DEF Apart
<1>4. heap_ptr <= heap_ptr'
  <2>1. heap_ptr' = heap_ptr
    OBVIOUS
  <2> QED BY ONLY <1>2, <2>1
<1>5. QueueOK(r, heap_ptr')
  BY Zenon
<1> QED BY <1>1, <1>3, <1>4, <1>5, EntryIInv, Zenon

\* ipc_queue_send preserves the invariant.
LEMMA SendQueueIInv ==
  ASSUME QueuesIInv, NEW q \in QueueIds, NEW d \in Data, ipc_queue_send(q, d)
  PROVE  QueuesIInv'
<1> DEFINE r == queues[q]
           r2 == SentEntry(r, Len(d))
<1>1. /\ r.in_use /\ d \in Seq(Bytes) /\ Len(d) \in Nat \ {0} /\ r.size + Len(d) <= r.max_size
      /\ memory' = AfterSend(memory, r.buffer, r.max_size, r.rear, d)
      /\ queues' = [queues EXCEPT ![q] = r2]
      /\ heap_ptr' = heap_ptr /\ blocks' = blocks
  BY SendFacts
<1>2. /\ r \in QueueRecords /\ heap_ptr \in HEAP_START .. HEAP_END - 1 /\ QueueOK(r, heap_ptr)
      /\ r.max_size \in Nat \ {0} /\ r.buffer \in Nat /\ r.rear \in 0 .. r.max_size - 1 /\ r.size \in 0 .. r.max_size
      /\ HEAP_START <= r.buffer /\ r.buffer + r.max_size <= HEAP_END
  BY <1>1, EntryFacts
<1>3. memory \in [HeapAddresses -> Bytes]
  BY DEF QueuesIInv
<1>4. /\ r2 \in QueueRecords /\ r2.in_use /\ QueueOK(r2, heap_ptr)
      /\ r2.buffer = r.buffer /\ r2.max_size = r.max_size
  <2> HIDE DEF r
  <2> QED BY <1>1, <1>2, EntriesOK
<1>5. memory' \in [HeapAddresses -> Bytes]
  <2> HIDE DEF r
  <2>1. Len(d) <= r.max_size
    BY <1>1, <1>2
  <2>2. Sent(memory', memory, r.buffer, r.max_size, r.rear, d)
    BY <1>1, <1>2, <1>3, <2>1, SentBytes
  <2> QED BY <2>2, Zenon DEF Sent
<1> HIDE DEF r2
<1> QED BY <1>1, <1>4, <1>5, SameBlockIInv, Zenon

\* ipc_queue_recv preserves the invariant.
LEMMA ReceiveQueueIInv ==
  ASSUME QueuesIInv, NEW q \in QueueIds, NEW max \in RecvSizes, ipc_queue_recv(q, max)
  PROVE  QueuesIInv'
<1> DEFINE r == queues[q]
           n == IF max < r.size THEN max ELSE r.size
           r2 == ReceivedEntry(r, n)
<1>1. /\ r.in_use /\ n \in 1 .. r.size
      /\ queues' = [queues EXCEPT ![q] = r2]
      /\ heap_ptr' = heap_ptr /\ blocks' = blocks /\ memory' = memory
  BY ReceiveFacts
<1> HIDE DEF n
<1>2. /\ r \in QueueRecords /\ heap_ptr \in HEAP_START .. HEAP_END - 1 /\ QueueOK(r, heap_ptr)
      /\ r.size \in Nat
  BY <1>1, EntryFacts
<1>3. memory' \in [HeapAddresses -> Bytes]
  BY <1>1 DEF QueuesIInv
<1>4. /\ r2 \in QueueRecords /\ QueueOK(r2, heap_ptr)
      /\ r2.buffer = r.buffer /\ r2.max_size = r.max_size
  <2> HIDE DEF r
  <2>1. n \in Nat /\ n <= r.size
    BY <1>1, <1>2
  <2> QED BY <1>1, <1>2, <2>1, EntriesOK
<1> HIDE DEF r2
<1> QED BY <1>1, <1>3, <1>4, SameBlockIInv, Zenon

\* Every call of the queue interface preserves the invariant.
LEMMA QueuesNextIInv == ASSUME NoWrap PROVE QueuesIInv /\ [QueuesNext]_qvars => QueuesIInv'
<1>1. ASSUME QueuesIInv, QueuesNext PROVE QueuesIInv'
  BY <1>1, CreateQueueIInv, DestroyQueueIInv, SendQueueIInv, ReceiveQueueIInv DEF QueuesNext
<1>2. ASSUME QueuesIInv, UNCHANGED qvars PROVE QueuesIInv'
  BY <1>2 DEF qvars, QueuesIInv, HeapIInv
<1> QED BY <1>1, <1>2

\* What a queue with entry r holds in mem; a closed queue holds nothing.
Held(mem, r) == IF r.in_use THEN RingBytes(mem, r.buffer, r.max_size, r.front, r.size) ELSE <<>>

\* The contents of the queues, with the modulo written out.
ContentsHeld == \A q \in QueueIds : QueueContents(q) = Held(memory, queues[q])

\* The modulo of QueueContents goes round once at most.
LEMMA HeldContents == QueuesIInv => ContentsHeld
<1> SUFFICES ASSUME QueuesIInv, NEW q \in QueueIds PROVE QueueContents(q) = Held(memory, queues[q])
  BY DEF ContentsHeld
<1> DEFINE r == queues[q]
<1>1. CASE r.in_use
  <2>1. r.max_size \in Nat \ {0} /\ r.front \in 0 .. r.max_size - 1 /\ r.size \in 0 .. r.max_size
    BY <1>1, EntryFacts
  <2> DEFINE m == r.max_size
             f == r.front
             s == r.size
  <2>2. ASSUME NEW k \in 1 .. s PROVE (f + k - 1) % m = Wrap(f + k - 1, m)
    <3> HIDE DEF r
    <3>1. f + k - 1 \in Nat /\ f + k - 1 < m + m
      BY <2>1
    <3> QED BY <2>1, <3>1, RingModulo
  <2>3. QueueContents(q) = [k \in 1 .. s |-> memory[r.buffer + ((f + k - 1) % m)]]
    BY <1>1 DEF QueueContents
  <2>4. Held(memory, r) = [k \in 1 .. s |-> memory[r.buffer + Wrap(f + k - 1, m)]]
    BY <1>1 DEF Held, RingBytes
  <2> HIDE DEF r, m, f, s
  <2>5. QueueContents(q) = Held(memory, r)
    BY <2>2, <2>3, <2>4
  <2> QED BY <2>5 DEF r
<1>2. CASE ~r.in_use
  BY <1>2 DEF QueueContents, Held
<1> QED BY <1>1, <1>2

\* The refinement mapping of QCh, as it is substituted.
QOpen == {q \in QueueIds : queues[q].in_use}
QCapacity == [q \in QueueIds |-> IF queues[q].in_use THEN queues[q].max_size ELSE 0]
QContents == [q \in QueueIds |-> QueueContents(q)]

\* A call that changes the entry of one queue, and no byte another one holds,
\* changes the contents of that queue alone.
LEMMA OneQueueChanges ==
  ASSUME QueuesIInv, QueuesIInv', NEW q \in QueueIds, NEW r \in QueueRecords,
         queues' = [queues EXCEPT ![q] = r],
         \A p \in QueueIds \ {q} : Held(memory', queues[p]) = Held(memory, queues[p])
  PROVE  /\ QContents' = [QContents EXCEPT ![q] = Held(memory', r)]
         /\ QCapacity' = [QCapacity EXCEPT ![q] = IF r.in_use THEN r.max_size ELSE 0]
         /\ QOpen' = IF r.in_use THEN QOpen \cup {q} ELSE QOpen \ {q}
<1>1. queues \in [QueueIds -> QueueRecords]
  BY DEF QueuesIInv
<1>2. queues'[q] = r /\ \A p \in QueueIds \ {q} : queues'[p] = queues[p]
  BY <1>1
<1>3. \A p \in QueueIds : QueueContents(p) = Held(memory, queues[p])
  BY HeldContents DEF ContentsHeld
<1>4. \A p \in QueueIds : QueueContents(p)' = Held(memory', queues'[p])
  <2>1. QueuesIInv' => ContentsHeld'
    BY HeldContents, PTL
  <2> QED BY <2>1 DEF ContentsHeld
<1>5. \A p \in QueueIds : QueueContents(p)' = IF p = q THEN Held(memory', r) ELSE QueueContents(p)
  <2>1. QueueContents(q)' = Held(memory', r)
    BY <1>2, <1>4, Zenon
  <2>2. ASSUME NEW p \in QueueIds \ {q} PROVE QueueContents(p)' = QueueContents(p)
    <3>1. QueueContents(p)' = Held(memory', queues'[p]) /\ queues'[p] = queues[p]
      BY <1>2, <1>4, Zenon
    <3>2. QueueContents(p) = Held(memory, queues[p]) /\ Held(memory', queues[p]) = Held(memory, queues[p])
      BY <1>3, Zenon
    <3> QED BY <3>1, <3>2, Zenon
  <2> QED BY <2>1, <2>2, Zenon
<1>6. QContents' = [QContents EXCEPT ![q] = Held(memory', r)]
  BY <1>5, Zenon DEF QContents
<1>7. QCapacity' = [QCapacity EXCEPT ![q] = IF r.in_use THEN r.max_size ELSE 0]
  <2>1. \A p \in QueueIds : (IF queues'[p].in_use THEN queues'[p].max_size ELSE 0)
                             = IF p = q THEN IF r.in_use THEN r.max_size ELSE 0
                                        ELSE IF queues[p].in_use THEN queues[p].max_size ELSE 0
    BY <1>2
  <2> QED BY <2>1, Zenon DEF QCapacity
<1>8. QOpen' = IF r.in_use THEN QOpen \cup {q} ELSE QOpen \ {q}
  BY <1>2, Zenon DEF QOpen
<1> QED BY <1>6, <1>7, <1>8

\* A send writes no byte of another queue.
LEMMA SendLeavesOthers ==
  ASSUME QueuesIInv, NEW q \in QueueIds, NEW d \in Data, ipc_queue_send(q, d), NEW p \in QueueIds \ {q}
  PROVE  Held(memory', queues[p]) = Held(memory, queues[p])
<1> DEFINE r == queues[q]
           s == queues[p]
           R == RingBytes(memory, s.buffer, s.max_size, s.front, s.size)
           R2 == RingBytes(memory', s.buffer, s.max_size, s.front, s.size)
<1>1. CASE ~s.in_use
  BY <1>1, Zenon DEF Held
<1>2. CASE s.in_use
  <2>1. /\ r.in_use /\ d \in Seq(Bytes) /\ Len(d) \in Nat \ {0} /\ r.size + Len(d) <= r.max_size
        /\ memory' = AfterSend(memory, r.buffer, r.max_size, r.rear, d)
    BY SendFacts
  <2>2. /\ r.max_size \in Nat \ {0} /\ r.buffer \in Nat /\ r.rear \in 0 .. r.max_size - 1 /\ r.size \in 0 .. r.max_size
        /\ HEAP_START <= r.buffer /\ r.buffer + r.max_size <= HEAP_END
    BY <2>1, EntryFacts
  <2>3. /\ s.max_size \in Nat \ {0} /\ s.buffer \in Nat /\ s.front \in 0 .. s.max_size - 1
        /\ s.size \in 0 .. s.max_size
        /\ HEAP_START <= s.buffer /\ s.buffer + s.max_size <= HEAP_END
    BY <1>2, EntryFacts
  <2>4. Apart(s, r)
    BY <1>2, <2>1, Zenon DEF QueuesIInv
  <2>5. memory \in [HeapAddresses -> Bytes]
    BY DEF QueuesIInv
  <2> HIDE DEF r, s
  <2>6. Len(d) <= r.max_size
    BY <2>1, <2>2
  <2>7. /\ memory' \in [HeapAddresses -> Bytes]
        /\ \A a \in HeapAddresses : a < r.buffer \/ a >= r.buffer + r.max_size => memory'[a] = memory[a]
    <3>1. Sent(memory', memory, r.buffer, r.max_size, r.rear, d)
      BY <2>1, <2>2, <2>5, <2>6, SentBytes
    <3> QED BY <3>1, Zenon DEF Sent
  <2>8. HEAP_START \in Nat /\ HEAP_END \in Nat
    BY HeapAssumption DEF HEAP_END
  <2>9. ASSUME NEW k \in 1 .. s.size
        PROVE  memory'[s.buffer + Wrap(s.front + k - 1, s.max_size)]
                 = memory[s.buffer + Wrap(s.front + k - 1, s.max_size)]
    <3> DEFINE a == s.buffer + Wrap(s.front + k - 1, s.max_size)
    <3>1. Wrap(s.front + k - 1, s.max_size) \in 0 .. s.max_size - 1
      BY <2>3 DEF Wrap
    <3>2. a \in HeapAddresses /\ (a < r.buffer \/ a >= r.buffer + r.max_size)
      <4> HIDE DEF Wrap
      <4> QED BY <2>2, <2>3, <2>4, <2>8, <3>1 DEF Apart, HeapAddresses
    <3> HIDE DEF a
    <3>3. memory'[a] = memory[a]
      BY <2>7, <3>2, Zenon
    <3> QED BY <3>3 DEF a
  <2>10. R2 = R
    BY <2>9, Zenon DEF RingBytes
  <2> QED BY <1>2, <2>10, Zenon DEF Held, s
<1> QED BY <1>1, <1>2

\* Creating a queue opens an empty channel.
LEMMA QueueCreateStep ==
  ASSUME NoWrap, QueuesIInv, NEW q \in QueueIds, NEW size \in Sizes, ipc_queue_create(q, size)
  PROVE  QCh!Create(q, size)
<1> DEFINE r == [in_use |-> TRUE, buffer |-> heap_ptr, front |-> 0, rear |-> 0, size |-> 0, max_size |-> size]
<1>1. QueuesIInv'
  BY CreateQueueIInv
<1>2. /\ ~queues[q].in_use /\ queues' = [queues EXCEPT ![q] = r] /\ memory' = memory /\ data' = data
      /\ malloc(size) /\ HeapIInv
  BY Zenon DEF QueuesIInv, ipc_queue_create
<1>3. r \in QueueRecords /\ r.in_use /\ r.max_size = size
  <2>1. size \in Nat /\ heap_ptr \in Nat
    BY <1>2, MallocBlock
  <2> QED BY <2>1 DEF QueueRecords
<1>4. Held(memory', r) = <<>>
  BY DEF Held, RingBytes
<1>5. Held(memory, queues[q]) = <<>> /\ QContents[q] = Held(memory, queues[q])
  BY <1>2, HeldContents, Zenon DEF Held, QContents, ContentsHeld
<1> HIDE DEF r
<1>6. /\ QContents' = [QContents EXCEPT ![q] = <<>>]
      /\ QCapacity' = [QCapacity EXCEPT ![q] = size]
      /\ QOpen' = QOpen \cup {q}
  <2>1. \A p \in QueueIds \ {q} : Held(memory', queues[p]) = Held(memory, queues[p])
    BY <1>2, Zenon
  <2>2. /\ QContents' = [QContents EXCEPT ![q] = Held(memory', r)]
        /\ QCapacity' = [QCapacity EXCEPT ![q] = IF r.in_use THEN r.max_size ELSE 0]
        /\ QOpen' = IF r.in_use THEN QOpen \cup {q} ELSE QOpen \ {q}
    BY <1>1, <1>2, <1>3, <2>1, OneQueueChanges, Zenon
  <2> QED BY <1>3, <1>4, <2>2, Zenon
<1>7. QContents' = QContents
  BY <1>5, <1>6, Zenon DEF QContents
<1>8. q \notin QOpen
  BY <1>2 DEF QOpen
<1> QED BY <1>2, <1>6, <1>7, <1>8 DEF QCh!Create, QOpen, QCapacity, QContents

\* Destroying a queue closes the channel and loses what it held.
LEMMA QueueDestroyStep ==
  ASSUME QueuesIInv, NEW q \in QueueIds, ipc_queue_destroy(q)
  PROVE  QCh!Close(q)
<1> DEFINE r == [queues[q] EXCEPT !.in_use = FALSE]
<1>1. QueuesIInv'
  BY DestroyQueueIInv
<1>2. /\ queues \in [QueueIds -> QueueRecords] /\ queues[q] \in QueueRecords /\ queues[q].in_use
      /\ memory' = memory /\ data' = data
  BY DEF QueuesIInv, ipc_queue_destroy
<1>3. queues' = [queues EXCEPT ![q] = r] /\ r \in QueueRecords /\ ~r.in_use
  BY <1>2, Zenon DEF ipc_queue_destroy, QueueRecords
<1> HIDE DEF r
<1>4. Held(memory', r) = <<>>
  BY <1>3 DEF Held
<1>5. /\ QContents' = [QContents EXCEPT ![q] = <<>>]
      /\ QCapacity' = [QCapacity EXCEPT ![q] = 0]
      /\ QOpen' = QOpen \ {q}
  <2>1. \A p \in QueueIds \ {q} : Held(memory', queues[p]) = Held(memory, queues[p])
    BY <1>2, Zenon
  <2>2. /\ QContents' = [QContents EXCEPT ![q] = Held(memory', r)]
        /\ QCapacity' = [QCapacity EXCEPT ![q] = IF r.in_use THEN r.max_size ELSE 0]
        /\ QOpen' = IF r.in_use THEN QOpen \cup {q} ELSE QOpen \ {q}
    BY <1>1, <1>2, <1>3, <2>1, OneQueueChanges, Zenon
  <2> QED BY <1>3, <1>4, <2>2, Zenon
<1>6. q \in QOpen
  BY <1>2 DEF QOpen
<1> QED BY <1>2, <1>5, <1>6 DEF QCh!Close, QOpen, QCapacity, QContents

\* A send puts its bytes behind those in the channel.
LEMMA QueueSendStep ==
  ASSUME QueuesIInv, NEW q \in QueueIds, NEW d \in Data, ipc_queue_send(q, d)
  PROVE  QCh!Put(q, d)
<1> DEFINE r == queues[q]
           r2 == SentEntry(r, Len(d))
           R == RingBytes(memory, r.buffer, r.max_size, r.front, r.size)
<1>1. QueuesIInv'
  BY SendQueueIInv
<1>2. /\ r.in_use /\ d \in Seq(Bytes) /\ d # <<>> /\ Len(d) \in Nat \ {0} /\ r.size + Len(d) <= r.max_size
      /\ memory' = AfterSend(memory, r.buffer, r.max_size, r.rear, d)
      /\ queues' = [queues EXCEPT ![q] = r2] /\ data' = data
  BY SendFacts
<1>3. /\ r \in QueueRecords /\ heap_ptr \in HEAP_START .. HEAP_END - 1 /\ QueueOK(r, heap_ptr)
      /\ r.max_size \in Nat \ {0} /\ r.buffer \in Nat /\ r.front \in 0 .. r.max_size - 1
      /\ r.size \in 0 .. r.max_size /\ r.rear = Wrap(r.front + r.size, r.max_size)
      /\ HEAP_START <= r.buffer /\ r.buffer + r.max_size <= HEAP_END
  BY <1>2, EntryFacts
<1>4. memory \in [HeapAddresses -> Bytes]
  BY DEF QueuesIInv
<1>5. QContents[q] = R /\ QCapacity[q] = r.max_size /\ q \in QOpen
  <2>1. QContents[q] = Held(memory, r)
    BY HeldContents, Zenon DEF QContents, ContentsHeld
  <2>2. Held(memory, r) = R
    BY <1>2, Zenon DEF Held
  <2> QED BY <1>2, <2>1, <2>2, Zenon DEF QCapacity, QOpen
<1>6. /\ r2 \in QueueRecords /\ r2.in_use /\ r2.buffer = r.buffer /\ r2.max_size = r.max_size
      /\ r2.front = r.front /\ r2.size = r.size + Len(d)
  <2> HIDE DEF r
  <2>1. /\ r2 \in QueueRecords /\ r2.in_use /\ r2.buffer = r.buffer /\ r2.max_size = r.max_size
    BY <1>2, <1>3, EntriesOK
  <2>2. r2.front = r.front /\ r2.size = r.size + Len(d)
    BY <1>3 DEF SentEntry, QueueRecords
  <2> QED BY <2>1, <2>2
<1>7. \A p \in QueueIds \ {q} : Held(memory', queues[p]) = Held(memory, queues[p])
  BY SendLeavesOthers
<1> HIDE DEF r2
<1>8. /\ QContents' = [QContents EXCEPT ![q] = Held(memory', r2)]
      /\ QCapacity' = [QCapacity EXCEPT ![q] = r.max_size]
      /\ QOpen' = QOpen \cup {q}
  <2>2. /\ QContents' = [QContents EXCEPT ![q] = Held(memory', r2)]
        /\ QCapacity' = [QCapacity EXCEPT ![q] = IF r2.in_use THEN r2.max_size ELSE 0]
        /\ QOpen' = IF r2.in_use THEN QOpen \cup {q} ELSE QOpen \ {q}
    BY <1>1, <1>2, <1>6, <1>7, OneQueueChanges, Zenon
  <2> QED BY <1>6, <2>2, Zenon
<1>9. Held(memory', r2) = R \o d
  <2> HIDE DEF r
  <2>1. Appends(AfterSend(memory, r.buffer, r.max_size, Wrap(r.front + r.size, r.max_size), d),
                memory, r.buffer, r.max_size, r.front, r.size, d)
    BY <1>2, <1>3, <1>4, RingSend, Zenon
  <2>2. RingBytes(memory', r.buffer, r.max_size, r.front, r.size + Len(d)) = R \o d
    BY <1>2, <1>3, <2>1, Zenon DEF Appends
  <2> HIDE DEF R
  <2> QED BY <1>6, <2>2, Zenon DEF Held
<1>10. Len(R) + Len(d) <= r.max_size
  <2>1. Len(R) = r.size
    <3> HIDE DEF r
    <3>1. IsRing(R, memory, r.buffer, r.max_size, r.front, r.size)
      BY <1>3, <1>4, RingBytesSeq
    <3> QED BY <3>1, Zenon DEF IsRing
  <2> QED BY <1>2, <2>1, Zenon
<1> HIDE DEF r, R
<1>11. QContents' = [QContents EXCEPT ![q] = QContents[q] \o d]
  BY <1>5, <1>8, <1>9, Zenon
<1>12. QCapacity' = QCapacity /\ QOpen' = QOpen
  BY <1>5, <1>8, Zenon DEF QCapacity, QOpen
<1>13. Len(QContents[q]) + Len(d) <= QCapacity[q]
  BY <1>5, <1>10, Zenon
<1> QED BY <1>2, <1>5, <1>11, <1>12, <1>13 DEF QCh!Put, QOpen, QCapacity, QContents

\* A receive takes the oldest bytes of the channel.
LEMMA QueueReceiveStep ==
  ASSUME QueuesIInv, NEW q \in QueueIds, NEW max \in RecvSizes, ipc_queue_recv(q, max)
  PROVE  \E n \in 1 .. Len(QContents[q]) : QCh!Take(q, n)
<1> DEFINE r == queues[q]
           n == IF max < r.size THEN max ELSE r.size
           r2 == ReceivedEntry(r, n)
           R == RingBytes(memory, r.buffer, r.max_size, r.front, r.size)
<1>1. QueuesIInv'
  BY ReceiveQueueIInv
<1>2. /\ r.in_use /\ n \in 1 .. r.size
      /\ data' = RingBytes(memory, r.buffer, r.max_size, r.front, n)
      /\ queues' = [queues EXCEPT ![q] = r2] /\ memory' = memory
  BY ReceiveFacts
<1> HIDE DEF n
<1>3. /\ r \in QueueRecords /\ heap_ptr \in HEAP_START .. HEAP_END - 1 /\ QueueOK(r, heap_ptr)
      /\ r.max_size \in Nat \ {0} /\ r.buffer \in Nat /\ r.front \in 0 .. r.max_size - 1
      /\ r.size \in 0 .. r.max_size
      /\ HEAP_START <= r.buffer /\ r.buffer + r.max_size <= HEAP_END
  BY <1>2, EntryFacts
<1>4. memory \in [HeapAddresses -> Bytes]
  BY DEF QueuesIInv
<1>5. QContents[q] = R /\ QCapacity[q] = r.max_size /\ q \in QOpen
  <2>1. QContents[q] = Held(memory, r)
    BY HeldContents, Zenon DEF QContents, ContentsHeld
  <2>2. Held(memory, r) = R
    BY <1>2, Zenon DEF Held
  <2> QED BY <1>2, <2>1, <2>2, Zenon DEF QCapacity, QOpen
<1>6. /\ r2 \in QueueRecords /\ r2.in_use /\ r2.buffer = r.buffer /\ r2.max_size = r.max_size
      /\ r2.front = Wrap(r.front + n, r.max_size) /\ r2.size = r.size - n
  <2> HIDE DEF r
  <2>1. n \in Nat /\ n <= r.size
    BY <1>2, <1>3
  <2>2. /\ r2 \in QueueRecords /\ r2.in_use /\ r2.buffer = r.buffer /\ r2.max_size = r.max_size
    BY <1>2, <1>3, <2>1, EntriesOK
  <2>3. r2.front = Wrap(r.front + n, r.max_size) /\ r2.size = r.size - n
    BY <1>3 DEF ReceivedEntry, QueueRecords
  <2> QED BY <2>2, <2>3
<1> HIDE DEF r2
<1>7. /\ QContents' = [QContents EXCEPT ![q] = Held(memory', r2)]
      /\ QCapacity' = [QCapacity EXCEPT ![q] = r.max_size]
      /\ QOpen' = QOpen \cup {q}
  <2>1. \A p \in QueueIds \ {q} : Held(memory', queues[p]) = Held(memory, queues[p])
    BY <1>2, Zenon
  <2>2. /\ QContents' = [QContents EXCEPT ![q] = Held(memory', r2)]
        /\ QCapacity' = [QCapacity EXCEPT ![q] = IF r2.in_use THEN r2.max_size ELSE 0]
        /\ QOpen' = IF r2.in_use THEN QOpen \cup {q} ELSE QOpen \ {q}
    BY <1>1, <1>2, <1>6, <2>1, OneQueueChanges, Zenon
  <2> QED BY <1>6, <2>2, Zenon
<1>8. /\ SubSeq(R, 1, n) = RingBytes(memory, r.buffer, r.max_size, r.front, n)
      /\ SubSeq(R, n + 1, Len(R)) = RingBytes(memory, r.buffer, r.max_size, Wrap(r.front + n, r.max_size), r.size - n)
  <2> HIDE DEF r
  <2>1. Splits(memory, r.buffer, r.max_size, r.front, r.size, n)
    BY <1>2, <1>3, <1>4, RingReceive
  <2> QED BY <2>1, Zenon DEF Splits
<1>9. Len(R) = r.size
  <2> HIDE DEF r
  <2>1. IsRing(R, memory, r.buffer, r.max_size, r.front, r.size)
    BY <1>3, <1>4, RingBytesSeq
  <2> QED BY <2>1, Zenon DEF IsRing
<1> HIDE DEF r, R
<1>10. Held(memory', r2) = SubSeq(R, n + 1, Len(R))
  BY <1>2, <1>6, <1>8, Zenon DEF Held
<1>11. QContents' = [QContents EXCEPT ![q] = SubSeq(QContents[q], n + 1, Len(QContents[q]))]
  BY <1>5, <1>7, <1>10, Zenon
<1>12. QCapacity' = QCapacity /\ QOpen' = QOpen
  BY <1>5, <1>7, Zenon DEF QCapacity, QOpen
<1>13. data' = SubSeq(QContents[q], 1, n) /\ n \in 1 .. Len(QContents[q])
  BY <1>2, <1>5, <1>8, <1>9, Zenon
<1>14. QCh!Take(q, n)
  BY <1>5, <1>11, <1>12, <1>13, Zenon DEF QCh!Take, QOpen, QCapacity, QContents
<1> QED BY <1>13, <1>14

\* Every behaviour of the queue table, with its buffers in one heap, is one
\* of independent bounded first-in first-out channels: NoWrap keeps the
\* blocks apart, and the copies of a send stay in the block of their queue.
THEOREM QueuesRefineChannels == ASSUME NoWrap PROVE QueuesSpec => QueuesAreChannels
<1>1. QueuesInit => QCh!ChannelsInit
  <2> SUFFICES ASSUME QueuesInit PROVE QCh!ChannelsInit
    OBVIOUS
  <2>1. data = <<>> /\ \A q \in QueueIds : ~queues[q].in_use
    BY DEF QueuesInit
  <2>2. [q \in QueueIds |-> QueueContents(q)] = [q \in QueueIds |-> <<>>]
    BY <2>1, Zenon DEF QueueContents
  <2> QED BY <2>1, <2>2, Zenon DEF QCh!ChannelsInit
<1>2. QueuesIInv /\ [QueuesNext]_qvars => [QCh!ChannelsNext]_(QCh!cvars)
  <2> SUFFICES ASSUME QueuesIInv, [QueuesNext]_qvars PROVE QCh!ChannelsNext \/ UNCHANGED QCh!cvars
    OBVIOUS
  <2>1. ASSUME NEW q \in QueueIds, NEW size \in Sizes, ipc_queue_create(q, size) PROVE QCh!ChannelsNext
    BY <2>1, QueueCreateStep DEF QCh!ChannelsNext
  <2>2. ASSUME NEW q \in QueueIds, ipc_queue_destroy(q) PROVE QCh!ChannelsNext
    BY <2>2, QueueDestroyStep DEF QCh!ChannelsNext
  <2>3. ASSUME NEW q \in QueueIds, NEW d \in Data, ipc_queue_send(q, d) PROVE QCh!ChannelsNext
    BY <2>3, QueueSendStep DEF QCh!ChannelsNext
  <2>4. ASSUME NEW q \in QueueIds, NEW max \in RecvSizes, ipc_queue_recv(q, max) PROVE QCh!ChannelsNext
    BY <2>4, QueueReceiveStep DEF QCh!ChannelsNext, QContents
  <2>5. CASE UNCHANGED qvars
    BY <2>5 DEF qvars, QCh!cvars, QueueContents
  <2> QED BY <2>1, <2>2, <2>3, <2>4, <2>5 DEF QueuesNext
<1>3. QueuesIInv /\ [QueuesNext]_qvars => QueuesIInv'
  BY QueuesNextIInv
<1> QED BY <1>1, <1>2, <1>3, QueuesInitIInv, PTL DEF QueuesSpec, QueuesAreChannels, QCh!ChannelsSpec

-----------------------------------------------------------------------------
(* Both kinds of channel.                                                  *)

\* What the inductive invariant says of the entries of g_queues.
LEMMA QueuesRight == QueuesIInv => QueuesTypeOK /\ QueueRingConsistent /\ BlocksInHeap
<1> SUFFICES ASSUME QueuesIInv PROVE QueuesTypeOK /\ QueueRingConsistent /\ BlocksInHeap
  OBVIOUS
<1>1. HeapTypeOK
  BY DEF QueuesIInv, HeapIInv, HeapTypeOK
<1>2. BlocksInHeap
  BY BlocksStayInHeap DEF QueuesIInv
<1>3. \A q \in QueueIds : queues[q].in_use \in BOOLEAN
  BY DEF QueuesIInv, QueueRecords
<1>4. ASSUME NEW q \in QueueIds, queues[q].in_use
      PROVE  /\ queues[q].front \in 0 .. queues[q].max_size - 1
             /\ queues[q].rear \in 0 .. queues[q].max_size - 1
             /\ queues[q].size \in 0 .. queues[q].max_size
             /\ queues[q].rear = (queues[q].front + queues[q].size) % queues[q].max_size
  <2> DEFINE r == queues[q]
  <2>1. /\ r.max_size \in Nat \ {0} /\ r.front \in 0 .. r.max_size - 1 /\ r.size \in 0 .. r.max_size
        /\ r.rear = Wrap(r.front + r.size, r.max_size) /\ r.rear \in 0 .. r.max_size - 1
    BY <1>4, EntryFacts
  <2> HIDE DEF r
  <2>2. r.front + r.size \in Nat /\ r.front + r.size < r.max_size + r.max_size
    BY <2>1
  <2>3. (r.front + r.size) % r.max_size = Wrap(r.front + r.size, r.max_size)
    BY <2>1, <2>2, RingModulo
  <2> QED BY <2>1, <2>3 DEF r
<1>5. QueueRingConsistent
  BY <1>4, Zenon DEF QueueRingConsistent
<1>6. memory \in [HeapAddresses -> Bytes]
  BY DEF QueuesIInv
<1>7. QueuesTypeOK
  BY <1>1, <1>3, <1>4, <1>6, Zenon DEF QueuesTypeOK
<1> QED BY <1>2, <1>5, <1>7

\* What both halves of ipc.c keep, whichever of them is called.
LEMMA IpcNextIInv ==
  ASSUME NoWrap
  PROVE  PipesIInv /\ QueuesIInv /\ [IpcNext]_<<ipcvars, qvars, part>> => PipesIInv' /\ QueuesIInv'
<1>1. ASSUME PipesIInv, QueuesIInv, [IpcNext]_<<ipcvars, qvars, part>> PROVE PipesIInv' /\ QueuesIInv'
  <2>1. [PipesNext]_ipcvars /\ [QueuesNext]_qvars
    BY <1>1 DEF IpcNext
  <2> QED BY <1>1, <2>1, PipesNextIInv, QueuesNextIInv
<1> QED BY <1>1

\* The rings of both kinds have their types and the blocks of the queues lie
\* in the heap, for every number and size of pipes, queues and messages.
THEOREM IpcTypesHold == ASSUME NoWrap PROVE IpcSpec => []IpcTypeOK
<1>1. IpcInit => PipesIInv /\ QueuesIInv
  BY PipesInitIInv, QueuesInitIInv DEF IpcInit
<1>2. PipesIInv /\ QueuesIInv /\ [IpcNext]_<<ipcvars, qvars, part>> => PipesIInv' /\ QueuesIInv'
  BY IpcNextIInv
<1>3. PipesIInv /\ QueuesIInv => IpcTypeOK
  BY QueuesRight DEF PipesIInv, IpcTypeOK
<1> QED BY <1>1, <1>2, <1>3, PTL DEF IpcSpec

\* The counters of pipes and queues agree after any sequence of calls: the
\* write position is the read position plus what is stored.
THEOREM RingsStayConsistent == ASSUME NoWrap PROVE IpcSpec => []RingsConsistent
<1>1. IpcInit => PipesIInv /\ QueuesIInv
  BY PipesInitIInv, QueuesInitIInv DEF IpcInit
<1>2. PipesIInv /\ QueuesIInv /\ [IpcNext]_<<ipcvars, qvars, part>> => PipesIInv' /\ QueuesIInv'
  BY IpcNextIInv
<1>3. PipesIInv /\ QueuesIInv => RingsConsistent
  BY QueuesRight DEF PipesIInv, RingsConsistent
<1> QED BY <1>1, <1>2, <1>3, PTL DEF IpcSpec
=============================================================================
