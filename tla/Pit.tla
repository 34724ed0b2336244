-------------------------------- MODULE Pit --------------------------------
(***************************************************************************)
(* The timer driver of kernel/pit.c: the tick counter, which wraps, and    *)
(* the blocking wait, with interrupts between the test of its loop and     *)
(* hlt.  The process_tick call of the handler is the action process_tick   *)
(* of module Process.                                                      *)
(***************************************************************************)
EXTENDS Integers

CONSTANTS
  TickModulus,  \* the counter is a uint32_t: 2^32 in the code
  LateTicks,    \* bound: ticks from one test of the loop to the next, besides
                \* the one that ends hlt
  Millis        \* the arguments callers pass to pit_wait_ms

PIT_FREQUENCY == 1193182

\* (ms * 1000) / PIT_FREQUENCY.  MaxMillis keeps the product below 2^31; the
\* code's wraps at 2^32.
MaxMillis == 2147483
WaitTicks(ms) == (ms * 1000) \div PIT_FREQUENCY

\* The waits considered, with the ticks that may come late, are shorter than
\* a full turn of the counter.
ASSUME PitAssumption ==
  /\ TickModulus \in Nat \ {0}
  /\ LateTicks \in Nat
  /\ Millis \subseteq 0..MaxMillis
  /\ \A ms \in Millis : WaitTicks(ms) + LateTicks < TickModulus

VARIABLES
  ticks,    \* the counter
  loop,     \* where pit_wait_ms is: before its test, before hlt, or halted
  start,    \* ticks when the wait began
  millis,   \* the ms argument of the wait
  elapsed,  \* history: timer interrupts handled since the wait began
  late      \* history: those of them since the last test that did not end a hlt

pvars == <<ticks, loop, start, millis, elapsed, late>>

waiting == loop # "out"

PitTypeOK ==
  /\ ticks \in 0 .. TickModulus - 1 /\ start \in 0 .. TickModulus - 1
  /\ loop \in {"out", "test", "hlt", "halted"}
  /\ millis \in Millis \cup {0}
  /\ elapsed \in 0 .. TickModulus - 1 /\ late \in 0 .. LateTicks

\* Fault: the difference is not reduced to the width of the counter.
ExpiredNoWrap == ticks - start >= WaitTicks(millis)

\* Fault: the loop goes on for one tick too many.
ExpiredLate == (ticks - start) % TickModulus > WaitTicks(millis)

\* The condition that ends the loop of pit_wait_ms.
Expired == (ticks - start) % TickModulus >= WaitTicks(millis)

\* pit_init sets ticks to 0 at boot; by the time a caller waits the counter
\* can have any value.
PitInit ==
  /\ ticks \in 0 .. TickModulus - 1
  /\ loop = "out" /\ start = 0 /\ millis = 0 /\ elapsed = 0 /\ late = 0

\* Fault: the counter is not kept in its width.
HandlerNoWrap ==
  /\ ticks' = ticks + 1
  /\ elapsed' = IF waiting THEN elapsed + 1 ELSE elapsed
  /\ late' = IF loop \in {"test", "hlt"} THEN late + 1 ELSE late

pit_irq0_handler ==
  /\ ticks' = (ticks + 1) % TickModulus
  /\ elapsed' = IF waiting THEN elapsed + 1 ELSE elapsed
  /\ late' = IF loop \in {"test", "hlt"} THEN late + 1 ELSE late

pit_wait_ms(ms) ==
  /\ ~waiting
  /\ loop' = "test" /\ start' = ticks /\ millis' = ms /\ elapsed' = 0 /\ late' = 0
  /\ UNCHANGED ticks

\* The test of the loop, which reads ticks once.
WaitReturns ==
  /\ loop = "test" /\ Expired
  /\ loop' = "out"
  /\ UNCHANGED <<ticks, start, millis, elapsed, late>>

WaitGoesOn ==
  /\ loop = "test" /\ ~Expired
  /\ loop' = "hlt" /\ late' = 0
  /\ UNCHANGED <<ticks, start, millis, elapsed>>

\* An interrupt between the test and hlt does not keep the CPU from halting.
Halt == loop = "hlt" /\ loop' = "halted" /\ UNCHANGED <<ticks, start, millis, elapsed, late>>

\* Every interrupt ends hlt (external, CPU).
Wake == loop' = IF loop = "halted" THEN "test" ELSE loop

TimerInterrupt ==
  /\ loop \in {"test", "hlt"} => late < LateTicks
  /\ pit_irq0_handler /\ Wake
  /\ UNCHANGED <<start, millis>>

\* The keyboard's.
OtherInterrupt == loop = "halted" /\ Wake /\ UNCHANGED <<ticks, start, millis, elapsed, late>>

LoopStep == WaitReturns \/ WaitGoesOn \/ Halt

PitNext ==
  \/ TimerInterrupt \/ OtherInterrupt
  \/ \E ms \in Millis : pit_wait_ms(ms)
  \/ LoopStep

\* The timer keeps interrupting, and the processor goes on when it is not
\* halted.
PitSpec == PitInit /\ [][PitNext]_pvars /\ WF_pvars(TimerInterrupt) /\ WF_pvars(LoopStep)

-----------------------------------------------------------------------------
(* Properties.                                                             *)

\* A wait is never shorter than the ticks it computed, also when the counter
\* wraps in the middle: the unsigned difference of pit_wait_ms is
\* insensitive to the wrap.  It is longer only by ticks of its last turn
\* that found the loop awake: one that comes between the test and hlt is
\* slept over until the next.
WaitTakesItsTicks ==
  [][WaitReturns => elapsed \in WaitTicks(millis) .. WaitTicks(millis) + late]_pvars

\* Every wait ends, wherever the counter stands when it begins.
WaitEnds == waiting ~> ~waiting
=============================================================================
