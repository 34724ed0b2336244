----------------------------- MODULE Interrupts -----------------------------
(***************************************************************************)
(* The way of an interrupt through the IDT of kernel/idt.c, the stubs of   *)
(* kernel/interrupts.asm and the C handlers, and back.                     *)
(*                                                                         *)
(* The stack is the sequence of the words pushed since the interrupted     *)
(* instruction, top first: pusha and popa move their eight registers as    *)
(* one element.  A gate of type 0x8E clears the interrupt flag, so no      *)
(* second interrupt arrives before iret; the handlers cause no exception.  *)
(* The interrupted code is a loop that sometimes calls pit_wait_ms.        *)
(***************************************************************************)
EXTENDS Pit, Sequences

CONSTANTS
  PicBases, \* the vectors IRQ 0 may have; the code never programs the PIC (external)
  EaxHigh   \* the upper halves of eax interrupted code may hold

Half == 65536  \* values of a half of a register

ASSUME InterruptsAssumption ==
  /\ PicBases \subseteq 0..247
  /\ EaxHigh \subseteq 0 .. Half - 1

Exceptions == {0, 1, 8, 14}
Irqs == {0, 1}
Gates == Exceptions \cup {32, 33}  \* the present entries of the IDT

VARIABLES
  base,     \* the vector of IRQ 0
  stack,    \* words on the kernel stack, top first
  at,       \* what the CPU executes
  vector,   \* the vector being handled
  arg,      \* the number the C handler was called with
  eax,      \* upper half of eax
  pending,  \* IRQs raised and not yet accepted by the CPU (external, PIC)
  inservice,\* IRQs accepted and not yet acknowledged by an EOI (external, PIC)
  line,     \* history: the IRQ, if any, of the last way into the kernel
  served,   \* history: timer interrupts handled, counted like ticks
  resumed   \* history: what the last iret loaded, <<eip, cs, eflags>>

ivars == <<base, stack, at, vector, arg, eax, pending, inservice, line, served, resumed>>
allvars == <<pvars, ivars>>

Frame == <<"eip", "cs", "eflags">>

InterruptsTypeOK ==
  /\ PitTypeOK
  /\ base \in PicBases /\ line \subseteq Irqs
  /\ Len(stack) <= 5
  /\ at \in {"code", "stub", "isr_common_stub", "irq_common_stub", "return", "lost"}
  /\ vector \in 0..255 /\ arg \in Nat /\ eax \in EaxHigh
  /\ pending \subseteq Irqs /\ inservice \subseteq Irqs
  /\ served \in 0 .. TickModulus - 1

InterruptsInit ==
  /\ PitInit
  /\ base \in PicBases
  /\ stack = <<>> /\ at = "code" /\ vector = 0 /\ arg = 0 /\ line = {}
  /\ eax \in EaxHigh
  /\ pending = {} /\ inservice = {}
  /\ served = ticks
  /\ resumed = Frame

-----------------------------------------------------------------------------
(* External: the interrupt controller and the CPU.                         *)

\* A device raises its line: the timer, or a key.
Raise(irq) ==
  /\ pending' = pending \cup {irq}
  /\ UNCHANGED <<pvars, base, line, stack, at, vector, arg, eax, inservice, served, resumed>>

\* The CPU takes vector v and pushes eflags, cs, eip and perhaps an error
\* code.  A vector without a gate is a double fault, which carries one; the
\* place it returns to stands for the interrupted code.
Enter(v, errorcode) ==
  /\ vector' = IF v \in Gates THEN v ELSE 8
  /\ at' = "stub"
  /\ stack' = (IF errorcode \/ v \notin Gates THEN <<"error">> ELSE <<>>) \o Frame

\* An IRQ is accepted when none of its or a higher priority is in service; it
\* ends a hlt.
AcceptIrq(irq) ==
  /\ at = "code"
  /\ irq \in pending /\ \A j \in inservice : irq < j
  /\ \A j \in pending : irq <= j
  /\ pending' = pending \ {irq}
  /\ inservice' = inservice \cup {irq}
  /\ line' = {irq}
  /\ Enter(base + irq, FALSE)
  /\ Wake
  /\ UNCHANGED <<ticks, start, millis, elapsed, late, base, arg, eax, served, resumed>>

\* An exception of running code; double faults and page faults carry an error
\* code.
Exception(v) ==
  /\ at = "code" /\ loop # "halted"
  /\ line' = {}
  /\ Enter(v, v \in {8, 14})
  /\ UNCHANGED <<pvars, base, arg, eax, pending, inservice, served, resumed>>

\* A non-specific EOI ends the service of the most urgent IRQ in service.
EOI(S) == {j \in S : \E k \in S : k < j}

-----------------------------------------------------------------------------
(* interrupts.asm.                                                         *)

\* Fault: the stubs push a 0 for the vectors with an error code too.
StubAlwaysZero ==
  /\ at = "stub"
  /\ stack' = <<vector, 0>> \o stack
  /\ at' = IF vector \in Exceptions THEN "isr_common_stub" ELSE "irq_common_stub"
  /\ UNCHANGED <<pvars, base, line, vector, arg, eax, pending, inservice, served, resumed>>

\* Fault: the stubs push the number alone, without the 0 before it.
StubNumberOnly ==
  /\ at = "stub"
  /\ stack' = <<vector>> \o stack
  /\ at' = IF vector \in Exceptions THEN "isr_common_stub" ELSE "irq_common_stub"
  /\ UNCHANGED <<pvars, base, line, vector, arg, eax, pending, inservice, served, resumed>>

\* isr0 .. irq1: a 0 in place of the error code, except in isr8 and isr14,
\* then the number.
Stub ==
  /\ at = "stub"
  /\ stack' = (IF vector \in {8, 14} THEN <<vector>> ELSE <<vector, 0>>) \o stack
  /\ at' = IF vector \in Exceptions THEN "isr_common_stub" ELSE "irq_common_stub"
  /\ UNCHANGED <<pvars, base, line, vector, arg, eax, pending, inservice, served, resumed>>

\* pusha; mov ax, ds; push eax; call.  The handler's argument is the word
\* above its return address: eax, whose lower half is ds, 0x10.
SavedEax == eax * Half + 16
Saved == <<SavedEax, "registers">> \o stack

\* pop eax; popa; add esp, 8: what is left of a stack st.
Unwind(st) == SubSeq(st, 5, Len(st))

\* isr_handler prints; it sends no EOI.
isr_handler(isrnum) == UNCHANGED <<pvars, inservice>>

\* Fault: irq_handler acknowledges only the interrupts it knows.
IrqHandlerSomeEoi(irqnum) ==
  IF irqnum = 0
    THEN pit_irq0_handler /\ inservice' = EOI(inservice)
    ELSE UNCHANGED <<pvars, inservice>>

\* irq_handler: case 0 calls pit_irq0_handler, which sends an EOI of its own,
\* then every path sends one.
irq_handler(irqnum) ==
  IF irqnum = 0
    THEN pit_irq0_handler /\ inservice' = EOI(EOI(inservice))
    ELSE UNCHANGED pvars /\ inservice' = EOI(inservice)

IsrCommon ==
  /\ at = "isr_common_stub"
  /\ arg' = Head(Saved)
  /\ isr_handler(Head(Saved))
  /\ stack' = Unwind(Saved)
  /\ at' = "return"
  /\ UNCHANGED <<base, line, vector, eax, pending, served, resumed>>

IrqCommon ==
  /\ at = "irq_common_stub"
  /\ arg' = Head(Saved)
  /\ irq_handler(Head(Saved))
  /\ stack' = Unwind(Saved)
  /\ served' = IF vector = 32 THEN (served + 1) % TickModulus ELSE served
  /\ at' = "return"
  /\ UNCHANGED <<base, line, vector, eax, pending, resumed>>

\* iret pops three words, of the interrupted code's own stack when the stub
\* has left fewer.
Below == <<"below", "below", "below">>

Iret ==
  /\ at = "return"
  /\ resumed' = SubSeq(stack \o Below, 1, 3)
  /\ stack' = SubSeq(stack, 4, Len(stack))
  /\ at' = IF resumed' = Frame THEN "code" ELSE "lost"
  /\ eax' \in EaxHigh
  /\ UNCHANGED <<pvars, base, line, vector, arg, pending, inservice, served>>

\* The interrupted code calls pit_wait_ms, and runs its loop.
BeginWait(ms) == at = "code" /\ pit_wait_ms(ms) /\ UNCHANGED ivars
GoOn == at = "code" /\ LoopStep /\ UNCHANGED ivars

\* The way of one interrupt after the CPU has accepted it.
Handle == Stub \/ IsrCommon \/ IrqCommon \/ Iret

InterruptsNext ==
  \/ \E irq \in Irqs : Raise(irq) \/ AcceptIrq(irq)
  \/ \E v \in Exceptions : Exception(v)
  \/ Handle
  \/ \E ms \in Millis : BeginWait(ms)
  \/ GoOn

\* The timer keeps raising its line, the CPU accepts what it may and runs on.
InterruptsSpec ==
  /\ InterruptsInit /\ [][InterruptsNext]_allvars
  /\ WF_allvars(Raise(0)) /\ SF_allvars(AcceptIrq(0))
  /\ WF_allvars(Handle) /\ WF_allvars(GoOn)

-----------------------------------------------------------------------------
(* Properties.                                                             *)

\* "Execution resumes" (INTERRUPTS.md:118): whatever the stub pushed on top
\* of the CPU's frame, with or without an error code, has been popped again
\* when iret runs, and the interrupted code goes on on an empty stack.  It is
\* lost only when the controller gives an IRQ the vector of an exception with
\* an error code, as it does to the timer before anyone programs it: isr8
\* then takes the saved eip for the error code.
ExecutionResumes ==
  /\ at = "code" => stack = <<>> /\ resumed = Frame
  /\ at = "lost" => \E irq \in line : base + irq \in {8, 14}

\* An interrupt in service blocks its own line and the less urgent ones:
\* every pending IRQ is accepted again only because irq_handler acknowledges
\* each one, so the timer line never stays blocked while code runs.
TimerLineServed == (0 \in pending) ~> (0 \notin pending \/ at = "lost")

\* "Updates every timer interrupt" (KERNEL_API.md:140): between interrupts
\* the tick counter has counted every timer interrupt.
TicksCountInterrupts == at = "code" => ticks = served
=============================================================================
