---------------------------- MODULE MCInterrupts ----------------------------
(* Two values of the upper half of eax, a counter that wraps after four    *)
(* ticks, waits of no tick and of one, and the vectors of the IRQs where   *)
(* the firmware leaves them and where irq0 and irq1 expect them.           *)
EXTENDS Interrupts

MCTickModulus == 4
MCMillis == {500, 1194}
MCPicBases == {8, 32}
MCEaxHigh == {0, 1}
=============================================================================
