------------------------------ MODULE MCKernel ------------------------------
(* The two ways into the kernel, which share no state: the interrupts of   *)
(* MCInterrupts and the system calls on files of MCSyscall.  A behaviour   *)
(* exercises one of them.                                                  *)
EXTENDS MCSyscall, MCInterrupts

VARIABLE part  \* the way this behaviour exercises

evars == <<svars, allvars, part>>
Calls(A) == part = "calls" /\ A /\ UNCHANGED <<allvars, part>>
Gate(A) == part = "gates" /\ A /\ UNCHANGED <<svars, part>>

KernelInit ==
  /\ SyscallInit /\ InterruptsInit /\ part \in {"calls", "gates"}
  /\ part = "calls" => ticks = 0 /\ eax = 0 /\ base = 32

\* The fairness of SyscallSpec and of InterruptsSpec.
KernelSpec ==
  /\ KernelInit /\ [][Calls(SyscallNext) \/ Gate(InterruptsNext)]_evars
  /\ WF_evars(Calls(Advance /\ UNCHANGED <<g_kernel_fds, opened, shell, strayed, refused>>))
  /\ WF_evars(Gate(Raise(0))) /\ SF_evars(Gate(AcceptIrq(0)))
  /\ WF_evars(Gate(Handle)) /\ WF_evars(Gate(GoOn))

\* The stacks, the calls in progress and the open files have their types.
KernelTypeOK == SyscallTypeOK /\ InterruptsTypeOK
=============================================================================
