----------------------------- MODULE MCProcess -----------------------------
(* The process manager with four table entries: the kernel's and three     *)
(* that are spawned, so the table fills up and g_next_pid wraps.  One      *)
(* priority is enough, as the scheduler does not tell them apart.          *)
EXTENDS Process

MCMaxProcesses == 4
MCTimeSlice == 2
MCPriorities == {128}
=============================================================================
