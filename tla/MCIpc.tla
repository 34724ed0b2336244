------------------------------- MODULE MCIpc --------------------------------
(* The pipes and the queues of ipc.c, which share no state: a behaviour    *)
(* exercises one of the two.                                               *)
(* Two pipes of three cells and two messages: both pipes wrap, fill up, and *)
(* are closed with messages in them and used again.                        *)
(* Two queues of one to three bytes in a heap with room for five: the rings *)
(* wrap, with whole and split copies, a slot is used again with a buffer   *)
(* elsewhere, and the heap is exhausted.                                   *)
EXTENDS Pipes, Queues

MCSizes == {1, 2, 3}
MCData == {<<0>>, <<1>>, <<0, 1>>, <<1, 0, 0>>}
MCRecvSizes == {1, 2, 4}

VARIABLE part  \* what this behaviour exercises

IpcInit ==
  /\ ipc_init /\ QueuesInit /\ part \in {"pipes", "queues"}
  /\ part = "queues" => buffer[0][0] = CHOOSE m \in Messages : TRUE
IpcNext ==
  \/ part = "pipes" /\ PipesNext /\ UNCHANGED <<qvars, part>>
  \/ part = "queues" /\ QueuesNext /\ UNCHANGED <<ipcvars, part>>
IpcSpec == IpcInit /\ [][IpcNext]_<<ipcvars, qvars, part>>

\* The rings have their types, and what malloc gave to the queues is inside
\* the heap.
IpcTypeOK == PipesTypeOK /\ QueuesTypeOK /\ BlocksInHeap

\* In both kinds of rings the write position is the read position plus what
\* is stored, modulo the size, through every wrap, closing and reuse.
RingsConsistent == RingConsistent /\ QueueRingConsistent
=============================================================================
