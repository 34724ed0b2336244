------------------------------- MODULE Pipes --------------------------------
(***************************************************************************)
(* The pipes of kernel/ipc.c: a table of ring buffers of 32-bit messages.  *)
(* A call that returns -1 changes nothing and is a stuttering step.        *)
(* owner_pid is written and never read; it is left out.                    *)
(***************************************************************************)
EXTENDS Integers, Sequences

CONSTANTS IPC_MAX_PIPES, IPC_BUFFER_SIZE, Messages

ASSUME PipesAssumption ==
  /\ IPC_MAX_PIPES \in Nat \ {0}
  /\ IPC_BUFFER_SIZE \in Nat \ {0}

VARIABLES
  in_use, read_pos, write_pos, message_count,
  buffer,   \* the cells of each pipe
  message   \* the message the last ipc_pipe_read returned, <<>> at first

ipcvars == <<in_use, read_pos, write_pos, message_count, buffer, message>>

PipeIds == 0 .. IPC_MAX_PIPES - 1
Cells == 0 .. IPC_BUFFER_SIZE - 1

PipesTypeOK ==
  /\ in_use \in [PipeIds -> BOOLEAN]
  /\ read_pos \in [PipeIds -> Cells]
  /\ write_pos \in [PipeIds -> Cells]
  /\ message_count \in [PipeIds -> 0 .. IPC_BUFFER_SIZE]
  /\ buffer \in [PipeIds -> [Cells -> Messages]]
  /\ message = <<>> \/ \E m \in Messages : message = <<m>>

\* The cells are static storage, all alike at first; ipc_init leaves them alone.
ipc_init ==
  /\ in_use = [p \in PipeIds |-> FALSE]
  /\ read_pos = [p \in PipeIds |-> 0]
  /\ write_pos = [p \in PipeIds |-> 0]
  /\ message_count = [p \in PipeIds |-> 0]
  /\ \E m \in Messages : buffer = [p \in PipeIds |-> [c \in Cells |-> m]]
  /\ message = <<>>

\* (pos + 1) % IPC_BUFFER_SIZE, for a pos inside the buffer.
NextCell(pos) == IF pos + 1 = IPC_BUFFER_SIZE THEN 0 ELSE pos + 1

\* Fault: the counters of the earlier user of the slot are kept.
CreateNoReset(p) ==
  /\ ~in_use[p] /\ \A q \in PipeIds : q < p => in_use[q]
  /\ in_use' = [in_use EXCEPT ![p] = TRUE]
  /\ UNCHANGED <<read_pos, write_pos, message_count, buffer, message>>

\* Fault: the read position of the earlier user of the slot is kept.
CreateKeepsReadPos(p) ==
  /\ ~in_use[p] /\ \A q \in PipeIds : q < p => in_use[q]
  /\ in_use' = [in_use EXCEPT ![p] = TRUE]
  /\ write_pos' = [write_pos EXCEPT ![p] = 0]
  /\ message_count' = [message_count EXCEPT ![p] = 0]
  /\ UNCHANGED <<read_pos, buffer, message>>

\* The first free slot is taken.
ipc_pipe_create(p) ==
  /\ ~in_use[p] /\ \A q \in PipeIds : q < p => in_use[q]
  /\ in_use' = [in_use EXCEPT ![p] = TRUE]
  /\ read_pos' = [read_pos EXCEPT ![p] = 0]
  /\ write_pos' = [write_pos EXCEPT ![p] = 0]
  /\ message_count' = [message_count EXCEPT ![p] = 0]
  /\ UNCHANGED <<buffer, message>>

ipc_pipe_close(p) ==
  /\ in_use[p]
  /\ in_use' = [in_use EXCEPT ![p] = FALSE]
  /\ UNCHANGED <<read_pos, write_pos, message_count, buffer, message>>

\* Fault: the test for a full buffer lets one message too many in.
WriteOneTooMany(p, m) ==
  /\ in_use[p]
  /\ message_count[p] <= IPC_BUFFER_SIZE
  /\ buffer' = [buffer EXCEPT ![p][write_pos[p]] = m]
  /\ write_pos' = [write_pos EXCEPT ![p] = NextCell(@)]
  /\ message_count' = [message_count EXCEPT ![p] = @ + 1]
  /\ UNCHANGED <<in_use, read_pos, message>>

ipc_pipe_write(p, m) ==
  /\ in_use[p]
  /\ message_count[p] < IPC_BUFFER_SIZE
  /\ buffer' = [buffer EXCEPT ![p][write_pos[p]] = m]
  /\ write_pos' = [write_pos EXCEPT ![p] = NextCell(@)]
  /\ message_count' = [message_count EXCEPT ![p] = @ + 1]
  /\ UNCHANGED <<in_use, read_pos, message>>

ipc_pipe_read(p) ==
  /\ in_use[p]
  /\ message_count[p] # 0
  /\ message' = <<buffer[p][read_pos[p]]>>
  /\ read_pos' = [read_pos EXCEPT ![p] = NextCell(@)]
  /\ message_count' = [message_count EXCEPT ![p] = @ - 1]
  /\ UNCHANGED <<in_use, write_pos, buffer>>

PipesNext ==
  \E p \in PipeIds :
    \/ ipc_pipe_create(p)
    \/ ipc_pipe_close(p)
    \/ \E m \in Messages : ipc_pipe_write(p, m)
    \/ ipc_pipe_read(p)

PipesSpec == ipc_init /\ [][PipesNext]_ipcvars

-----------------------------------------------------------------------------
(* Properties.                                                             *)

\* The cell k places after pos in the ring.
CellAt(pos, k) == IF pos + k >= IPC_BUFFER_SIZE THEN pos + k - IPC_BUFFER_SIZE ELSE pos + k

\* The next free cell is message_count places after the next one to read:
\* the three counters that create, write and read keep separately agree.
RingConsistent ==
  \A p \in PipeIds : in_use[p] => write_pos[p] = CellAt(read_pos[p], message_count[p])

\* The c cells of a ring b from position r on.
Window(b, r, c) == [k \in 1 .. c |-> b[CellAt(r, k - 1)]]

\* The messages in a pipe, oldest first; a closed pipe has none.
PipeContents(p) ==
  IF in_use[p] THEN Window(buffer[p], read_pos[p], message_count[p]) ELSE <<>>

Ch == INSTANCE Channels WITH
  Ids <- PipeIds,
  Chunks <- {<<m>> : m \in Messages},
  Capacities <- {IPC_BUFFER_SIZE},
  open <- {p \in PipeIds : in_use[p]},
  capacity <- [p \in PipeIds |-> IF in_use[p] THEN IPC_BUFFER_SIZE ELSE 0],
  contents <- [p \in PipeIds |-> PipeContents(p)],
  got <- message

\* Pipes are independent bounded first-in first-out channels: a read returns
\* the oldest message not yet read, a write on one pipe leaves the others
\* alone, and a slot that is used again starts empty whatever was left in it.
PipesAreChannels == Ch!ChannelsSpec
=============================================================================
