------------------------------- MODULE Queues -------------------------------
(***************************************************************************)
(* The message queues of kernel/ipc.c: byte rings whose buffers malloc     *)
(* places in the one heap, so that a queue is right only if its writes     *)
(* stay in its own block and no two blocks overlap.  A call that returns   *)
(* -1 or moves no byte changes nothing and is a stuttering step.           *)
(***************************************************************************)
EXTENDS Heap, Sequences

CONSTANTS IPC_MAX_QUEUES, Data, RecvSizes

\* The values of a byte of the heap: the loader leaves 0, sends store data.
Bytes == {0} \cup UNION {{d[k] : k \in DOMAIN d} : d \in Data}

\* ipc_queue_send and ipc_queue_recv divide by the size of the queue.
ASSUME QueuesAssumption ==
  /\ IPC_MAX_QUEUES \in Nat \ {0}
  /\ 0 \notin Sizes
  /\ Data \subseteq Seq(Bytes) /\ <<>> \notin Data
  /\ RecvSizes \subseteq Nat \ {0}

VARIABLES
  queues,  \* g_queues
  memory,  \* the bytes of the heap
  data     \* the bytes the last ipc_queue_recv returned

qvars == <<heap_ptr, blocks, queues, memory, data>>

QueueIds == 0 .. IPC_MAX_QUEUES - 1
HeapAddresses == HEAP_START .. HEAP_END - 1

QueuesTypeOK ==
  /\ HeapTypeOK
  /\ memory \in [HeapAddresses -> Bytes]
  /\ \A q \in QueueIds :
       LET r == queues[q] IN
       /\ r.in_use \in BOOLEAN
       /\ r.in_use => /\ r.front \in 0 .. r.max_size - 1 /\ r.rear \in 0 .. r.max_size - 1
                      /\ r.size \in 0 .. r.max_size

\* The bytes of the heap are those the loader left; no queue reads them.
QueuesInit ==
  /\ memory_init
  /\ queues = [q \in QueueIds |->
       [in_use |-> FALSE, buffer |-> 0, front |-> 0, rear |-> 0, size |-> 0, max_size |-> 0]]
  /\ memory = [a \in HeapAddresses |-> 0]
  /\ data = <<>>

\* memory after memcpy(addr, d, Len(d)), and the n bytes at addr.
Copied(mem, addr, d) ==
  [a \in HeapAddresses |-> IF a \in addr .. addr + Len(d) - 1 THEN d[a - addr + 1] ELSE mem[a]]
BytesAt(addr, n) == [k \in 1 .. n |-> memory[addr + k - 1]]

ipc_queue_create(q, size) ==
  /\ ~queues[q].in_use /\ \A p \in QueueIds : p < q => queues[p].in_use
  /\ malloc(size)
  /\ queues' = [queues EXCEPT ![q] =
       [in_use |-> TRUE, buffer |-> heap_ptr, front |-> 0, rear |-> 0, size |-> 0, max_size |-> size]]
  /\ UNCHANGED <<memory, data>>

\* free does nothing: the block stays allocated.
ipc_queue_destroy(q) ==
  /\ queues[q].in_use
  /\ queues' = [queues EXCEPT ![q].in_use = FALSE]
  /\ UNCHANGED <<heap_ptr, blocks, memory, data>>

\* Fault: data that reaches the end of the buffer leaves rear behind it.
SendNoModulo(q, d) ==
  LET r == queues[q]
      n == Len(d)
      end == r.max_size - r.rear
  IN /\ r.in_use
     /\ r.size + n <= r.max_size
     /\ IF n <= end
          THEN /\ memory' = Copied(memory, r.buffer + r.rear, d)
               /\ queues' = [queues EXCEPT ![q].rear = r.rear + n, ![q].size = @ + n]
          ELSE /\ memory' = Copied(Copied(memory, r.buffer + r.rear, SubSeq(d, 1, end)),
                                   r.buffer, SubSeq(d, end + 1, n))
               /\ queues' = [queues EXCEPT ![q].rear = n - end, ![q].size = @ + n]
     /\ UNCHANGED <<heap_ptr, blocks, data>>

ipc_queue_send(q, d) ==
  LET r == queues[q]
      n == Len(d)
      end == r.max_size - r.rear  \* space_at_end
  IN /\ r.in_use
     /\ r.size + n <= r.max_size
     /\ IF n <= end
          THEN /\ memory' = Copied(memory, r.buffer + r.rear, d)
               /\ queues' = [queues EXCEPT ![q].rear = (r.rear + n) % r.max_size, ![q].size = @ + n]
          ELSE /\ memory' = Copied(Copied(memory, r.buffer + r.rear, SubSeq(d, 1, end)),
                                   r.buffer, SubSeq(d, end + 1, n))
               /\ queues' = [queues EXCEPT ![q].rear = n - end, ![q].size = @ + n]
     /\ UNCHANGED <<heap_ptr, blocks, data>>

\* A recv of at most max bytes, across the borders of earlier sends.
ipc_queue_recv(q, max) ==
  LET r == queues[q]
      n == IF max < r.size THEN max ELSE r.size  \* read_size
      end == r.max_size - r.front                \* space_at_end
  IN /\ r.in_use
     /\ r.size # 0
     /\ IF n <= end
          THEN /\ data' = BytesAt(r.buffer + r.front, n)
               /\ queues' = [queues EXCEPT ![q].front = (r.front + n) % r.max_size, ![q].size = @ - n]
          ELSE /\ data' = BytesAt(r.buffer + r.front, end) \o BytesAt(r.buffer, n - end)
               /\ queues' = [queues EXCEPT ![q].front = n - end, ![q].size = @ - n]
     /\ UNCHANGED <<heap_ptr, blocks, memory>>

QueuesNext ==
  \E q \in QueueIds :
    \/ \E size \in Sizes : ipc_queue_create(q, size)
    \/ ipc_queue_destroy(q)
    \/ \E d \in Data : ipc_queue_send(q, d)
    \/ \E max \in RecvSizes : ipc_queue_recv(q, max)

QueuesSpec == QueuesInit /\ [][QueuesNext]_qvars

-----------------------------------------------------------------------------
(* Properties.                                                             *)

\* The next byte to write is size bytes after the next one to read, also
\* after a send that ends exactly at the end of the buffer.
QueueRingConsistent ==
  \A q \in QueueIds :
    LET r == queues[q] IN r.in_use => r.rear = (r.front + r.size) % r.max_size

QueueContents(q) ==
  LET r == queues[q]
  IN IF r.in_use
       THEN [k \in 1 .. r.size |-> memory[r.buffer + ((r.front + k - 1) % r.max_size)]]
       ELSE <<>>

QCh == INSTANCE Channels WITH
  Ids <- QueueIds,
  Chunks <- Data,
  Capacities <- Sizes,
  open <- {q \in QueueIds : queues[q].in_use},
  capacity <- [q \in QueueIds |-> IF queues[q].in_use THEN queues[q].max_size ELSE 0],
  contents <- [q \in QueueIds |-> QueueContents(q)],
  got <- data

\* Queues are independent bounded first-in first-out byte streams, although
\* they live in one memory: a send never changes what another queue holds,
\* and bytes come out in order however the sends and receives are cut up.
QueuesAreChannels == QCh!ChannelsSpec
=============================================================================
