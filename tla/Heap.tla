-------------------------------- MODULE Heap --------------------------------
(***************************************************************************)
(* The heap of kernel/memory.c: a pointer that only moves up.  free and    *)
(* vfree do nothing and vmalloc is malloc.  A call of malloc that returns  *)
(* NULL changes nothing and is a stuttering step.                          *)
(***************************************************************************)
EXTENDS Integers

CONSTANTS
  HEAP_START, HEAP_SIZE,
  AddressModulus,  \* addresses and size_t have 32 bits: 2^32 in the code
  Sizes            \* the sizes callers ask for

HEAP_END == HEAP_START + HEAP_SIZE

ASSUME HeapAssumption ==
  /\ HEAP_START \in Nat \ {0} /\ HEAP_SIZE \in Nat \ {0}
  /\ AddressModulus \in Nat /\ HEAP_END < AddressModulus
  /\ Sizes \subseteq 0 .. AddressModulus - 1

VARIABLES
  heap_ptr,
  blocks     \* history: the blocks malloc has returned

hvars == <<heap_ptr, blocks>>

HeapTypeOK ==
  /\ heap_ptr \in HEAP_START .. HEAP_END - 1
  /\ \A b \in blocks : b.ptr \in HEAP_START .. HEAP_END - 1 /\ b.size \in Sizes

memory_init == heap_ptr = HEAP_START /\ blocks = {}

\* heap_ptr + size in 32 bits.
Advance(size) ==
  IF heap_ptr + size >= AddressModulus THEN heap_ptr + size - AddressModulus ELSE heap_ptr + size

\* Fault: nothing is refused before the heap is full.
MallocNoRoomCheck(size) ==
  /\ heap_ptr < HEAP_END
  /\ heap_ptr' = Advance(size)
  /\ blocks' = blocks \cup {[ptr |-> heap_ptr, size |-> size]}

\* Fault: the pointer stays behind the last byte of the block by one.
MallocOverlap(size) ==
  /\ Advance(size) < HEAP_END
  /\ heap_ptr' = IF size > 0 THEN Advance(size - 1) ELSE heap_ptr
  /\ blocks' = blocks \cup {[ptr |-> heap_ptr, size |-> size]}

malloc(size) ==
  /\ Advance(size) < HEAP_END
  /\ heap_ptr' = Advance(size)
  /\ blocks' = blocks \cup {[ptr |-> heap_ptr, size |-> size]}

HeapNext == \E size \in Sizes : malloc(size)

HeapSpec == memory_init /\ [][HeapNext]_hvars

-----------------------------------------------------------------------------
(* Properties.                                                             *)

Addresses(b) == b.ptr .. b.ptr + b.size - 1

\* "Results in malloc() returning NULL" (MEMORY.md:127): a block that does
\* not fit is refused, so every block malloc has returned lies in the heap.
BlocksInHeap == \A b \in blocks : b.ptr + b.size <= HEAP_END

\* Two allocations never share a byte, however many there have been.
BlocksDisjoint ==
  \A b1, b2 \in blocks : b1 # b2 => Addresses(b1) \cap Addresses(b2) = {}
=============================================================================
