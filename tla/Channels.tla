------------------------------ MODULE Channels ------------------------------
(***************************************************************************)
(* What the IPC subsystem promises: a set of numbered channels, each, when *)
(* open, a bounded first-in first-out sequence of items that only its own  *)
(* Put and Take change.                                                    *)
(***************************************************************************)
EXTENDS Integers, Sequences

CONSTANTS
  Ids,         \* channel numbers
  Chunks,      \* sequences of items one Put may add
  Capacities   \* the capacities a channel may be created with

VARIABLES
  open,      \* the channels in use
  capacity,  \* items each channel holds
  contents,  \* items put and not yet taken, oldest first
  got        \* the items the last Take returned

cvars == <<open, capacity, contents, got>>

ChannelsInit ==
  /\ open = {}
  /\ capacity = [id \in Ids |-> 0]
  /\ contents = [id \in Ids |-> <<>>]
  /\ got = <<>>

Create(id, n) ==
  /\ id \notin open
  /\ open' = open \cup {id}
  /\ capacity' = [capacity EXCEPT ![id] = n]
  /\ UNCHANGED <<contents, got>>

\* What is in a channel when it closes is lost.
Close(id) ==
  /\ id \in open
  /\ open' = open \ {id}
  /\ capacity' = [capacity EXCEPT ![id] = 0]
  /\ contents' = [contents EXCEPT ![id] = <<>>]
  /\ UNCHANGED got

Put(id, chunk) ==
  /\ id \in open
  /\ Len(contents[id]) + Len(chunk) <= capacity[id]
  /\ contents' = [contents EXCEPT ![id] = @ \o chunk]
  /\ UNCHANGED <<open, capacity, got>>

Take(id, n) ==
  /\ id \in open
  /\ got' = SubSeq(contents[id], 1, n)
  /\ contents' = [contents EXCEPT ![id] = SubSeq(@, n + 1, Len(@))]
  /\ UNCHANGED <<open, capacity>>

ChannelsNext ==
  \E id \in Ids :
    \/ \E n \in Capacities : Create(id, n)
    \/ Close(id)
    \/ \E chunk \in Chunks : Put(id, chunk)
    \/ \E n \in 1 .. Len(contents[id]) : Take(id, n)

ChannelsSpec == ChannelsInit /\ [][ChannelsNext]_cvars
=============================================================================
