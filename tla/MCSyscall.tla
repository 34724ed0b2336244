----------------------------- MODULE MCSyscall ------------------------------
(* Sectors of two bytes and three files: one of five bytes in clusters 2,  *)
(* 4 and 3, one of two bytes that fills cluster 5, and an empty one.       *)
EXTENDS Syscall

MCNames == {"long", "sector", "empty"}
MCChain == [n \in MCNames |-> CASE n = "long" -> <<2, 4, 3>> [] n = "sector" -> <<5>> [] OTHER -> <<>>]
MCFileSize == [n \in MCNames |-> CASE n = "long" -> 5 [] n = "sector" -> 2 [] OTHER -> 0]
MCLowCluster == [n \in MCNames |-> CASE n = "long" -> 2 [] n = "sector" -> 5 [] OTHER -> 0]

\* The FAT entries of clusters 0 to 5, and their packing into nine bytes.
MCEntry == [c \in 0..5 |-> CASE c = 0 -> 4080 [] c = 2 -> 4 [] c = 4 -> 3 [] OTHER -> 4095]
MCFatSize == 9
MCFatCache ==
  [b \in 0 .. MCFatSize - 1 |->
     LET e == MCEntry[2 * (b \div 3)]
         o == MCEntry[2 * (b \div 3) + 1]
     IN CASE b % 3 = 0 -> e % 256
          [] b % 3 = 1 -> (e \div 256) + 16 * (o % 16)
          [] OTHER -> o \div 16]

\* A count that a modulus of 8 makes 0 and one that it makes 1.
MCCounts == {1, 2, 3, 6, 8, 9}
MCAligned == {0, 2, 4}
MCOffsets == 0 .. 5
=============================================================================
