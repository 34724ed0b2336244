----------------------------- MODULE FileSystem -----------------------------
(***************************************************************************)
(* The FAT12 reader of kernel/filesystem.c.  The volume is constant, as no *)
(* code writes to it.  Each iteration of the loops of fs_read and fs_seek  *)
(* is a step; a disk read may fail at any of them.  A byte is known by     *)
(* where it was read from, <<sector, offset>>.                             *)
(* A call that returns -1 at once changes nothing and is a stuttering step.*)
(***************************************************************************)
EXTENDS Integers, Sequences

CONSTANTS
  FS_MAX_FILES, FS_BYTES_PER_SECTOR,
  FatCache,     \* the bytes of g_fat_cache, indexed from 0
  FatSize,      \* FS_SECTORS_PER_FAT * FS_BYTES_PER_SECTOR
  Names,        \* the names dir_find_entry finds in the root directory
  LowCluster,   \* the first cluster of each, as its directory entry says
  FileSize,
  Chain,        \* the clusters of each file, in order
  Counts,       \* the counts callers pass to fs_read
  SeekOffsets   \* the offsets callers pass to fs_seek

FS_CLUSTER_MAX == 4088
FS_CLUSTER_EOF == 4095
FS_ROOT_DIR_SECTOR == 19
FS_DATA_START_SECTOR == 33

cluster_to_lba(cluster) ==
  IF cluster < 2 THEN FS_ROOT_DIR_SECTOR ELSE FS_DATA_START_SECTOR + (cluster - 2)

\* Entries of 12 bits: two in three bytes.
fat12_get_next(cluster) ==
  LET fat_offset == cluster + (cluster \div 2)
      value == FatCache[fat_offset] + 256 * FatCache[fat_offset + 1]
  IN IF fat_offset >= FatSize THEN FS_CLUSTER_EOF
     ELSE IF cluster % 2 = 1 THEN value \div 16 ELSE value % 4096

\* The volume is well formed: the FAT links the clusters of each file, which
\* are as many as its size needs, and ends the chain there.
ASSUME FileSystemAssumption ==
  /\ FS_MAX_FILES \in Nat \ {0} /\ FS_BYTES_PER_SECTOR \in Nat \ {0}
  /\ Counts \subseteq Nat /\ SeekOffsets \subseteq Nat
  /\ Chain \in [Names -> Seq(2 .. FS_CLUSTER_MAX - 1)]
  /\ FileSize \in [Names -> Nat]
  /\ LowCluster \in [Names -> 0 .. FS_CLUSTER_MAX - 1]
  /\ \A f \in Names :
       /\ Len(Chain[f]) * FS_BYTES_PER_SECTOR >= FileSize[f]
       /\ Chain[f] # <<>> =>
            /\ LowCluster[f] = Chain[f][1]
            /\ (Len(Chain[f]) - 1) * FS_BYTES_PER_SECTOR < FileSize[f]
            /\ \A k \in 1 .. Len(Chain[f]) - 1 : fat12_get_next(Chain[f][k]) = Chain[f][k + 1]
            /\ fat12_get_next(Chain[f][Len(Chain[f])]) >= FS_CLUSTER_MAX

VARIABLES
  g_fs_initialized,
  g_files,
  call,     \* the call in progress: its kind and its local variables
  got       \* the bytes the read in progress has copied

fvars == <<g_fs_initialized, g_files, call, got>>

Fds == 0 .. FS_MAX_FILES - 1
Idle == call.kind = "idle"

FsTypeOK ==
  /\ g_fs_initialized \in BOOLEAN
  /\ \A fd \in Fds :
       LET f == g_files[fd] IN
       /\ f.in_use \in BOOLEAN
       /\ f.in_use => /\ f.filename \in Names /\ f.file_size = FileSize[f.filename]
                      /\ f.position \in 0 .. f.file_size
                      /\ f.current_cluster \in 0 .. FS_CLUSTER_MAX - 1
  /\ call.kind \in {"idle", "read", "seek"}
  /\ ~Idle => call.fd \in Fds /\ g_files[call.fd].in_use

NoFile == [in_use |-> FALSE]
NoCall == [kind |-> "idle"]

FsInit ==
  /\ g_fs_initialized = FALSE
  /\ g_files = [fd \in Fds |-> NoFile]
  /\ call = NoCall
  /\ got = <<>>

-----------------------------------------------------------------------------
(* Operations.                                                             *)

\* When a disk read fails the flag stays as it is, and every open fails.
fs_init ==
  /\ Idle /\ ~g_fs_initialized
  /\ g_fs_initialized' = TRUE
  /\ UNCHANGED <<g_files, call, got>>

\* Fault: the scan for a free descriptor stops one entry early.
FreeFdLast(fd) == ~g_files[fd].in_use \/ fd = FS_MAX_FILES - 1

\* The descriptor fs_open takes, if there is one, and what it stores there.
FreeFd(fd) == ~g_files[fd].in_use /\ \A e \in Fds : e < fd => g_files[e].in_use

Opened(name) ==
  [in_use |-> TRUE, filename |-> name, start_cluster |-> LowCluster[name],
   current_cluster |-> LowCluster[name], file_size |-> FileSize[name], position |-> 0]

fs_open(name, fd) ==
  /\ Idle /\ g_fs_initialized
  /\ FreeFd(fd)
  /\ g_files' = [g_files EXCEPT ![fd] = Opened(name)]
  /\ UNCHANGED <<g_fs_initialized, call, got>>

\* The fields of a closed descriptor are never read, and closing it again
\* changes nothing.
fs_close(fd) ==
  /\ Idle
  /\ g_files' = [g_files EXCEPT ![fd] = NoFile]
  /\ UNCHANGED <<g_fs_initialized, call, got>>

\* fs_read up to its loop.  from and count are kept for the properties.
fs_read(fd, count) ==
  /\ Idle /\ g_files[fd].in_use
  /\ call' = [kind |-> "read", fd |-> fd, remaining |-> count,
              from |-> g_files[fd].position, count |-> count]
  /\ got' = <<>>
  /\ UNCHANGED <<g_fs_initialized, g_files>>

Smallest(a, b) == IF a < b THEN a ELSE b

\* Whether the loop of fs_read goes on.
ReadsOn ==
  /\ call.kind = "read"
  /\ call.remaining > 0 /\ g_files[call.fd].position < g_files[call.fd].file_size

\* Fault: the copy is one byte short of the count.
ToCopyShort(f) ==
  Smallest(Smallest(FS_BYTES_PER_SECTOR - (f.position % FS_BYTES_PER_SECTOR), call.remaining - 1),
           f.file_size - f.position)

\* Fault: the last bytes are not cut at the end of the file.
ToCopyPastEnd(f) ==
  Smallest(FS_BYTES_PER_SECTOR - (f.position % FS_BYTES_PER_SECTOR), call.remaining)

\* to_copy
ToCopy(f) ==
  Smallest(Smallest(FS_BYTES_PER_SECTOR - (f.position % FS_BYTES_PER_SECTOR), call.remaining),
           f.file_size - f.position)

\* One iteration of the loop.  At the end of a sector, unless it is the end
\* of the file too, the descriptor moves to the next cluster; with no next
\* cluster the loop breaks, here by leaving nothing to read.
ReadSector ==
  LET f == g_files[call.fd]
      offset == f.position % FS_BYTES_PER_SECTOR
      n == ToCopy(f)
      position == f.position + n
      next == fat12_get_next(f.current_cluster)
      moves == position % FS_BYTES_PER_SECTOR = 0 /\ position < f.file_size
  IN /\ ReadsOn
     /\ got' = got \o [k \in 1 .. n |-> <<cluster_to_lba(f.current_cluster), offset + k - 1>>]
     /\ g_files' = [g_files EXCEPT
          ![call.fd].position = position,
          ![call.fd].current_cluster = IF moves /\ next < FS_CLUSTER_MAX THEN next ELSE @]
     /\ call' = [call EXCEPT !.remaining = IF moves /\ next >= FS_CLUSTER_MAX THEN 0 ELSE @ - n]
     /\ UNCHANGED g_fs_initialized

\* The disk fails: the loop breaks with what has been read.
ReadFails ==
  /\ ReadsOn
  /\ call' = NoCall /\ got' = <<>>
  /\ UNCHANGED <<g_fs_initialized, g_files>>

ReadReturns ==
  /\ call.kind = "read" /\ ~ReadsOn
  /\ call' = NoCall /\ got' = <<>>
  /\ UNCHANGED <<g_fs_initialized, g_files>>

\* fs_seek up to its loop.
fs_seek(fd, offset) ==
  /\ Idle /\ g_files[fd].in_use
  /\ offset <= g_files[fd].file_size
  /\ g_files' = [g_files EXCEPT ![fd].position = offset,
                                ![fd].current_cluster = g_files[fd].start_cluster]
  /\ call' = [kind |-> "seek", fd |-> fd, pos |-> 0, offset |-> offset]
  /\ UNCHANGED <<g_fs_initialized, got>>

\* Fault: the walk goes on at the offset itself.
SeeksFarther == call.pos <= call.offset

\* Whether the loop of fs_seek goes on; offset <= file_size here.
SeeksOn == call.pos < call.offset

\* One iteration: the end of the chain makes fs_seek return -1.
SeekCluster ==
  LET next == fat12_get_next(g_files[call.fd].current_cluster)
  IN /\ call.kind = "seek" /\ SeeksOn
     /\ IF next >= FS_CLUSTER_MAX
          THEN call' = NoCall /\ UNCHANGED g_files
          ELSE /\ g_files' = [g_files EXCEPT ![call.fd].current_cluster = next]
               /\ call' = [call EXCEPT !.pos = @ + FS_BYTES_PER_SECTOR]
     /\ UNCHANGED <<g_fs_initialized, got>>

SeekReturns ==
  /\ call.kind = "seek" /\ ~SeeksOn
  /\ call' = NoCall
  /\ UNCHANGED <<g_fs_initialized, g_files, got>>

\* A step of the call in progress: what the processor does, or a failure.
Advance == ReadSector \/ ReadReturns \/ SeekCluster \/ SeekReturns
CallStep == Advance \/ ReadFails

FsNext ==
  \/ fs_init
  \/ \E fd \in Fds :
       \/ \E name \in Names : fs_open(name, fd)
       \/ fs_close(fd)
       \/ \E count \in Counts : fs_read(fd, count)
       \/ \E offset \in SeekOffsets : fs_seek(fd, offset)
  \/ CallStep

FsSpec == FsInit /\ [][FsNext]_fvars

-----------------------------------------------------------------------------
(* Properties.                                                             *)

\* Where the byte at a position of a file is on the disk.
Location(name, p) ==
  <<FS_DATA_START_SECTOR + Chain[name][(p \div FS_BYTES_PER_SECTOR) + 1] - 2, p % FS_BYTES_PER_SECTOR>>

\* "Reset to start and navigate to offset" (filesystem.c:275): position and
\* current_cluster, which open, read and seek move separately, agree, so
\* that every byte a read has copied so far is the file's byte at that
\* position, after any sequence of reads, seeks and disk failures.
ReadReturnsFileBytes ==
  call.kind = "read" =>
    \A k \in 1 .. Len(got) : got[k] = Location(g_files[call.fd].filename, call.from + k - 1)

\* A read that the disk does not fail ends short of its count only at the
\* end of the file.
ReadIsComplete ==
  [][ReadReturns => Len(got) = Smallest(call.count, g_files[call.fd].file_size - call.from)]_fvars

\* Every call returns: the loops advance by at least a byte or a cluster.
CallReturns == ~Idle ~> Idle
=============================================================================
