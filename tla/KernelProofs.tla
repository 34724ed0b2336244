---------------------------- MODULE KernelProofs ----------------------------
(***************************************************************************)
(* Proofs about the two ways into the kernel.  The system calls on files,  *)
(* modules FileSystem and Syscall: for every well-formed volume, every     *)
(* number of descriptors and slots and every sequence of calls and disk    *)
(* failures.  The interrupts, module Interrupts: for every vector of the   *)
(* timer and every register.                                               *)
(***************************************************************************)
EXTENDS MCKernel, TLAPS

-----------------------------------------------------------------------------
(* Positions and sectors.                                                  *)

\* A number is so many whole sectors and an offset in one, in one way only.
LEMMA Euclid ==
  ASSUME NEW B \in Int, B > 0, NEW p \in Int
  PROVE  p = B * (p \div B) + (p % B)
  OBVIOUS

\* The quotient and the offset are natural numbers.
LEMMA Whole ==
  ASSUME NEW B \in Nat \ {0}, NEW p \in Nat
  PROVE  p \div B \in Nat /\ p % B \in 0 .. B - 1 /\ p = B * (p \div B) + (p % B)
<1>1. B \in Int /\ B > 0 /\ p \in Int
  OBVIOUS
<1>2. p \div B \in Nat /\ p % B \in 0 .. B - 1
  OBVIOUS
<1> QED BY <1>1, <1>2, Euclid, Zenon

\* There is one quotient and one offset.
LEMMA Unique ==
  ASSUME NEW B \in Nat \ {0}, NEW q \in Nat, NEW r \in 0 .. B - 1
  PROVE  /\ (B * q + r) \div B = q /\ (B * q + r) % B = r
         /\ (B * q) \div B = q /\ (B * q) % B = 0
  OBVIOUS

\* Fewer whole sectors are a smaller multiple.
LEMMA Monotone ==
  ASSUME NEW B \in Nat \ {0}, NEW a \in Nat, NEW b \in Nat
  PROVE  /\ B * a \in Nat /\ B * a = a * B
         /\ B * a < B * b => a < b
         /\ a < b => B * a + B <= B * b
  OBVIOUS

\* The bytes of a sector from a position on are in the same sector.
LEMMA SameSector ==
  ASSUME NEW B \in Nat \ {0}, NEW p \in Nat, NEW j \in Nat, (p % B) + j < B
  PROVE  (p + j) \div B = p \div B /\ (p + j) % B = (p % B) + j
<1> DEFINE q == p \div B
           r == p % B
<1>1. q \in Nat /\ r \in 0 .. B - 1 /\ p = B * q + r /\ r + j < B
  BY Whole, Zenon
<1> HIDE DEF q, r
<1>2. r + j \in 0 .. B - 1 /\ p + j = B * q + (r + j)
  BY <1>1
<1>3. (p + j) \div B = q /\ (p + j) % B = r + j
  BY <1>1, <1>2, Unique
<1> QED BY <1>3 DEF q, r

\* The byte after the last one of a sector is the first of the next sector.
LEMMA NextSector ==
  ASSUME NEW B \in Nat \ {0}, NEW p \in Nat, NEW j \in Nat, (p % B) + j = B
  PROVE  (p + j) \div B = p \div B + 1 /\ (p + j) % B = 0 /\ B * (p \div B + 1) = p + j
<1> DEFINE q == p \div B
           r == p % B
<1>1. q \in Nat /\ r \in 0 .. B - 1 /\ p = B * q + r /\ r + j = B
  BY Whole, Zenon
<1> HIDE DEF q, r
<1> DEFINE t == q + 1
<1>2. p + j = B * t /\ t \in Nat /\ 0 \in 0 .. B - 1
  BY <1>1
<1> HIDE DEF t
<1>3. (p + j) \div B = t /\ (p + j) % B = 0
  BY <1>2, Unique
<1> QED BY <1>2, <1>3 DEF q, t

\* A sequence has a length and elements; the bytes a read appends to those it
\* has copied before leave them where they are.
LEMMA Sequences1 ==
  ASSUME NEW S, NEW s \in Seq(S)
  PROVE  Len(s) \in Nat /\ \A k \in 1 .. Len(s) : s[k] \in S
  OBVIOUS

\* What a concatenation holds at each place.
LEMMA Appended ==
  ASSUME NEW S, NEW s \in Seq(S), NEW n \in Nat, NEW t \in [1 .. n -> S]
  PROVE  /\ s \o t \in Seq(S) /\ Len(s \o t) = Len(s) + n
         /\ \A k \in 1 .. Len(s) + n : (s \o t)[k] = IF k <= Len(s) THEN s[k] ELSE t[k - Len(s)]
<1>1. t \in Seq(S) /\ Len(t) = n
  OBVIOUS
<1> QED BY <1>1

-----------------------------------------------------------------------------
(* The clusters of a file.                                                 *)

Sector == FS_BYTES_PER_SECTOR

\* The place in the chain of a position of a file.
Place(p) == p \div Sector + 1

\* The numbers of the volume.
LEMMA VolumeTypes ==
  ASSUME NEW f \in Names
  PROVE  /\ Sector \in Nat \ {0} /\ FS_CLUSTER_MAX \in Nat /\ FileSize[f] \in Nat
         /\ Chain[f] \in Seq(2 .. FS_CLUSTER_MAX - 1) /\ Len(Chain[f]) \in Nat
         /\ \A k \in 1 .. Len(Chain[f]) : Chain[f][k] \in 2 .. FS_CLUSTER_MAX - 1
         /\ LowCluster[f] \in 0 .. FS_CLUSTER_MAX - 1
<1>1. FS_CLUSTER_MAX \in Nat
  BY SMT DEF FS_CLUSTER_MAX
<1>2. Chain[f] \in Seq(2 .. FS_CLUSTER_MAX - 1)
  BY FileSystemAssumption
<1>3. \A k \in 1 .. Len(Chain[f]) : Chain[f][k] \in 2 .. FS_CLUSTER_MAX - 1
  BY <1>2, Sequences1, Zenon
<1>4. Len(Chain[f]) \in Nat
  BY <1>2, Sequences1
<1> QED BY <1>1, <1>2, <1>3, <1>4, FileSystemAssumption DEF Sector

\* A position inside a file is in one of its clusters; the FAT leads from it
\* to the next one while the file goes on there, and to the end mark else.
LEMMA ChainStep ==
  ASSUME NEW f \in Names, NEW p \in Nat, p < FileSize[f]
  PROVE  /\ Place(p) \in 1 .. Len(Chain[f]) /\ Chain[f][Place(p)] \in 2 .. FS_CLUSTER_MAX - 1
         /\ Sector * Place(p) < FileSize[f] =>
              /\ fat12_get_next(Chain[f][Place(p)]) = Chain[f][Place(p) + 1]
              /\ Chain[f][Place(p) + 1] \in 2 .. FS_CLUSTER_MAX - 1
         /\ Sector * Place(p) >= FileSize[f] =>
              fat12_get_next(Chain[f][Place(p)]) >= FS_CLUSTER_MAX
         /\ LowCluster[f] = Chain[f][1]
<1> DEFINE q == p \div Sector
           k == Place(p)
           n == Len(Chain[f])
<1>1. /\ Sector \in Nat \ {0} /\ FileSize[f] \in Nat /\ n \in Nat
      /\ \A m \in 1 .. n : Chain[f][m] \in 2 .. FS_CLUSTER_MAX - 1
  BY VolumeTypes
<1>2. q \in Nat /\ p % Sector \in 0 .. Sector - 1 /\ p = Sector * q + (p % Sector) /\ k = q + 1
  BY <1>1, Whole, Zenon DEF Place
<1>3. n * Sector >= FileSize[f]
  BY FileSystemAssumption DEF Sector
<1>4. Chain[f] # <<>> =>
        /\ LowCluster[f] = Chain[f][1]
        /\ (n - 1) * Sector < FileSize[f]
        /\ \A m \in 1 .. n - 1 : fat12_get_next(Chain[f][m]) = Chain[f][m + 1]
        /\ fat12_get_next(Chain[f][n]) >= FS_CLUSTER_MAX
  BY FileSystemAssumption DEF Sector
<1>5. n = 0 \/ Chain[f] # <<>>
  OBVIOUS
<1> HIDE DEF q, n, k
<1>6. Sector * q \in Nat /\ Sector * n = n * Sector
  BY <1>1, <1>2, Monotone
<1>7. Sector * q <= p
  BY <1>1, <1>2, <1>6
<1>8. Sector * q < Sector * n
  BY <1>1, <1>3, <1>6, <1>7
<1>9. q < n
  BY <1>1, <1>2, <1>8, Monotone
<1>10. k \in 1 .. n /\ Chain[f] # <<>>
  BY <1>1, <1>2, <1>5, <1>9
<1>11. ASSUME Sector * k < FileSize[f]
       PROVE  k \in 1 .. n - 1 /\ k + 1 \in 1 .. n
  <2>1. Sector * k < Sector * n
    BY <1>1, <1>3, <1>6, <1>10, <1>11, Monotone
  <2>2. k < n
    BY <1>1, <1>10, <2>1, Monotone
  <2> QED BY <1>1, <1>10, <2>2
<1>12. ASSUME Sector * k >= FileSize[f]
       PROVE  k = n
  <2>1. n - 1 \in Nat /\ k \in Nat
    BY <1>1, <1>10
  <2>2. Sector * (n - 1) = (n - 1) * Sector /\ Sector * (n - 1) \in Nat /\ Sector * k \in Nat
    BY <1>1, <2>1, Monotone
  <2>a. (n - 1) * Sector < FileSize[f]
    BY <1>4, <1>10
  <2>3. Sector * (n - 1) < Sector * k
    BY <1>1, <1>12, <2>a, <2>2
  <2>4. n - 1 < k
    BY <1>1, <2>1, <2>3, Monotone
  <2> QED BY <1>1, <1>10, <2>4
<1> QED BY <1>1, <1>4, <1>10, <1>11, <1>12 DEF n, k

-----------------------------------------------------------------------------
(* The invariant of the file system.                                       *)

Clusters == 0 .. FS_CLUSTER_MAX - 1
Files ==
  [in_use : {TRUE}, filename : Names, start_cluster : Clusters, current_cluster : Clusters,
   file_size : Nat, position : Nat]
OpenFiles ==
  {f \in Files : /\ f.start_cluster = LowCluster[f.filename] /\ f.file_size = FileSize[f.filename]
                 /\ f.position <= f.file_size}
ReadCalls == [kind : {"read"}, fd : Fds, remaining : Nat, from : Nat, count : Nat]
SeekCalls == [kind : {"seek"}, fd : Fds, pos : Nat, offset : Nat]

\* The cluster of a descriptor is the one of position p of its file.
On(f, p) == p < f.file_size => f.current_cluster = Chain[f.filename][Place(p)]

\* The position the cluster of a descriptor stands at: during a seek it is
\* behind, at pos.
Reached(fd) == IF call.kind = "seek" /\ call.fd = fd THEN call.pos ELSE g_files[fd].position

\* The bytes of a read so far are those from its beginning to the position.
ReadOK ==
  LET f == g_files[call.fd]
  IN /\ got \in Seq(Int \X Int)
     /\ call.from + Len(got) = f.position
     /\ call.remaining + Len(got) = call.count
     /\ \A k \in 1 .. Len(got) : got[k] = Location(f.filename, call.from + k - 1)

\* A seek stands at a border of sectors and goes to one.
SeekOK ==
  /\ call.pos % Sector = 0 /\ call.offset % Sector = 0 /\ call.pos <= call.offset
  /\ call.offset = g_files[call.fd].position

FsIInv ==
  /\ g_fs_initialized \in BOOLEAN
  /\ g_files \in [Fds -> {NoFile} \cup OpenFiles]
  /\ call \in {NoCall} \cup ReadCalls \cup SeekCalls
  /\ call # NoCall => g_files[call.fd] \in OpenFiles
  /\ \A fd \in Fds : g_files[fd] \in OpenFiles => On(g_files[fd], Reached(fd))
  /\ call.kind = "read" => ReadOK
  /\ call.kind = "seek" => SeekOK

\* The callers seek to borders of sectors.
Aligned == \A offset \in SeekOffsets : offset % Sector = 0

\* An open file and the absence of one differ.
LEMMA OpenOrNot ==
  /\ NoFile \notin OpenFiles
  /\ \A f \in {NoFile} \cup OpenFiles : f.in_use \in BOOLEAN /\ (f.in_use <=> f \in OpenFiles)
<1>1. NoFile.in_use = FALSE
  BY DEF NoFile
<1>2. \A f \in OpenFiles : f.in_use = TRUE
  BY Zenon DEF OpenFiles, Files
<1> QED BY <1>1, <1>2, Zenon

\* The kinds of a call.
LEMMA CallKinds ==
  ASSUME call \in {NoCall} \cup ReadCalls \cup SeekCalls
  PROVE  /\ Idle <=> call = NoCall
         /\ call.kind = "read" <=> call \in ReadCalls
         /\ call.kind = "seek" <=> call \in SeekCalls
         /\ call.kind \in {"idle", "read", "seek"}
<1>1. NoCall.kind = "idle"
  BY DEF NoCall
<1>2. \A c \in ReadCalls : c.kind = "read"
  BY DEF ReadCalls
<1>3. \A c \in SeekCalls : c.kind = "seek"
  BY DEF SeekCalls
<1> QED BY <1>1, <1>2, <1>3 DEF Idle

\* The invariant gives the types.
LEMMA FsIInvType == FsIInv => FsTypeOK
<1> SUFFICES ASSUME FsIInv PROVE FsTypeOK
  OBVIOUS
<1>1. call.kind \in {"idle", "read", "seek"}
  BY CallKinds DEF FsIInv
<1>2. ~Idle => call.fd \in Fds /\ g_files[call.fd].in_use
  <2>1. ~Idle => call \in ReadCalls \cup SeekCalls /\ g_files[call.fd] \in OpenFiles
    BY CallKinds DEF FsIInv
  <2> QED BY <2>1, OpenOrNot DEF ReadCalls, SeekCalls
<1>3. ASSUME NEW fd \in Fds
      PROVE  LET f == g_files[fd] IN
             /\ f.in_use \in BOOLEAN
             /\ f.in_use => /\ f.filename \in Names /\ f.file_size = FileSize[f.filename]
                            /\ f.position \in 0 .. f.file_size
                            /\ f.current_cluster \in 0 .. FS_CLUSTER_MAX - 1
  <2>1. g_files[fd] \in {NoFile} \cup OpenFiles
    BY DEF FsIInv
  <2>2. g_files[fd].in_use \in BOOLEAN /\ (g_files[fd].in_use => g_files[fd] \in OpenFiles)
    BY <2>1, OpenOrNot
  <2>3. g_files[fd] \in OpenFiles =>
          LET f == g_files[fd] IN
          /\ f.filename \in Names /\ f.file_size = FileSize[f.filename]
          /\ f.position \in 0 .. f.file_size
          /\ f.current_cluster \in Clusters
    <3>1. SUFFICES ASSUME NEW f \in OpenFiles
                   PROVE  /\ f.filename \in Names /\ f.file_size = FileSize[f.filename]
                          /\ f.position \in 0 .. f.file_size /\ f.current_cluster \in Clusters
      BY Zenon
    <3> QED BY DEF OpenFiles, Files
  <2> QED BY <2>2, <2>3, Zenon DEF Clusters
<1> QED BY <1>1, <1>2, <1>3 DEF FsTypeOK, FsIInv

\* No file is open at boot and no call is in progress.
LEMMA FsInitIInv == FsInit => FsIInv
<1> SUFFICES ASSUME FsInit PROVE FsIInv
  OBVIOUS
<1>1. call.kind = "idle"
  BY DEF FsInit, NoCall
<1>2. \A fd \in Fds : g_files[fd] \notin OpenFiles
  BY OpenOrNot DEF FsInit
<1> QED BY <1>1, <1>2, Zenon DEF FsInit, FsIInv

-----------------------------------------------------------------------------
(* The operations that are not loops.                                      *)

\* No call is in progress: what the invariant says then.
LEMMA IdleIInv ==
  ASSUME FsIInv, Idle
  PROVE  /\ call = NoCall /\ call.kind = "idle"
         /\ \A fd \in Fds : g_files[fd] \in OpenFiles => On(g_files[fd], g_files[fd].position)
<1>1. call.kind = "idle" /\ call = NoCall
  BY CallKinds DEF FsIInv, Idle
<1> QED BY <1>1 DEF FsIInv, Reached

\* A step that ends without a call in progress and leaves every cluster at
\* the position of its descriptor keeps the invariant.
LEMMA ToIdle ==
  ASSUME g_fs_initialized' \in BOOLEAN, g_files' \in [Fds -> {NoFile} \cup OpenFiles],
         call' = NoCall,
         \A fd \in Fds : g_files'[fd] \in OpenFiles => On(g_files'[fd], g_files'[fd].position)
  PROVE  FsIInv'
<1>1. call'.kind = "idle"
  BY DEF NoCall
<1>2. \A fd \in Fds : Reached(fd)' = g_files'[fd].position
  BY <1>1 DEF Reached
<1> QED BY <1>1, <1>2 DEF FsIInv

\* fs_open starts at the first cluster of the file.
LEMMA OpenedOK ==
  ASSUME NEW name \in Names
  PROVE  Opened(name) \in OpenFiles /\ On(Opened(name), 0) /\ Opened(name).position = 0
<1>1. /\ LowCluster[name] \in Clusters /\ FileSize[name] \in Nat /\ Sector \in Nat \ {0}
  BY VolumeTypes DEF Clusters
<1>2. Opened(name) \in OpenFiles /\ Opened(name).position = 0
  BY <1>1 DEF Opened, OpenFiles, Files
<1>3. 0 < FileSize[name] => LowCluster[name] = Chain[name][1]
  BY ChainStep
<1>4. Place(0) = 1
  BY <1>1 DEF Place
<1> QED BY <1>2, <1>3, <1>4 DEF On, Opened

\* fs_open fills a free descriptor.
LEMMA OpenIInv ==
  ASSUME FsIInv, NEW name \in Names, NEW fd \in Fds, fs_open(name, fd)
  PROVE  FsIInv'
<1>1. call' = NoCall /\ g_fs_initialized' \in BOOLEAN
  BY IdleIInv DEF fs_open, FsIInv
<1>2. g_files \in [Fds -> {NoFile} \cup OpenFiles] /\ g_files' = [g_files EXCEPT ![fd] = Opened(name)]
  BY DEF fs_open, FsIInv
<1>3. \A e \in Fds : g_files[e] \in OpenFiles => On(g_files[e], g_files[e].position)
  BY IdleIInv DEF fs_open
<1>4. g_files' \in [Fds -> {NoFile} \cup OpenFiles]
  BY <1>2, OpenedOK
<1>5. \A e \in Fds : g_files'[e] = IF e = fd THEN Opened(name) ELSE g_files[e]
  BY <1>2
<1>6. \A e \in Fds : g_files'[e] \in OpenFiles => On(g_files'[e], g_files'[e].position)
  BY <1>3, <1>5, OpenedOK
<1> QED BY <1>1, <1>4, <1>6, ToIdle

\* Closing a descriptor, and clearing a free one.
LEMMA CloseIInv ==
  ASSUME FsIInv, Idle, NEW fd \in Fds, g_files' = [g_files EXCEPT ![fd] = NoFile],
         UNCHANGED <<g_fs_initialized, call, got>>
  PROVE  FsIInv'
<1>1. call' = NoCall /\ g_fs_initialized' \in BOOLEAN
  BY IdleIInv DEF FsIInv
<1>2. g_files \in [Fds -> {NoFile} \cup OpenFiles]
  BY DEF FsIInv
<1>3. \A e \in Fds : g_files[e] \in OpenFiles => On(g_files[e], g_files[e].position)
  BY IdleIInv
<1>4. g_files' \in [Fds -> {NoFile} \cup OpenFiles]
  BY <1>2
<1>5. \A e \in Fds : g_files'[e] = IF e = fd THEN NoFile ELSE g_files[e]
  BY <1>2
<1>6. \A e \in Fds : g_files'[e] \in OpenFiles => On(g_files'[e], g_files'[e].position)
  BY <1>3, <1>5, OpenOrNot
<1> QED BY <1>1, <1>4, <1>6, ToIdle

\* fs_init leaves the descriptors alone.
LEMMA InitIInv ==
  ASSUME FsIInv, fs_init
  PROVE  FsIInv'
<1>1. call' = NoCall /\ g_fs_initialized' \in BOOLEAN /\ g_files' = g_files
  BY IdleIInv DEF FsIInv, fs_init
<1>2. \A e \in Fds : g_files[e] \in OpenFiles => On(g_files[e], g_files[e].position)
  BY IdleIInv DEF fs_init
<1> QED BY <1>1, <1>2, ToIdle DEF FsIInv

\* A read begins.
LEMMA ReadIInv ==
  ASSUME FsIInv, NEW fd \in Fds, NEW count \in Nat, fs_read(fd, count)
  PROVE  FsIInv'
<1>1. /\ call' = [kind |-> "read", fd |-> fd, remaining |-> count,
                  from |-> g_files[fd].position, count |-> count]
      /\ got' = <<>> /\ g_files' = g_files /\ g_fs_initialized' = g_fs_initialized
      /\ g_files \in [Fds -> {NoFile} \cup OpenFiles] /\ g_fs_initialized \in BOOLEAN
      /\ g_files[fd].in_use
  BY DEF fs_read, FsIInv
<1>2. g_files[fd] \in OpenFiles
  BY <1>1, OpenOrNot
<1>3. g_files[fd].position \in Nat
  BY <1>2, Zenon DEF OpenFiles, Files
<1>4. call' \in ReadCalls /\ call'.kind = "read" /\ call'.fd = fd
  BY <1>1, <1>3 DEF ReadCalls
<1>5. \A e \in Fds : Reached(e)' = g_files[e].position
  BY <1>1, <1>4 DEF Reached
<1>6. \A e \in Fds : g_files[e] \in OpenFiles => On(g_files[e], g_files[e].position)
  BY IdleIInv DEF fs_read
<1>7. ReadOK'
  BY <1>1, <1>3 DEF ReadOK
<1> QED BY <1>1, <1>2, <1>4, <1>5, <1>6, <1>7 DEF FsIInv

\* A seek begins, at the first cluster.
LEMMA SeekIInv ==
  ASSUME Aligned, FsIInv, NEW fd \in Fds, NEW offset \in SeekOffsets, fs_seek(fd, offset)
  PROVE  FsIInv'
<1> DEFINE f == g_files[fd]
           g == [f EXCEPT !.position = offset, !.current_cluster = f.start_cluster]
<1>1. /\ call' = [kind |-> "seek", fd |-> fd, pos |-> 0, offset |-> offset]
      /\ g_files' = [g_files EXCEPT ![fd] = g] /\ g_fs_initialized' = g_fs_initialized
      /\ g_files \in [Fds -> {NoFile} \cup OpenFiles] /\ g_fs_initialized \in BOOLEAN
      /\ f.in_use /\ offset <= f.file_size
  BY Zenon DEF fs_seek, FsIInv
<1>2. f \in OpenFiles /\ offset \in Nat
  BY <1>1, OpenOrNot, FileSystemAssumption
<1>3. /\ f.filename \in Names /\ f.start_cluster = LowCluster[f.filename]
      /\ f.file_size = FileSize[f.filename] /\ f \in Files
  BY <1>2, Zenon DEF OpenFiles, Files
<1>4. /\ g \in OpenFiles /\ g.position = offset /\ g.filename = f.filename
      /\ g.current_cluster = LowCluster[f.filename] /\ g.file_size = f.file_size
  BY <1>1, <1>2, <1>3, Zenon DEF OpenFiles, Files
<1> HIDE DEF g, f
<1>5. On(g, 0)
  <2>1. Place(0) = 1
    BY <1>3, VolumeTypes DEF Place
  <2>2. 0 < FileSize[f.filename] => LowCluster[f.filename] = Chain[f.filename][1]
    BY <1>3, ChainStep
  <2> QED BY <1>3, <1>4, <2>1, <2>2 DEF On
<1>6. /\ call' \in SeekCalls /\ call'.kind = "seek" /\ call'.fd = fd /\ call'.pos = 0
      /\ call'.offset = offset
  BY <1>1, <1>2 DEF SeekCalls
<1>7. \A e \in Fds : g_files'[e] = IF e = fd THEN g ELSE g_files[e]
  BY <1>1
<1>8. \A e \in Fds : Reached(e)' = IF e = fd THEN 0 ELSE g_files[e].position
  BY <1>6, <1>7 DEF Reached
<1>9. \A e \in Fds : g_files'[e] \in OpenFiles => On(g_files'[e], Reached(e)')
  <2>1. \A e \in Fds : g_files[e] \in OpenFiles => On(g_files[e], g_files[e].position)
    BY IdleIInv DEF fs_seek
  <2> QED BY <1>5, <1>7, <1>8, <2>1
<1>10. SeekOK'
  <2>1. 0 % Sector = 0 /\ offset % Sector = 0 /\ 0 <= offset
    BY <1>2, <1>3, VolumeTypes DEF Aligned
  <2> QED BY <1>4, <1>6, <1>7, <2>1 DEF SeekOK
<1>11. g_files' \in [Fds -> {NoFile} \cup OpenFiles]
  BY <1>1, <1>4
<1> QED BY <1>1, <1>4, <1>6, <1>7, <1>9, <1>10, <1>11 DEF FsIInv

-----------------------------------------------------------------------------
(* The loops.                                                              *)

\* Two borders of sectors are whole sectors apart.
LEMMA Borders ==
  ASSUME NEW B \in Nat \ {0}, NEW p \in Nat, NEW o \in Nat, p % B = 0, o % B = 0, p < o
  PROVE  p + B <= o
<1> DEFINE q == p \div B
           r == o \div B
<1>1. q \in Nat /\ r \in Nat /\ p = B * q + (p % B) /\ o = B * r + (o % B)
  BY Whole
<1> HIDE DEF q, r
<1>2. B * q \in Nat /\ B * r \in Nat
  BY <1>1, Monotone
<1>3. p = B * q /\ o = B * r
  BY <1>1, <1>2
<1>4. q < r
  BY <1>1, <1>3, Monotone
<1>5. B * q + B <= B * r
  BY <1>1, <1>4, Monotone
<1> QED BY <1>3, <1>5

\* One step of the walk of fs_seek.
LEMMA SeekClusterIInv ==
  ASSUME FsIInv, SeekCluster
  PROVE  FsIInv'
<1> DEFINE fd == call.fd
           f == g_files[fd]
           p == call.pos
           next == fat12_get_next(f.current_cluster)
<1>1. /\ call.kind = "seek" /\ p < call.offset
      /\ g_files \in [Fds -> {NoFile} \cup OpenFiles] /\ g_fs_initialized \in BOOLEAN
      /\ g_fs_initialized' = g_fs_initialized
  BY DEF SeekCluster, SeeksOn, FsIInv
<1>2. call \in SeekCalls /\ SeekOK
  BY <1>1, CallKinds DEF FsIInv
<1>3. /\ fd \in Fds /\ p \in Nat /\ call.offset \in Nat /\ p % Sector = 0 /\ call.offset % Sector = 0
      /\ call.offset = f.position
  BY <1>2 DEF SeekCalls, SeekOK
<1>4. f \in OpenFiles
  BY <1>1, <1>2, CallKinds DEF FsIInv, Idle
<1>5. /\ f \in Files /\ f.filename \in Names /\ f.file_size = FileSize[f.filename]
      /\ f.position <= f.file_size /\ f.position \in Nat /\ f.file_size \in Nat
  BY <1>4, Zenon DEF OpenFiles, Files
<1>6. \A e \in Fds : e # fd /\ g_files[e] \in OpenFiles => On(g_files[e], g_files[e].position)
  BY <1>1 DEF FsIInv, Reached
<1>7. On(f, p)
  BY <1>1, <1>3, <1>4 DEF FsIInv, Reached
<1>8. p < FileSize[f.filename]
  BY <1>1, <1>3, <1>5
<1>9. Sector \in Nat \ {0}
  BY <1>5, VolumeTypes
<1>10. /\ p + Sector <= f.position /\ (p + Sector) % Sector = 0 /\ Place(p + Sector) = Place(p) + 1
       /\ Sector * Place(p) = p + Sector
  <2>1. (p % Sector) + Sector = Sector /\ Sector \in Nat
    BY <1>3, <1>9
  <2>2. (p + Sector) \div Sector = p \div Sector + 1 /\ (p + Sector) % Sector = 0
        /\ Sector * (p \div Sector + 1) = p + Sector
    BY <1>3, <1>9, <2>1, NextSector, Zenon
  <2>3. p + Sector <= f.position
    BY <1>1, <1>3, <1>9, Borders
  <2> QED BY <2>2, <2>3 DEF Place
<1>11. f.current_cluster = Chain[f.filename][Place(p)]
  BY <1>5, <1>7, <1>8 DEF On
<1>12. CASE p + Sector < f.file_size
  <2>1. next = Chain[f.filename][Place(p) + 1] /\ next \in 2 .. FS_CLUSTER_MAX - 1
    <3>1. p \in Nat /\ f.filename \in Names /\ Sector * Place(p) < FileSize[f.filename]
      BY <1>3, <1>5, <1>10, <1>12, Zenon
    <3>2. next = fat12_get_next(Chain[f.filename][Place(p)])
      BY <1>11, Zenon
    <3> HIDE DEF f, p, next
    <3> QED BY <1>8, <3>1, <3>2, ChainStep, Zenon
  <2>2. FS_CLUSTER_MAX \in Nat
    BY <1>5, VolumeTypes
  <2> DEFINE g == [f EXCEPT !.current_cluster = next]
  <2>3. /\ g_files' = [g_files EXCEPT ![fd] = g]
        /\ call' = [call EXCEPT !.pos = p + Sector]
    BY <2>1, <2>2 DEF SeekCluster, Sector
  <2> HIDE DEF next, f
  <2>4. /\ g \in OpenFiles /\ g.position = f.position /\ g.filename = f.filename
        /\ g.current_cluster = next /\ g.file_size = f.file_size
    <3>1. next \in Clusters
      BY <2>1, <2>2 DEF Clusters
    <3> QED BY <1>4, <3>1, Zenon DEF OpenFiles, Files
  <2>5. /\ call' \in SeekCalls /\ call'.kind = "seek" /\ call'.fd = fd /\ call'.pos = p + Sector
        /\ call'.offset = call.offset
    BY <1>2, <1>3, <1>9, <2>3 DEF SeekCalls
  <2> HIDE DEF g
  <2>6. On(g, p + Sector)
    BY <1>10, <2>1, <2>4 DEF On
  <2>7. \A e \in Fds : g_files'[e] = IF e = fd THEN g ELSE g_files[e]
    BY <1>1, <2>3
  <2>8. \A e \in Fds : Reached(e)' = IF e = fd THEN p + Sector ELSE g_files[e].position
    BY <2>5, <2>7 DEF Reached
  <2>9. \A e \in Fds : g_files'[e] \in OpenFiles => On(g_files'[e], Reached(e)')
    BY <1>6, <2>6, <2>7, <2>8
  <2>10. SeekOK'
    BY <1>3, <1>10, <2>4, <2>5, <2>7 DEF SeekOK
  <2>11. g_files' \in [Fds -> {NoFile} \cup OpenFiles]
    BY <1>1, <2>3, <2>4, Zenon
  <2> QED BY <1>1, <1>3, <2>4, <2>5, <2>7, <2>9, <2>10, <2>11 DEF FsIInv
<1>13. CASE p + Sector >= f.file_size
  <2>1. next >= FS_CLUSTER_MAX
    BY <1>3, <1>5, <1>8, <1>10, <1>11, <1>13, ChainStep
  <2>2. call' = NoCall /\ g_files' = g_files
    BY <2>1 DEF SeekCluster
  <2>3. f.position = f.file_size
    <3>1. p + Sector <= f.position
      BY <1>10
    <3>2. f.position <= f.file_size /\ f.file_size <= p + Sector
      BY <1>5, <1>13
    <3>3. f.position \in Nat /\ f.file_size \in Nat /\ p \in Nat
      BY <1>3, <1>5, Zenon
    <3> HIDE DEF f, p
    <3>4. p + Sector \in Nat
      BY <1>9, <3>3
    <3> QED BY <3>1, <3>2, <3>3, <3>4
  <2>4. On(f, f.position)
    BY <1>5, <2>3 DEF On
  <2>5. \A e \in Fds : g_files'[e] \in OpenFiles => On(g_files'[e], g_files'[e].position)
    BY <1>6, <2>2, <2>4
  <2> QED BY <1>1, <2>2, <2>5, ToIdle
<1> QED BY <1>3, <1>5, <1>9, <1>12, <1>13

\* A read or a seek returns.
LEMMA ReturnIInv ==
  ASSUME FsIInv, ReadReturns \/ ReadFails \/ SeekReturns
  PROVE  FsIInv'
<1>1. /\ call' = NoCall /\ g_files' = g_files /\ g_fs_initialized' = g_fs_initialized
      /\ g_files \in [Fds -> {NoFile} \cup OpenFiles] /\ g_fs_initialized \in BOOLEAN
  BY DEF FsIInv, ReadReturns, ReadFails, SeekReturns
<1>2. \A fd \in Fds : g_files[fd] \in OpenFiles => On(g_files[fd], Reached(fd))
  BY DEF FsIInv
<1>3. CASE call.kind = "read"
  BY <1>1, <1>2, <1>3, ToIdle DEF Reached
<1>4. CASE SeekReturns
  <2>1. call \in SeekCalls /\ SeekOK /\ ~SeeksOn
    BY <1>4, CallKinds DEF FsIInv, SeekReturns
  <2>2. call.pos = g_files[call.fd].position
    BY <2>1 DEF SeekCalls, SeekOK, SeeksOn
  <2>3. \A fd \in Fds : Reached(fd) = g_files[fd].position
    BY <2>2 DEF Reached
  <2> QED BY <1>1, <1>2, <2>3, ToIdle
<1> QED BY <1>3, <1>4 DEF ReadReturns, ReadFails, ReadsOn

\* The number of bytes one iteration of fs_read copies.
LEMMA ToCopyBounds ==
  ASSUME NEW f \in OpenFiles, call \in ReadCalls, call.remaining > 0, f.position < f.file_size
  PROVE  LET n == ToCopy(f)
         IN /\ n \in Nat \ {0} /\ n <= call.remaining /\ f.position + n <= f.file_size
            /\ (f.position % Sector) + n <= Sector
<1>1. f.position \in Nat /\ f.file_size \in Nat /\ call.remaining \in Nat /\ Sector \in Nat \ {0}
  BY VolumeTypes DEF OpenFiles, Files, ReadCalls
<1>2. f.position % Sector \in 0 .. Sector - 1
  BY <1>1
<1> DEFINE r == f.position % Sector
<1> HIDE DEF r
<1>3. ToCopy(f) = Smallest(Smallest(Sector - r, call.remaining), f.file_size - f.position)
  BY DEF ToCopy, Sector, r
<1> QED BY <1>1, <1>2, <1>3 DEF Smallest, r

\* After n more bytes the cluster is the one of the new position, or the
\* next one when a sector ends there.
LEMMA AfterCopy ==
  ASSUME NEW f \in OpenFiles, f.position < f.file_size, On(f, f.position),
         NEW n \in Nat \ {0}, f.position + n <= f.file_size, (f.position % Sector) + n <= Sector
  PROVE  LET p == f.position + n
             moves == p % Sector = 0 /\ p < f.file_size
             next == fat12_get_next(f.current_cluster)
         IN /\ moves => next \in 2 .. FS_CLUSTER_MAX - 1 /\ next = Chain[f.filename][Place(p)]
            /\ ~moves /\ p < f.file_size => f.current_cluster = Chain[f.filename][Place(p)]
<1> DEFINE p == f.position
           name == f.filename
<1>1. /\ p \in Nat /\ f.file_size \in Nat /\ name \in Names /\ f.file_size = FileSize[name]
      /\ Sector \in Nat \ {0}
  BY VolumeTypes DEF OpenFiles, Files
<1>2. f.current_cluster = Chain[name][Place(p)]
  BY DEF On
<1>3. p % Sector \in 0 .. Sector - 1
  BY <1>1
<1> HIDE DEF p, name
<1>4. CASE (p % Sector) + n < Sector
  <2>1. (p + n) \div Sector = p \div Sector /\ (p + n) % Sector = (p % Sector) + n
    BY <1>1, <1>4, SameSector, Zenon
  <2>2. (p + n) % Sector # 0
    BY <1>3, <2>1
  <2>3. Place(p + n) = Place(p)
    BY <2>1 DEF Place
  <2> QED BY <1>2, <2>2, <2>3 DEF p, name
<1>5. CASE (p % Sector) + n = Sector
  <2>1. (p + n) \div Sector = p \div Sector + 1 /\ (p + n) % Sector = 0
        /\ Sector * (p \div Sector + 1) = p + n
    BY <1>1, <1>5, NextSector, Zenon
  <2>2. Place(p + n) = Place(p) + 1 /\ Sector * Place(p) = p + n
    BY <2>1 DEF Place
  <2>3. p < FileSize[name]
    BY <1>1 DEF p
  <2>4. p + n < f.file_size =>
          /\ fat12_get_next(f.current_cluster) = Chain[name][Place(p + n)]
          /\ fat12_get_next(f.current_cluster) \in 2 .. FS_CLUSTER_MAX - 1
    <3>1. Sector * Place(p) < FileSize[name] =>
            /\ fat12_get_next(Chain[name][Place(p)]) = Chain[name][Place(p) + 1]
            /\ Chain[name][Place(p) + 1] \in 2 .. FS_CLUSTER_MAX - 1
      BY <1>1, <2>3, ChainStep, Zenon
    <3> QED BY <1>1, <1>2, <2>2, <3>1, Zenon
  <2> QED BY <2>1, <2>4 DEF p, name
<1>6. (p % Sector) + n < Sector \/ (p % Sector) + n = Sector
  BY <1>1, <1>3 DEF p
<1> QED BY <1>4, <1>5, <1>6

\* The bytes copied are those of the file at their positions.
LEMMA Copied ==
  ASSUME NEW f \in OpenFiles, f.position < f.file_size, On(f, f.position),
         NEW j \in Nat, (f.position % Sector) + j < Sector
  PROVE  <<cluster_to_lba(f.current_cluster), (f.position % Sector) + j>>
           = Location(f.filename, f.position + j)
<1>1. /\ f.position \in Nat /\ f.file_size \in Nat /\ f.filename \in Names
      /\ f.file_size = FileSize[f.filename] /\ Sector \in Nat \ {0} /\ FS_CLUSTER_MAX \in Nat
  BY VolumeTypes DEF OpenFiles, Files
<1>2. (f.position + j) \div Sector = f.position \div Sector
      /\ (f.position + j) % Sector = (f.position % Sector) + j
  BY <1>1, SameSector, Zenon
<1> DEFINE c == f.current_cluster
<1>3. c = Chain[f.filename][Place(f.position)] /\ c \in 2 .. FS_CLUSTER_MAX - 1
  BY <1>1, ChainStep, Zenon DEF On
<1> HIDE DEF c
<1>4. cluster_to_lba(c) = FS_DATA_START_SECTOR + c - 2
  <2>1. FS_DATA_START_SECTOR \in Nat
    BY DEF FS_DATA_START_SECTOR
  <2> QED BY <1>1, <1>3, <2>1 DEF cluster_to_lba
<1>5. Location(f.filename, f.position + j)
        = <<FS_DATA_START_SECTOR + c - 2, (f.position % Sector) + j>>
  BY <1>2, <1>3 DEF Location, Place, Sector
<1> QED BY <1>4, <1>5 DEF c

\* A cluster of the data area passes the test of fs_read.
LEMMA BelowMax ==
  ASSUME NEW c \in 2 .. FS_CLUSTER_MAX - 1, FS_CLUSTER_MAX \in Nat
  PROVE  c < FS_CLUSTER_MAX /\ ~(c >= FS_CLUSTER_MAX) /\ c \in Clusters
  BY DEF Clusters

\* One iteration of the loop of fs_read.
LEMMA ReadSectorIInv ==
  ASSUME FsIInv, ReadSector
  PROVE  FsIInv'
<1> DEFINE fd == call.fd
           f == g_files[fd]
           n == ToCopy(f)
           p == f.position + n
           next == fat12_get_next(f.current_cluster)
           moves == p % Sector = 0 /\ p < f.file_size
           c == IF moves THEN next ELSE f.current_cluster
           g == [f EXCEPT !.position = p, !.current_cluster = c]
           new == [k \in 1 .. n |-> <<cluster_to_lba(f.current_cluster), (f.position % Sector) + k - 1>>]
<1>1. /\ call.kind = "read" /\ call.remaining > 0 /\ f.position < f.file_size
      /\ g_files \in [Fds -> {NoFile} \cup OpenFiles] /\ g_fs_initialized \in BOOLEAN
      /\ g_fs_initialized' = g_fs_initialized
  BY DEF ReadSector, ReadsOn, FsIInv
<1>2. call \in ReadCalls /\ ReadOK
  BY <1>1, CallKinds DEF FsIInv
<1>3. /\ fd \in Fds /\ call.remaining \in Nat /\ call.from \in Nat /\ call.count \in Nat
  BY <1>2 DEF ReadCalls
<1>4. f \in OpenFiles
  BY <1>1, <1>2, CallKinds DEF FsIInv, Idle
<1>5. \A e \in Fds : g_files[e] \in OpenFiles => On(g_files[e], g_files[e].position)
  BY <1>1 DEF FsIInv, Reached
<1>6. /\ n \in Nat \ {0} /\ n <= call.remaining /\ p <= f.file_size
      /\ (f.position % Sector) + n <= Sector
  BY <1>1, <1>2, <1>4, ToCopyBounds
<1>7. /\ f.filename \in Names /\ f.file_size \in Nat /\ f.position \in Nat
      /\ f.current_cluster \in Clusters /\ Sector \in Nat \ {0} /\ FS_CLUSTER_MAX \in Nat
  BY <1>4, VolumeTypes, Zenon DEF OpenFiles, Files
<1>8. /\ moves => next \in 2 .. FS_CLUSTER_MAX - 1 /\ next = Chain[f.filename][Place(p)]
      /\ ~moves /\ p < f.file_size => f.current_cluster = Chain[f.filename][Place(p)]
  BY <1>1, <1>3, <1>4, <1>5, <1>6, AfterCopy
<1>9. moves => next < FS_CLUSTER_MAX /\ ~(next >= FS_CLUSTER_MAX) /\ next \in Clusters
  BY <1>7, <1>8, BelowMax, Zenon
<1>10. /\ got' = got \o new
       /\ g_files' = [g_files EXCEPT ![fd] = g]
       /\ call' = [call EXCEPT !.remaining = call.remaining - n]
  <2>1. /\ (moves /\ next < FS_CLUSTER_MAX) <=> moves
        /\ ~(moves /\ next >= FS_CLUSTER_MAX)
    BY <1>9
  <2> HIDE DEF next, n
  <2> QED BY <2>1, Zenon DEF ReadSector, Sector, next, n
<1>11. /\ g \in OpenFiles /\ g.position = p /\ g.filename = f.filename
       /\ g.current_cluster = c /\ g.file_size = f.file_size
  <2>1. c \in Clusters
    BY <1>7, <1>9, Zenon
  <2>2. p \in Nat
    <3> HIDE DEF f, n
    <3> QED BY <1>6, <1>7
  <2> HIDE DEF c, p, f
  <2> QED BY <1>4, <1>6, <2>1, <2>2, Zenon DEF OpenFiles, Files
<1>12. On(g, p)
  <2> HIDE DEF next, p, g
  <2> QED BY <1>8, <1>11 DEF On
<1>13. /\ call' \in ReadCalls /\ call'.kind = "read" /\ call'.fd = fd /\ call'.from = call.from
       /\ call'.count = call.count /\ call'.remaining = call.remaining - n
  <2>1. call.remaining - n \in Nat
    BY <1>3, <1>6
  <2> HIDE DEF n
  <2> QED BY <1>2, <1>10, <2>1 DEF ReadCalls
<1> HIDE DEF c, next, g
<1>14. \A e \in Fds : g_files'[e] = IF e = fd THEN g ELSE g_files[e]
  BY <1>1, <1>10
<1>15. \A e \in Fds : Reached(e)' = g_files'[e].position
  BY <1>13 DEF Reached
<1>16. \A e \in Fds : g_files'[e] \in OpenFiles => On(g_files'[e], Reached(e)')
  BY <1>5, <1>11, <1>12, <1>14, <1>15
<1>17. ReadOK'
  <2>1. /\ got \in Seq(Int \X Int) /\ Len(got) \in Nat /\ call.from + Len(got) = f.position
        /\ call.remaining + Len(got) = call.count
        /\ \A k \in 1 .. Len(got) : got[k] = Location(f.filename, call.from + k - 1)
    BY <1>2, Sequences1 DEF ReadOK
  <2>2. ASSUME NEW k \in 1 .. n
        PROVE  new[k] = Location(f.filename, f.position + (k - 1)) /\ new[k] \in Int \X Int
    <3>1. k - 1 \in Nat /\ (f.position % Sector) + (k - 1) < Sector
      BY <1>6, <1>7
    <3>2. new[k] = <<cluster_to_lba(f.current_cluster), (f.position % Sector) + (k - 1)>>
      <4>1. (f.position % Sector) + k - 1 = (f.position % Sector) + (k - 1)
        BY <1>7
      <4> QED BY <4>1
    <3>3. cluster_to_lba(f.current_cluster) \in Int
      BY <1>7 DEF cluster_to_lba, FS_ROOT_DIR_SECTOR, FS_DATA_START_SECTOR, Clusters
    <3>4. (f.position % Sector) + (k - 1) \in Int
      BY <1>7, <3>1
    <3>5. new[k] = Location(f.filename, f.position + (k - 1))
      BY <1>1, <1>3, <1>4, <1>5, <3>1, <3>2, Copied
    <3> QED BY <3>2, <3>3, <3>4, <3>5
  <2> HIDE DEF n, f
  <2>3. new \in [1 .. n -> Int \X Int]
    BY <2>2
  <2> HIDE DEF new
  <2>4. /\ got' \in Seq(Int \X Int) /\ Len(got') = Len(got) + n
        /\ \A k \in 1 .. Len(got) + n : got'[k] = IF k <= Len(got) THEN got[k] ELSE new[k - Len(got)]
    BY <1>6, <1>10, <2>1, <2>3, Appended
  <2>5. ASSUME NEW k \in 1 .. Len(got') PROVE got'[k] = Location(f.filename, call.from + k - 1)
    <3>1. CASE k <= Len(got)
      <4>1. k \in 1 .. Len(got) /\ k \in 1 .. Len(got) + n
        BY <1>6, <2>1, <2>4, <3>1
      <4>2. got'[k] = got[k]
        BY <2>4, <3>1, <4>1, Zenon
      <4> QED BY <2>1, <4>1, <4>2
    <3>2. CASE k > Len(got)
      <4>1. k - Len(got) \in 1 .. n /\ ~(k <= Len(got)) /\ k \in 1 .. Len(got) + n
        BY <1>6, <2>1, <2>4, <3>2
      <4>2. f.position + ((k - Len(got)) - 1) = call.from + k - 1
        BY <1>3, <1>7, <2>1, <4>1
      <4>3. got'[k] = new[k - Len(got)]
        BY <2>4, <4>1
      <4> QED BY <2>2, <4>1, <4>2, <4>3
    <3> QED BY <2>1, <2>4, <3>1, <3>2
  <2>6. call'.from + Len(got') = g.position
    <3>1. g.position = f.position + n /\ call'.from = call.from /\ Len(got') = Len(got) + n
      BY <1>11, <1>13, <2>4
    <3>2. call.from + Len(got) = f.position /\ Len(got) \in Nat /\ n \in Nat /\ call.from \in Nat
      BY <1>3, <1>6, <2>1
    <3> QED BY <3>1, <3>2
  <2>7. call'.remaining + Len(got') = call'.count
    BY <1>3, <1>6, <1>13, <2>1, <2>4
  <2>8. g_files'[call'.fd] = g
    BY <1>3, <1>13, <1>14
  <2> QED BY <1>11, <1>13, <2>4, <2>5, <2>6, <2>7, <2>8 DEF ReadOK
<1>18. g_files' \in [Fds -> {NoFile} \cup OpenFiles]
  BY <1>1, <1>10, <1>11, Zenon
<1>19. call' # NoCall => g_files'[call'.fd] \in OpenFiles
  BY <1>3, <1>11, <1>13, <1>14
<1> QED BY <1>1, <1>13, <1>16, <1>17, <1>18, <1>19 DEF FsIInv

\* A step of the call in progress keeps the invariant.
LEMMA CallStepIInv ==
  ASSUME FsIInv, CallStep
  PROVE  FsIInv'
  BY ReadSectorIInv, SeekClusterIInv, ReturnIInv DEF CallStep, Advance

-----------------------------------------------------------------------------
(* User descriptors.                                                       *)

\* A record of g_files in use.
IsFile(f) == {"in_use", "filename"} \subseteq DOMAIN f /\ f.in_use = TRUE

\* What the descriptors depend on of the file system.
FilesOK ==
  /\ g_files = [fd \in Fds |-> g_files[fd]]
  /\ \A fd \in Fds : g_files[fd] = NoFile \/ IsFile(g_files[fd])
  /\ ~Idle => "fd" \in DOMAIN call /\ call.fd \in Fds /\ IsFile(g_files[call.fd])

\* What DescriptorsValid says while no call has strayed.
Valid ==
  /\ \A i \in Held :
       LET fd == g_kernel_fds[i]
       IN /\ fd \in Fds /\ g_files[fd].in_use /\ g_files[fd].filename = opened[i]
          /\ fd \notin shell /\ \A j \in Held \ {i} : g_kernel_fds[j] # fd
  /\ \A fd \in shell : g_files[fd].in_use

\* The inductive invariant: while no call has strayed the shell's own
\* descriptor is open too, and a held slot is never taken for a free one.
DescriptorsIInv ==
  /\ FilesOK
  /\ g_kernel_fds \in [Slots -> Fds \cup {-1}]
  /\ opened \in [Slots -> Names \cup {None}]
  /\ shell \subseteq Fds /\ refused \in BOOLEAN /\ strayed \in BOOLEAN
  /\ \A i \in Held : g_kernel_fds[i] \in Fds
  /\ ~strayed => Valid
  /\ NoFileLeaks

\* A descriptor is in use exactly when it holds a file.
LEMMA FileOrNot ==
  /\ NoFile.in_use = FALSE
  /\ \A f : IsFile(f) => f.in_use = TRUE
<1>1. NoFile.in_use = FALSE
  BY DEF NoFile
<1>2. ASSUME NEW f, IsFile(f) PROVE f.in_use = TRUE
  BY <1>2 DEF IsFile
<1> QED BY <1>1, <1>2, Zenon

\* Another record of an open file in the place of one.
LEMMA MovedFile ==
  ASSUME FilesOK, NEW fd \in Fds, IsFile(g_files[fd]),
         NEW g, IsFile(g), g.filename = g_files[fd].filename,
         g_files' = [g_files EXCEPT ![fd] = g], Idle' \/ ("fd" \in DOMAIN call' /\ call'.fd = fd)
  PROVE  /\ FilesOK'
         /\ \A e \in Fds : /\ g_files'[e].in_use = g_files[e].in_use
                           /\ g_files'[e].filename = g_files[e].filename
<1>1. \A e \in Fds : g_files'[e] = IF e = fd THEN g ELSE g_files[e]
  BY DEF FilesOK
<1>2. g_files' = [e \in Fds |-> g_files'[e]]
  BY DEF FilesOK
<1>3. \A e \in Fds : g_files'[e] = NoFile \/ IsFile(g_files'[e])
  BY <1>1 DEF FilesOK
<1> QED BY <1>1, <1>2, <1>3, FileOrNot, Zenon DEF FilesOK

\* A record of an open file with another position and cluster.
LEMMA MovedIsFile ==
  ASSUME NEW f, IsFile(f), NEW p, NEW c
  PROVE  /\ IsFile([f EXCEPT !.position = p, !.current_cluster = c])
         /\ [f EXCEPT !.position = p, !.current_cluster = c].filename = f.filename
         /\ IsFile([f EXCEPT !.current_cluster = c])
         /\ [f EXCEPT !.current_cluster = c].filename = f.filename
  BY DEF IsFile

\* The loops move a descriptor and neither open nor close one.
LEMMA LoopsKeepFiles ==
  ASSUME FilesOK, CallStep
  PROVE  /\ FilesOK'
         /\ \A e \in Fds : /\ g_files'[e].in_use = g_files[e].in_use
                           /\ g_files'[e].filename = g_files[e].filename
<1> DEFINE fd == call.fd
           f == g_files[fd]
<1>1. fd \in Fds /\ IsFile(f) /\ "fd" \in DOMAIN call
  BY Zenon DEF FilesOK, CallStep, Advance, ReadSector, ReadReturns, ReadFails, ReadsOn, SeekCluster,
         SeekReturns, Idle
<1>2. CASE UNCHANGED g_files /\ call' = NoCall
  <2>1. Idle'
    BY <1>2 DEF Idle, NoCall
  <2> QED BY <1>2, <2>1 DEF FilesOK
<1>3. CASE ReadSector
  <2> DEFINE n == ToCopy(f)
             p == f.position + n
             next == fat12_get_next(f.current_cluster)
             moves == p % FS_BYTES_PER_SECTOR = 0 /\ p < f.file_size
             c == IF moves /\ next < FS_CLUSTER_MAX THEN next ELSE f.current_cluster
             g == [f EXCEPT !.position = p, !.current_cluster = c]
  <2>1. /\ g_files' = [g_files EXCEPT ![fd] = g]
        /\ call' = [call EXCEPT !.remaining =
                       IF moves /\ next >= FS_CLUSTER_MAX THEN 0 ELSE call.remaining - n]
    BY <1>3, Zenon DEF ReadSector
  <2>2. "fd" \in DOMAIN call' /\ call'.fd = fd
    <3> HIDE DEF moves, n, next
    <3> QED BY <1>1, <2>1
  <2> HIDE DEF p, c, f
  <2>3. IsFile(g) /\ g.filename = f.filename
    BY <1>1 DEF IsFile
  <2> HIDE DEF g
  <2> QED BY <1>1, <2>1, <2>2, <2>3, MovedFile, Zenon DEF f
<1>4. CASE SeekCluster /\ ~(fat12_get_next(f.current_cluster) >= FS_CLUSTER_MAX)
  <2> DEFINE c == fat12_get_next(f.current_cluster)
             g == [f EXCEPT !.current_cluster = c]
  <2>1. /\ g_files' = [g_files EXCEPT ![fd] = g]
        /\ call' = [call EXCEPT !.pos = call.pos + FS_BYTES_PER_SECTOR]
    BY <1>4 DEF SeekCluster
  <2>2. "fd" \in DOMAIN call' /\ call'.fd = fd
    BY <1>1, <2>1
  <2> HIDE DEF c
  <2>3. IsFile(g) /\ g.filename = f.filename
    BY <1>1, MovedIsFile, Zenon
  <2> HIDE DEF g
  <2> QED BY <1>1, <2>1, <2>2, <2>3, MovedFile, Zenon
<1>5. SeekCluster /\ fat12_get_next(f.current_cluster) >= FS_CLUSTER_MAX
        => UNCHANGED g_files /\ call' = NoCall
  BY DEF SeekCluster
<1>6. ReadReturns \/ ReadFails \/ SeekReturns => UNCHANGED g_files /\ call' = NoCall
  BY DEF ReadReturns, ReadFails, SeekReturns
<1> QED BY <1>2, <1>3, <1>4, <1>5, <1>6 DEF CallStep, Advance

\* A step that leaves the slots alone and neither opens nor closes a file.
LEMMA SlotsKept ==
  ASSUME DescriptorsIInv, FilesOK',
         \A fd \in Fds : /\ g_files'[fd].in_use = g_files[fd].in_use
                         /\ g_files'[fd].filename = g_files[fd].filename,
         UNCHANGED <<g_kernel_fds, opened, shell, strayed>>, refused' \in BOOLEAN
  PROVE  DescriptorsIInv'
<1>1. Held' = Held
  BY DEF Held
<1>2. ~strayed' => Valid'
  BY <1>1 DEF Valid, DescriptorsIInv
<1>3. NoFileLeaks'
  BY <1>1 DEF NoFileLeaks, DescriptorsIInv
<1> QED BY <1>1, <1>2, <1>3 DEF DescriptorsIInv

\* Opening a file in a free descriptor, for a slot or for the shell.
LEMMA OpenFiles1 ==
  ASSUME FilesOK, NEW name \in Names, NEW fd \in Fds, fs_open(name, fd)
  PROVE  /\ FilesOK' /\ ~g_files[fd].in_use
         /\ g_files'[fd].in_use = TRUE /\ g_files'[fd].filename = name
         /\ \A e \in Fds \ {fd} : g_files'[e] = g_files[e]
<1>1. Idle /\ call' = call /\ g_files' = [g_files EXCEPT ![fd] = Opened(name)] /\ ~g_files[fd].in_use
  BY DEF fs_open, FreeFd
<1>2. IsFile(Opened(name)) /\ Opened(name).filename = name
  BY DEF Opened, IsFile
<1>3. \A e \in Fds : g_files'[e] = IF e = fd THEN Opened(name) ELSE g_files[e]
  BY <1>1 DEF FilesOK
<1>4. FilesOK'
  BY <1>1, <1>2, <1>3 DEF FilesOK, Idle
<1> QED BY <1>1, <1>2, <1>3, <1>4, FileOrNot

\* Clearing a descriptor.
LEMMA CloseFiles ==
  ASSUME FilesOK, Idle, NEW fd \in Fds, g_files' = [g_files EXCEPT ![fd] = NoFile], call' = call
  PROVE  FilesOK' /\ ~g_files'[fd].in_use /\ \A e \in Fds \ {fd} : g_files'[e] = g_files[e]
<1>1. \A e \in Fds : g_files'[e] = IF e = fd THEN NoFile ELSE g_files[e]
  BY DEF FilesOK
<1>2. FilesOK'
  BY <1>1 DEF FilesOK, Idle
<1> QED BY <1>1, <1>2, FileOrNot

\* No slot and no descriptor is in use at boot.
LEMMA DescriptorsInit == SyscallInit => DescriptorsIInv
<1> SUFFICES ASSUME SyscallInit PROVE DescriptorsIInv
  OBVIOUS
<1>1. FilesOK
  BY DEF SyscallInit, FsInit, FilesOK, Idle, NoCall
<1>2. Held = {}
  BY DEF Held, SyscallInit
<1>3. \A fd \in Fds : ~g_files[fd].in_use
  BY FileOrNot DEF SyscallInit, FsInit
<1>4. g_kernel_fds \in [Slots -> Fds \cup {-1}]
  BY FileSystemAssumption DEF SyscallInit, InitialSlots, Fds
<1> QED BY <1>1, <1>2, <1>3, <1>4, Zenon DEF SyscallInit, DescriptorsIInv, Valid, NoFileLeaks

\* sys_open: the descriptor is taken by nobody, and neither is the slot.
LEMMA SysOpenKeeps ==
  ASSUME DescriptorsIInv, NEW name \in Names, sys_open(name)
  PROVE  DescriptorsIInv'
<1>1. PICK fd \in Fds, i \in Slots :
        /\ fs_open(name, fd) /\ FreeSlot(i)
        /\ g_kernel_fds' = [g_kernel_fds EXCEPT ![i] = fd] /\ opened' = [opened EXCEPT ![i] = name]
        /\ refused' = FALSE /\ shell' = shell /\ strayed' = strayed
  BY Zenon DEF sys_open
<1>2. /\ FilesOK' /\ ~g_files[fd].in_use
      /\ g_files'[fd].in_use = TRUE /\ g_files'[fd].filename = name
      /\ \A e \in Fds \ {fd} : g_files'[e] = g_files[e]
  BY <1>1, OpenFiles1, Zenon DEF DescriptorsIInv
<1>3. i \notin Held
  <2>1. -1 \notin Fds
    BY FileSystemAssumption DEF Fds
  <2> QED BY <1>1, <2>1 DEF DescriptorsIInv, FreeSlot
<1>4. /\ \A j \in Slots : g_kernel_fds'[j] = IF j = i THEN fd ELSE g_kernel_fds[j]
      /\ \A j \in Slots : opened'[j] = IF j = i THEN name ELSE opened[j]
  BY <1>1 DEF DescriptorsIInv
<1>5. Held' = Held \cup {i}
  BY <1>1, <1>4, SyscallAssumption DEF Held
<1>6. ~strayed => fd \notin shell /\ \A j \in Held : g_kernel_fds[j] # fd
  BY <1>2 DEF DescriptorsIInv, Valid
<1>7. ASSUME ~strayed, NEW j \in Held'
      PROVE  LET e == g_kernel_fds'[j]
             IN /\ e \in Fds /\ g_files'[e].in_use /\ g_files'[e].filename = opened'[j]
                /\ e \notin shell /\ \A k \in Held' \ {j} : g_kernel_fds'[k] # e
  <2>1. Held \subseteq Slots
    BY DEF Held
  <2>2. CASE j = i
    BY <1>1, <1>2, <1>3, <1>4, <1>5, <1>6, <1>7, <2>1, <2>2
  <2>3. CASE j \in Held
    <3>1. LET e == g_kernel_fds[j]
          IN /\ e \in Fds /\ g_files[e].in_use /\ g_files[e].filename = opened[j]
             /\ e \notin shell /\ \A k \in Held \ {j} : g_kernel_fds[k] # e
      BY <1>7, <2>3 DEF DescriptorsIInv, Valid
    <3>2. g_kernel_fds'[j] = g_kernel_fds[j] /\ opened'[j] = opened[j] /\ g_kernel_fds[j] # fd
      BY <1>3, <1>4, <1>6, <1>7, <2>1, <2>3
    <3>3. \A k \in Held' \ {j} : g_kernel_fds'[k] # g_kernel_fds[j]
      BY <1>4, <1>5, <2>1, <3>1, <3>2
    <3> QED BY <1>2, <3>1, <3>2, <3>3
  <2> QED BY <1>5, <2>2, <2>3
<1>8. ~strayed' => Valid'
  <2>1. ASSUME ~strayed, NEW e \in shell PROVE g_files'[e].in_use
    BY <1>2, <1>6, <2>1 DEF DescriptorsIInv, Valid
  <2> QED BY <1>1, <1>7, <2>1 DEF Valid
<1>9. NoFileLeaks'
  <2>1. \A e \in Fds \ shell : g_files[e].in_use => \E j \in Held : g_kernel_fds[j] = e
    BY DEF DescriptorsIInv, NoFileLeaks
  <2>2. ASSUME NEW e \in Fds \ shell, g_files'[e].in_use PROVE \E j \in Held' : g_kernel_fds'[j] = e
    <3>1. CASE e = fd
      BY <1>4, <1>5, <3>1
    <3>2. CASE e # fd
      <4>1. PICK j \in Held : g_kernel_fds[j] = e
        BY <1>2, <2>1, <2>2, <3>2
      <4> QED BY <1>3, <1>4, <1>5, <4>1 DEF Held
    <3> QED BY <3>1, <3>2
  <2> QED BY <1>1, <2>2 DEF NoFileLeaks
<1>10. /\ g_kernel_fds' \in [Slots -> Fds \cup {-1}] /\ opened' \in [Slots -> Names \cup {None}]
       /\ \A j \in Held' : g_kernel_fds'[j] \in Fds
  BY <1>1, <1>4, <1>5 DEF DescriptorsIInv, Held
<1> QED BY <1>1, <1>2, <1>8, <1>9, <1>10, Zenon DEF DescriptorsIInv

\* sys_close: nobody else uses the descriptor it closes, unless it strays.
LEMMA SysCloseKeeps ==
  ASSUME DescriptorsIInv, NEW i \in Slots, sys_close(i)
  PROVE  DescriptorsIInv'
<1> DEFINE fd == g_kernel_fds[i]
<1>1. /\ fd >= 0 /\ fs_close(fd)
      /\ g_kernel_fds' = [g_kernel_fds EXCEPT ![i] = -1] /\ opened' = [opened EXCEPT ![i] = None]
      /\ refused' = FALSE /\ shell' = shell
      /\ strayed' = (strayed \/ (i \notin Held /\ g_files[fd].in_use))
  BY Zenon DEF sys_close
<1>2. fd \in Fds
  BY <1>1 DEF DescriptorsIInv
<1>9. ~strayed' => ~strayed /\ fd \notin shell /\ \A j \in Held \ {i} : g_kernel_fds[j] # fd
  BY <1>1 DEF DescriptorsIInv, Valid
<1>3. FilesOK' /\ ~g_files'[fd].in_use /\ \A e \in Fds \ {fd} : g_files'[e] = g_files[e]
  BY <1>1, <1>2, CloseFiles, Zenon DEF DescriptorsIInv, fs_close
<1> HIDE DEF fd
<1>4. /\ \A j \in Slots : g_kernel_fds'[j] = IF j = i THEN -1 ELSE g_kernel_fds[j]
      /\ \A j \in Slots : opened'[j] = IF j = i THEN None ELSE opened[j]
  BY <1>1 DEF DescriptorsIInv
<1>5. Held' = Held \ {i} /\ Held \subseteq Slots
  BY <1>4 DEF Held
<1>6. ~strayed' => Valid'
  <2>1. ASSUME ~strayed', NEW j \in Held'
        PROVE  LET e == g_kernel_fds'[j]
               IN /\ e \in Fds /\ g_files'[e].in_use /\ g_files'[e].filename = opened'[j]
                  /\ e \notin shell /\ \A k \in Held' \ {j} : g_kernel_fds'[k] # e
    <3>1. LET e == g_kernel_fds[j]
          IN /\ e \in Fds /\ g_files[e].in_use /\ g_files[e].filename = opened[j]
             /\ e \notin shell /\ \A k \in Held \ {j} : g_kernel_fds[k] # e
      BY <1>5, <1>9, <2>1 DEF DescriptorsIInv, Valid
    <3>2. g_kernel_fds'[j] = g_kernel_fds[j] /\ opened'[j] = opened[j] /\ g_kernel_fds[j] # fd
      BY <1>4, <1>5, <1>9, <2>1
    <3>3. \A k \in Held' \ {j} : g_kernel_fds'[k] # g_kernel_fds[j]
      BY <1>4, <1>5, <3>1
    <3> QED BY <1>3, <3>1, <3>2, <3>3
  <2>2. ASSUME ~strayed', NEW e \in shell PROVE g_files'[e].in_use
    BY <1>3, <1>9, <2>2 DEF DescriptorsIInv, Valid
  <2> QED BY <1>1, <2>1, <2>2 DEF Valid
<1>7. NoFileLeaks'
  <2>1. \A e \in Fds \ shell : g_files[e].in_use => \E j \in Held : g_kernel_fds[j] = e
    BY DEF DescriptorsIInv, NoFileLeaks
  <2>2. ASSUME NEW e \in Fds \ shell, g_files'[e].in_use PROVE \E j \in Held' : g_kernel_fds'[j] = e
    <3>1. e # fd
      BY <1>3, <2>2
    <3>2. PICK j \in Held : g_kernel_fds[j] = e
      BY <1>3, <2>1, <2>2, <3>1
    <3> QED BY <1>4, <1>5, <3>1, <3>2 DEF fd
  <2> QED BY <1>1, <2>2 DEF NoFileLeaks
<1>8. /\ g_kernel_fds' \in [Slots -> Fds \cup {-1}] /\ opened' \in [Slots -> Names \cup {None}]
      /\ \A j \in Held' : g_kernel_fds'[j] \in Fds
      /\ strayed' \in BOOLEAN
  BY <1>1, <1>4, <1>5 DEF DescriptorsIInv
<1> QED BY <1>1, <1>3, <1>6, <1>7, <1>8, Zenon DEF DescriptorsIInv

\* A refused sys_open opens a free descriptor and frees it again.
LEMMA RefusedKeeps ==
  ASSUME DescriptorsIInv, NEW name \in Names, SysOpenRefused(name)
  PROVE  DescriptorsIInv'
<1>1. PICK fd \in Fds : /\ Idle /\ FreeFd(fd) /\ g_files' = [g_files EXCEPT ![fd] = NoFile]
                        /\ call' = call /\ refused' = TRUE
                        /\ UNCHANGED <<g_kernel_fds, opened, shell, strayed>>
  BY Zenon DEF SysOpenRefused
<1>2. FilesOK' /\ \A e \in Fds \ {fd} : g_files'[e] = g_files[e]
  BY <1>1, CloseFiles, Zenon DEF DescriptorsIInv
<1>3. g_files[fd] = NoFile
  BY <1>1, FileOrNot DEF FreeFd, DescriptorsIInv, FilesOK
<1>4. g_files'[fd] = NoFile
  BY <1>1 DEF DescriptorsIInv, FilesOK
<1>5. \A e \in Fds : g_files'[e] = g_files[e]
  BY <1>2, <1>3, <1>4
<1> QED BY <1>1, <1>2, <1>5, SlotsKept

\* A read or a seek of an open descriptor begins.
LEMMA BeginKeeps ==
  ASSUME FilesOK, NEW fd \in Fds,
         (\E count : fs_read(fd, count)) \/ (\E offset : fs_seek(fd, offset))
  PROVE  /\ FilesOK'
         /\ \A e \in Fds : /\ g_files'[e].in_use = g_files[e].in_use
                           /\ g_files'[e].filename = g_files[e].filename
<1>1. IsFile(g_files[fd])
  BY FileOrNot, Zenon DEF FilesOK, fs_read, fs_seek
<1>2. ASSUME NEW count, fs_read(fd, count)
      PROVE  FilesOK' /\ g_files' = g_files
  <2>1. /\ call' = [kind |-> "read", fd |-> fd, remaining |-> count,
                    from |-> g_files[fd].position, count |-> count]
        /\ g_files' = g_files
    BY <1>2 DEF fs_read
  <2>2. "fd" \in DOMAIN call' /\ call'.fd = fd
    BY <2>1
  <2> QED BY <1>1, <2>1, <2>2 DEF FilesOK
<1>3. ASSUME NEW offset, fs_seek(fd, offset)
      PROVE  /\ FilesOK'
             /\ \A e \in Fds : /\ g_files'[e].in_use = g_files[e].in_use
                               /\ g_files'[e].filename = g_files[e].filename
  <2> DEFINE f == g_files[fd]
             c == f.start_cluster
             g == [f EXCEPT !.position = offset, !.current_cluster = c]
  <2>1. /\ call' = [kind |-> "seek", fd |-> fd, pos |-> 0, offset |-> offset]
        /\ g_files' = [g_files EXCEPT ![fd] = g]
    BY <1>3, Zenon DEF fs_seek
  <2>2. "fd" \in DOMAIN call' /\ call'.fd = fd
    BY <2>1
  <2> HIDE DEF f, c
  <2>3. IsFile(g) /\ g.filename = f.filename
    BY <1>1 DEF IsFile, f
  <2> HIDE DEF g
  <2> QED BY <1>1, <2>1, <2>2, <2>3, MovedFile, Zenon DEF f
<1> QED BY <1>2, <1>3

\* The shell opens and closes a descriptor of its own.
LEMMA CatOpenKeeps ==
  ASSUME DescriptorsIInv, NEW name \in Names, CatOpen(name)
  PROVE  DescriptorsIInv'
<1>1. PICK fd \in Fds : /\ fs_open(name, fd) /\ shell' = shell \cup {fd}
                        /\ UNCHANGED <<g_kernel_fds, opened, strayed, refused>>
  BY DEF CatOpen
<1>2. /\ FilesOK' /\ ~g_files[fd].in_use
      /\ g_files'[fd].in_use = TRUE /\ g_files'[fd].filename = name
      /\ \A e \in Fds \ {fd} : g_files'[e] = g_files[e]
  BY <1>1, OpenFiles1, Zenon DEF DescriptorsIInv
<1>3. Held' = Held /\ (~strayed => \A j \in Held : g_kernel_fds[j] # fd)
  BY <1>1, <1>2 DEF Held, DescriptorsIInv, Valid
<1>4. ~strayed' => Valid'
  <2>1. ASSUME ~strayed, NEW j \in Held
        PROVE  LET e == g_kernel_fds[j]
               IN /\ e \in Fds /\ g_files'[e].in_use /\ g_files'[e].filename = opened[j]
                  /\ e \notin shell' /\ \A k \in Held \ {j} : g_kernel_fds[k] # e
    BY <1>1, <1>2, <1>3, <2>1 DEF DescriptorsIInv, Valid
  <2>2. ASSUME ~strayed, NEW e \in shell' PROVE g_files'[e].in_use
    BY <1>1, <1>2, <2>2 DEF DescriptorsIInv, Valid
  <2> QED BY <1>1, <1>3, <2>1, <2>2 DEF Valid
<1>5. NoFileLeaks'
  BY <1>1, <1>2, <1>3 DEF DescriptorsIInv, NoFileLeaks
<1> QED BY <1>1, <1>2, <1>3, <1>4, <1>5 DEF DescriptorsIInv

\* cat closes its own descriptor, which no slot holds unless a call strayed.
LEMMA CatCloseKeeps ==
  ASSUME DescriptorsIInv, CatClose
  PROVE  DescriptorsIInv'
<1>1. PICK fd \in shell : /\ fs_close(fd) /\ shell' = shell \ {fd}
                          /\ UNCHANGED <<g_kernel_fds, opened, strayed, refused>>
  BY DEF CatClose
<1>2. fd \in Fds
  BY DEF DescriptorsIInv
<1>3. FilesOK' /\ ~g_files'[fd].in_use /\ \A e \in Fds \ {fd} : g_files'[e] = g_files[e]
  BY <1>1, <1>2, CloseFiles, Zenon DEF DescriptorsIInv, fs_close
<1>4. Held' = Held /\ (~strayed => \A j \in Held : g_kernel_fds[j] # fd)
  BY <1>1 DEF Held, DescriptorsIInv, Valid
<1>5. ~strayed' => Valid'
  <2>1. ASSUME ~strayed, NEW j \in Held
        PROVE  LET e == g_kernel_fds[j]
               IN /\ e \in Fds /\ g_files'[e].in_use /\ g_files'[e].filename = opened[j]
                  /\ e \notin shell' /\ \A k \in Held \ {j} : g_kernel_fds[k] # e
    BY <1>1, <1>3, <1>4, <2>1 DEF DescriptorsIInv, Valid
  <2>2. ASSUME ~strayed, NEW e \in shell' PROVE g_files'[e].in_use
    BY <1>1, <1>3, <2>2 DEF DescriptorsIInv, Valid
  <2> QED BY <1>1, <1>4, <2>1, <2>2 DEF Valid
<1>6. NoFileLeaks'
  BY <1>1, <1>2, <1>3, <1>4 DEF DescriptorsIInv, NoFileLeaks
<1> QED BY <1>1, <1>2, <1>3, <1>4, <1>5, <1>6 DEF DescriptorsIInv

\* Every step of the system calls keeps the invariant of the descriptors.
LEMMA DescriptorsNext ==
  ASSUME DescriptorsIInv, [SyscallNext]_svars
  PROVE  DescriptorsIInv'
<1>1. CASE Boot
  <2>1. FilesOK' /\ g_files' = g_files
    BY <1>1 DEF Boot, fs_init, DescriptorsIInv, FilesOK, Idle
  <2> QED BY <1>1, <2>1, SlotsKept DEF Boot, DescriptorsIInv
<1>2. ASSUME NEW i \in Slots, NEW count \in Counts, sys_read(i, count) PROVE DescriptorsIInv'
  <2>1. g_kernel_fds[i] \in Fds
    BY <1>2 DEF sys_read, DescriptorsIInv
  <2> QED BY <1>2, <2>1, BeginKeeps, SlotsKept, Zenon DEF sys_read, DescriptorsIInv
<1>3. ASSUME NEW i \in Slots, NEW offset \in SeekOffsets, sys_seek(i, offset) PROVE DescriptorsIInv'
  <2>1. g_kernel_fds[i] \in Fds
    BY <1>3 DEF sys_seek, DescriptorsIInv
  <2> QED BY <1>3, <2>1, BeginKeeps, SlotsKept, Zenon DEF sys_seek, DescriptorsIInv
<1>4. CASE CatRead(CatBuffer)
  <2>1. PICK fd \in shell : fs_read(fd, CatBuffer) /\ UNCHANGED <<g_kernel_fds, opened, shell, strayed, refused>>
    BY <1>4 DEF CatRead
  <2> QED BY <2>1, BeginKeeps, SlotsKept DEF DescriptorsIInv
<1>5. CASE Continue
  BY <1>5, LoopsKeepFiles, SlotsKept DEF Continue, DescriptorsIInv
<1>6. CASE UNCHANGED svars
  <2>1. FilesOK' /\ g_files' = g_files
    BY <1>6 DEF svars, fvars, DescriptorsIInv, FilesOK, Idle
  <2> QED BY <1>6, <2>1, SlotsKept DEF svars, DescriptorsIInv
<1> QED BY <1>1, <1>2, <1>3, <1>4, <1>5, <1>6, SysOpenKeeps, SysCloseKeeps, RefusedKeeps,
           CatOpenKeeps, CatCloseKeeps DEF SyscallNext

\* A descriptor a program holds leads to the open file it opened and to no
\* one else's, for every number of files and slots and every sequence of
\* calls, the unaligned seeks included, until sys_close is given a slot that
\* nobody holds and closes the file 0 of another.
THEOREM DescriptorsStayValid == SyscallSpec => []DescriptorsValid
<1>1. DescriptorsIInv => DescriptorsValid
  BY DEF DescriptorsIInv, Valid, DescriptorsValid
<1>2. DescriptorsIInv /\ [SyscallNext]_svars => DescriptorsIInv'
  BY DescriptorsNext
<1> QED BY <1>1, <1>2, DescriptorsInit, PTL DEF SyscallSpec

\* No file stays open without a descriptor for it, whatever sys_open finds
\* and whatever descriptors sys_close is given.
THEOREM OpenFilesAreHeld == SyscallSpec => []NoFileLeaks
<1>1. DescriptorsIInv => NoFileLeaks
  BY DEF DescriptorsIInv
<1>2. DescriptorsIInv /\ [SyscallNext]_svars => DescriptorsIInv'
  BY DescriptorsNext
<1> QED BY <1>1, <1>2, DescriptorsInit, PTL DEF SyscallSpec

-----------------------------------------------------------------------------
(* What reads return.                                                      *)

\* The invariant of the whole: the files and the descriptors.
SyscallIInv == FsIInv /\ DescriptorsIInv

\* The invariant of the whole holds at boot.
LEMMA SyscallInitIInv == SyscallInit => SyscallIInv
  BY FsInitIInv, DescriptorsInit DEF SyscallInit, SyscallIInv

\* Every step of the system calls keeps positions and clusters together.
LEMMA SyscallNextIInv ==
  ASSUME Aligned, SyscallIInv, [SyscallNext]_svars
  PROVE  SyscallIInv'
<1>0. FsIInv /\ DescriptorsIInv /\ DescriptorsIInv'
  BY DescriptorsNext DEF SyscallIInv
<1>h. \A i \in Slots : g_kernel_fds[i] >= 0 => g_kernel_fds[i] \in Fds
  BY <1>0 DEF DescriptorsIInv
<1>1. CASE Boot
  BY <1>0, <1>1, InitIInv DEF Boot, SyscallIInv
<1>2. ASSUME NEW name \in Names, sys_open(name) \/ CatOpen(name) PROVE FsIInv'
  BY <1>0, <1>2, OpenIInv DEF sys_open, CatOpen
<1>3. ASSUME NEW name \in Names, SysOpenRefused(name) PROVE FsIInv'
  BY <1>0, <1>3, CloseIInv, Zenon DEF SysOpenRefused
<1>4. ASSUME NEW i \in Slots, sys_close(i) PROVE FsIInv'
  BY <1>0, <1>h, <1>4, CloseIInv, Zenon DEF sys_close, fs_close
<1>5. ASSUME NEW i \in Slots, NEW count \in Counts, sys_read(i, count) PROVE FsIInv'
  <2>1. count % CountModulus \in Nat
    BY FileSystemAssumption, SyscallAssumption
  <2> QED BY <1>0, <1>h, <1>5, <2>1, ReadIInv DEF sys_read
<1>6. ASSUME NEW i \in Slots, NEW offset \in SeekOffsets, sys_seek(i, offset) PROVE FsIInv'
  BY <1>0, <1>h, <1>6, SeekIInv DEF sys_seek
<1>7. CASE CatRead(CatBuffer)
  <2>1. CatBuffer \in Nat /\ shell \subseteq Fds
    BY <1>0, SyscallAssumption DEF DescriptorsIInv
  <2> QED BY <1>0, <1>7, <2>1, ReadIInv DEF CatRead, SyscallIInv
<1>8. CASE CatClose
  <2>1. shell \subseteq Fds
    BY <1>0 DEF DescriptorsIInv
  <2> QED BY <1>0, <1>8, <2>1, CloseIInv, Zenon DEF CatClose, fs_close, SyscallIInv
<1>9. CASE Continue
  BY <1>0, <1>9, CallStepIInv DEF Continue, SyscallIInv
<1>10. CASE UNCHANGED svars
  <2>1. UNCHANGED <<g_fs_initialized, g_files, call, got>>
    BY <1>10 DEF svars, fvars
  <2> QED BY <1>0, <2>1 DEF FsIInv, Reached, ReadOK, SeekOK, SyscallIInv
<1> QED BY <1>0, <1>1, <1>2, <1>3, <1>4, <1>5, <1>6, <1>7, <1>8, <1>9, <1>10
        DEF SyscallNext, SyscallIInv

\* Descriptors, positions and clusters keep their types: no position runs
\* past the size of its file, and a call in progress is on an open file.
THEOREM FileTypesHold ==
  ASSUME Aligned
  PROVE  SyscallSpec => []SyscallTypeOK
<1>1. SyscallIInv => SyscallTypeOK
  BY FsIInvType DEF SyscallIInv, DescriptorsIInv, SyscallTypeOK
<1>2. SyscallIInv /\ [SyscallNext]_svars => SyscallIInv'
  BY SyscallNextIInv
<1> QED BY <1>1, <1>2, SyscallInitIInv, PTL DEF SyscallSpec

\* Every byte a read has copied is the file's byte at that position, for
\* every well-formed volume, after any sequence of calls and disk failures,
\* as long as the seeks are to borders of sectors.
THEOREM ReadsReturnFileBytes ==
  ASSUME Aligned
  PROVE  SyscallSpec => []ReadReturnsFileBytes
<1>1. SyscallIInv => ReadReturnsFileBytes
  BY DEF SyscallIInv, FsIInv, ReadOK, ReadReturnsFileBytes
<1>2. SyscallIInv /\ [SyscallNext]_svars => SyscallIInv'
  BY SyscallNextIInv
<1> QED BY <1>1, <1>2, SyscallInitIInv, PTL DEF SyscallSpec

\* A read that the disk does not fail returns its count or ends at the end
\* of the file: the loop never meets the end of a chain before it.
THEOREM ReadsAreComplete ==
  ASSUME Aligned
  PROVE  SyscallSpec => ReadIsComplete
<1>1. ASSUME SyscallIInv, ReadReturns
      PROVE  Len(got) = Smallest(call.count, g_files[call.fd].file_size - call.from)
  <2> DEFINE f == g_files[call.fd]
  <2>1. call \in ReadCalls /\ ReadOK
    BY <1>1, CallKinds DEF SyscallIInv, FsIInv, ReadReturns
  <2>2. f \in OpenFiles
    BY <1>1, <2>1, CallKinds DEF SyscallIInv, FsIInv, Idle, ReadReturns
  <2>3. /\ f.position \in Nat /\ f.file_size \in Nat /\ f.position <= f.file_size
    BY <2>2, Zenon DEF OpenFiles, Files
  <2>4. call.remaining \in Nat /\ call.count \in Nat /\ call.from \in Nat
    BY <2>1 DEF ReadCalls
  <2>5. /\ Len(got) \in Nat /\ call.from + Len(got) = f.position
        /\ call.remaining + Len(got) = call.count
    BY <2>1, Sequences1 DEF ReadOK
  <2>6. ~(call.remaining > 0 /\ f.position < f.file_size)
    BY <1>1 DEF ReadReturns, ReadsOn
  <2> DEFINE len == Len(got)
             count == call.count
             remaining == call.remaining
             from == call.from
             position == f.position
             size == f.file_size
  <2> HIDE DEF len, count, remaining, from, position, size
  <2>7. /\ len \in Nat /\ count \in Nat /\ remaining \in Nat /\ from \in Nat
        /\ position \in Nat /\ size \in Nat /\ position <= size
        /\ from + len = position /\ remaining + len = count /\ ~(remaining > 0 /\ position < size)
    BY <2>3, <2>4, <2>5, <2>6, Zenon DEF len, count, remaining, from, position, size
  <2>8. len = Smallest(count, size - from)
    BY <2>7 DEF Smallest
  <2> QED BY <2>8 DEF f, len, count, from, size
<1>2. SyscallIInv /\ [SyscallNext]_svars
        => [ReadReturns => Len(got) = Smallest(call.count, g_files[call.fd].file_size - call.from)]_fvars
  BY <1>1
<1>3. SyscallIInv /\ [SyscallNext]_svars => SyscallIInv'
  BY SyscallNextIInv
<1> QED BY <1>2, <1>3, SyscallInitIInv, PTL DEF SyscallSpec, ReadIsComplete
-----------------------------------------------------------------------------
(* The way of an interrupt.                                                *)

\* What a push does to a stack, a sequence with its top first.
LEMMA Push ==
  ASSUME NEW S, NEW s \in Seq(S), NEW t \in Seq(S)
  PROVE  /\ s \o t \in Seq(S) /\ Len(s \o t) = Len(s) + Len(t)
         /\ \A k \in 1 .. Len(s) : (s \o t)[k] = s[k]
         /\ <<>> \o t = t
  OBVIOUS

\* The first word pushed last is on top.
LEMMA Top ==
  ASSUME NEW S, NEW s \in Seq(S), NEW t \in Seq(S), Len(s) > 0
  PROVE  Head(s \o t) = s[1]
  OBVIOUS

\* Stacks of the same words are the same.
LEMMA SameWords ==
  ASSUME NEW S, NEW s \in Seq(S), NEW t \in Seq(S), Len(s) = Len(t),
         \A k \in 1 .. Len(s) : s[k] = t[k]
  PROVE  s = t
  OBVIOUS

\* Pushing in one go or in two makes no difference.
LEMMA PushInParts ==
  ASSUME NEW S, NEW s \in Seq(S), NEW t \in Seq(S), NEW u \in Seq(S)
  PROVE  s \o (t \o u) = (s \o t) \o u
  OBVIOUS

\* Taking away what was pushed leaves what was there, and taking no more
\* than what was pushed yields it.
LEMMA PushPop ==
  ASSUME NEW S, NEW s \in Seq(S), NEW t \in Seq(S)
  PROVE  /\ SubSeq(s \o t, Len(s) + 1, Len(s \o t)) = t
         /\ SubSeq(s \o t, 1, Len(s)) = s
  OBVIOUS

\* The words on the stack.
Words == Nat \cup {"eip", "cs", "eflags", "error", "registers", "below"}

\* The stack of each place of the way: the frame, with the error code of the
\* CPU or the 0 of the stub, and the number of the stub.
Entered(v) == (IF v \in {8, 14} THEN <<"error">> ELSE <<>>) \o Frame
Numbered(v) == IF v \in {8, 14} THEN <<v, "error">> ELSE <<v, 0>>

\* The last way in was an IRQ on a vector whose stub counts on an error code
\* that the CPU does not push for it.
Misplaced == \E irq \in line : base + irq \in {8, 14}
Torn == <<"cs", "eflags">>

\* The inductive invariant: at each place the stack holds what that place
\* expects, or, after a misplaced IRQ, one word less.
InterruptsIInv ==
  /\ InterruptsTypeOK
  /\ at \in {"code", "lost"} => stack = <<>>
  /\ at = "stub" => stack = IF Misplaced THEN Frame ELSE Entered(vector)
  /\ at \in {"isr_common_stub", "irq_common_stub"} =>
       stack = (IF Misplaced THEN <<vector>> ELSE Numbered(vector)) \o Frame
  /\ at = "return" => stack = IF Misplaced THEN Torn ELSE Frame
  /\ at # "code" /\ Misplaced => vector \in {8, 14} /\ at # "irq_common_stub"
  /\ at = "lost" => Misplaced
  /\ at # "lost" => resumed = Frame

\* The frame is three words, and what the stub leaves above it is two.
LEMMA FrameWords ==
  ASSUME NEW v \in Nat
  PROVE  /\ Frame \in Seq(Words) /\ Len(Frame) = 3
         /\ Numbered(v) \in Seq(Words) /\ Len(Numbered(v)) = 2
         /\ Below \in Seq(Words)
         /\ <<"error">> \in Seq(Words) /\ <<v>> \in Seq(Words)
<1>1. "eip" \in Words /\ "cs" \in Words /\ "eflags" \in Words /\ "below" \in Words /\ "error" \in Words
  BY DEF Words
<1>2. v \in Words /\ 0 \in Words
  BY DEF Words
<1>3. <<v, "error">> \in Seq(Words) /\ <<v, 0>> \in Seq(Words)
  BY <1>1, <1>2
<1>4. Numbered(v) \in Seq(Words) /\ Len(Numbered(v)) = 2
  BY <1>3 DEF Numbered
<1> QED BY <1>1, <1>2, <1>4 DEF Frame, Below

\* Pushing one word and then another.
LEMMA PushTwice ==
  ASSUME NEW S, NEW a \in S, NEW b \in S
  PROVE  <<a>> \o <<b>> = <<a, b>>
<1>1. <<a>> \in Seq(S) /\ <<b>> \in Seq(S) /\ <<a, b>> \in Seq(S)
  OBVIOUS
<1>2. /\ <<a>> \o <<b>> \in Seq(S) /\ Len(<<a>> \o <<b>>) = 2
      /\ \A k \in 1 .. 2 : (<<a>> \o <<b>>)[k] = <<a, b>>[k]
  BY <1>1, Push
<1>3. Len(<<a, b>>) = 2
  OBVIOUS
<1> QED BY <1>1, <1>2, <1>3, SameWords, Zenon

\* The stub completes the frame to the same depth with and without an error code.
LEMMA StubCompletes ==
  ASSUME NEW v \in Nat
  PROVE  (IF v \in {8, 14} THEN <<v>> ELSE <<v, 0>>) \o Entered(v) = Numbered(v) \o Frame
<1>1. Frame \in Seq(Words) /\ <<v>> \in Seq(Words) /\ <<"error">> \in Seq(Words)
  BY FrameWords
<1>2. CASE v \in {8, 14}
  <2>1. <<v>> \o (<<"error">> \o Frame) = (<<v>> \o <<"error">>) \o Frame
    BY <1>1, PushInParts
  <2>2. <<v>> \o <<"error">> = <<v, "error">>
    <3>1. v \in Words /\ "error" \in Words
      BY DEF Words
    <3> QED BY <3>1, PushTwice
  <2> QED BY <1>2, <2>1, <2>2 DEF Entered, Numbered
<1>3. CASE v \notin {8, 14}
  <2>1. <<>> \o Frame = Frame
    BY <1>1, Push
  <2> QED BY <1>3, <2>1 DEF Entered, Numbered
<1> QED BY <1>2, <1>3

\* Two words and two words above the frame: the first is the argument of a
\* C function called now, and the frame is left below four.
LEMMA FourAbove ==
  ASSUME NEW S, NEW s \in Seq(S), NEW t \in Seq(S), NEW f \in Seq(S), Len(s) = 2, Len(t) = 2
  PROVE  Head(s \o (t \o f)) = s[1] /\ Unwind(s \o (t \o f)) = f
<1>1. s \o (t \o f) = (s \o t) \o f
  OBVIOUS
<1>2. s \o t \in Seq(S) /\ Len(s \o t) = 4
  <2>1. s \o t \in Seq(S) /\ Len(s \o t) = Len(s) + Len(t)
    BY Push, Zenon
  <2> QED BY <2>1
<1>3. Unwind((s \o t) \o f) = f
  <2>1. SubSeq((s \o t) \o f, Len(s \o t) + 1, Len((s \o t) \o f)) = f
    BY <1>2, PushPop
  <2> QED BY <1>2, <2>1 DEF Unwind
<1>4. Head(s \o (t \o f)) = s[1]
  <2> DEFINE u == t \o f
  <2>1. u \in Seq(S) /\ Len(u) \in Nat
    BY Push
  <2> HIDE DEF u
  <2>2. Len(s) > 0
    OBVIOUS
  <2> QED BY <2>1, <2>2, Top DEF u
<1> QED BY <1>1, <1>3, <1>4

\* One word less: the eip counts as the second word of the stub.
LEMMA OneWordLess ==
  ASSUME NEW v \in Nat
  PROVE  /\ <<v>> \o Frame = <<v, "eip">> \o Torn
         /\ <<v, "eip">> \in Seq(Words) /\ Len(<<v, "eip">>) = 2
         /\ Torn \in Seq(Words) /\ Len(Torn) = 2
<1>1. /\ v \in Words /\ "eip" \in Words /\ "cs" \in Words /\ "eflags" \in Words
  BY DEF Words
<1>2. /\ Frame \in Seq(Words) /\ Len(Frame) = 3 /\ <<v>> \in Seq(Words) /\ Len(<<v>>) = 1
      /\ <<v, "eip">> \in Seq(Words) /\ Len(<<v, "eip">>) = 2
      /\ Torn \in Seq(Words) /\ Len(Torn) = 2
      /\ <<v, "eip", "cs", "eflags">> \in Seq(Words) /\ Len(<<v, "eip", "cs", "eflags">>) = 4
  BY <1>1 DEF Frame, Torn
<1>3. <<v>> \o Frame = <<v, "eip", "cs", "eflags">>
  <2>1. \A k \in 1 .. 4 : (<<v>> \o Frame)[k] = <<v, "eip", "cs", "eflags">>[k]
    BY <1>1, <1>2 DEF Frame
  <2>2. <<v>> \o Frame \in Seq(Words) /\ Len(<<v>> \o Frame) = 4
    <3>1. <<v>> \o Frame \in Seq(Words) /\ Len(<<v>> \o Frame) = Len(<<v>>) + Len(Frame)
      BY <1>2, Push, Zenon
    <3> QED BY <1>2, <3>1
  <2> QED BY <1>2, <2>1, <2>2, SameWords, Zenon
<1>4. <<v, "eip">> \o Torn = <<v, "eip", "cs", "eflags">>
  <2>1. \A k \in 1 .. 4 : (<<v, "eip">> \o Torn)[k] = <<v, "eip", "cs", "eflags">>[k]
    BY <1>1, <1>2 DEF Torn
  <2>2. <<v, "eip">> \o Torn \in Seq(Words) /\ Len(<<v, "eip">> \o Torn) = 4
    <3>1. <<v, "eip">> \o Torn \in Seq(Words) /\ Len(<<v, "eip">> \o Torn) = Len(<<v, "eip">>) + Len(Torn)
      BY <1>2, Push, Zenon
    <3> QED BY <1>2, <3>1
  <2> QED BY <1>2, <2>1, <2>2, SameWords, Zenon
<1> QED BY <1>2, <1>3, <1>4

\* The common stubs hand eax, not the number, to the C handler, and pop
\* four words: what was pushed above the frame, and the eip with it after a
\* misplaced IRQ.
LEMMA CommonStub ==
  ASSUME InterruptsTypeOK
  PROVE  /\ SavedEax \in Nat \ {0}
         /\ stack = Numbered(vector) \o Frame => Head(Saved) = SavedEax /\ Unwind(Saved) = Frame
         /\ stack = <<vector>> \o Frame => Head(Saved) = SavedEax /\ Unwind(Saved) = Torn
<1>1. vector \in Nat /\ eax \in Nat
  <2>1. Half \in Nat
    BY SMT DEF Half
  <2>2. EaxHigh \subseteq Nat
    BY <2>1, InterruptsAssumption
  <2> QED BY <2>2 DEF InterruptsTypeOK
<1>2. SavedEax \in Nat \ {0}
  <2>1. Half \in Nat
    BY SMT DEF Half
  <2> QED BY <1>1, <2>1 DEF SavedEax
<1> DEFINE top == <<SavedEax, "registers">>
<1>3. top \in Seq(Words) /\ Len(top) = 2 /\ top[1] = SavedEax
  BY <1>2 DEF Words
<1>4. /\ Frame \in Seq(Words)
      /\ Numbered(vector) \in Seq(Words) /\ Len(Numbered(vector)) = 2
  BY <1>1, FrameWords
<1> HIDE DEF top
<1>5. Head(top \o (Numbered(vector) \o Frame)) = top[1] /\ Unwind(top \o (Numbered(vector) \o Frame)) = Frame
  BY <1>3, <1>4, FourAbove
<1>6. Head(top \o (<<vector>> \o Frame)) = top[1] /\ Unwind(top \o (<<vector>> \o Frame)) = Torn
  <2> DEFINE two == <<vector, "eip">>
  <2>1. two \in Seq(Words) /\ Len(two) = 2 /\ Torn \in Seq(Words) /\ <<vector>> \o Frame = two \o Torn
    BY <1>1, OneWordLess
  <2> HIDE DEF two
  <2>2. Head(top \o (two \o Torn)) = top[1] /\ Unwind(top \o (two \o Torn)) = Torn
    BY <1>3, <2>1, FourAbove
  <2> QED BY <2>1, <2>2
<1> QED BY <1>2, <1>3, <1>5, <1>6 DEF Saved, top

\* The depth of the stack at each place.
LEMMA StackDepth ==
  ASSUME NEW v \in Nat
  PROVE  /\ Len(Entered(v)) <= 4 /\ Len(Numbered(v) \o Frame) = 5 /\ Len(<<v>> \o Frame) = 4
         /\ Len(Frame) = 3 /\ Len(Torn) = 2 /\ <<>> \o Frame = Frame
<1>1. /\ Frame \in Seq(Words) /\ Len(Frame) = 3
      /\ Numbered(v) \in Seq(Words) /\ Len(Numbered(v)) = 2
      /\ <<"error">> \in Seq(Words) /\ <<>> \in Seq(Words) /\ <<v>> \in Seq(Words)
  BY FrameWords
<1>2. Len(<<"error">> \o Frame) = Len(<<"error">>) + Len(Frame)
  BY <1>1, Push, Zenon
<1>3. Len(<<>> \o Frame) = 3 /\ <<>> \o Frame = Frame
  BY <1>1, Push
<1>4. Len(Numbered(v) \o Frame) = Len(Numbered(v)) + Len(Frame)
  BY <1>1, Push, Zenon
<1>5. Len(<<v>> \o Frame) = Len(<<v>>) + Len(Frame)
  BY <1>1, Push, Zenon
<1> QED BY <1>1, <1>2, <1>3, <1>4, <1>5 DEF Entered, Torn

\* No interrupt is being handled at boot.
LEMMA InterruptsInitIInv == InterruptsInit => InterruptsIInv
<1> SUFFICES ASSUME InterruptsInit PROVE InterruptsIInv
  OBVIOUS
<1>1. PitTypeOK /\ served \in 0 .. TickModulus - 1
  <2>1. 0 \in 0 .. TickModulus - 1 /\ 0 \in 0 .. LateTicks
    BY PitAssumption
  <2> QED BY <2>1, Zenon DEF InterruptsInit, PitInit, PitTypeOK
<1> QED BY <1>1 DEF InterruptsInit, InterruptsIInv, InterruptsTypeOK, Irqs

\* The CPU takes a vector: the frame it pushed, with an error code or not, is
\* what the stub of that vector expects, unless the vector is misplaced.
LEMMA EnterIInv ==
  ASSUME InterruptsIInv, NEW v \in Gates, vector' = v, at' = "stub",
         stack' = IF Misplaced' THEN Frame ELSE Entered(v), Misplaced' => v \in {8, 14},
         UNCHANGED <<base, arg, eax, served, resumed>>, at = "code", PitTypeOK',
         pending' \subseteq Irqs, inservice' \subseteq Irqs, line' \subseteq Irqs
  PROVE  InterruptsIInv'
<1>1. v \in 0 .. 255 /\ v \in Nat
  BY DEF Gates, Exceptions
<1>2. Len(stack') <= 5
  <2>1. Len(Entered(v)) <= 4 /\ Len(Frame) = 3
    BY <1>1, StackDepth
  <2>2. CASE Misplaced'
    <3>1. stack' = Frame
      BY <2>2, Zenon
    <3> QED BY <3>1 DEF Frame
  <2>3. CASE ~Misplaced'
    <3>1. Len(Entered(v)) <= 4 /\ Len(Entered(v)) \in Nat
      <4>1. Frame \in Seq(Words) /\ <<"error">> \in Seq(Words) /\ <<>> \in Seq(Words)
        BY <1>1, FrameWords
      <4>2. Entered(v) \in Seq(Words)
        BY <4>1, Push DEF Entered
      <4> QED BY <2>1, <4>2
    <3>2. stack' = Entered(v)
      BY <2>3, Zenon
    <3> QED BY <3>1, <3>2
  <2> QED BY <2>2, <2>3
<1>3. InterruptsTypeOK'
  BY <1>1, <1>2 DEF InterruptsIInv, InterruptsTypeOK
<1> QED BY <1>3 DEF InterruptsIInv

\* Every step keeps the invariant.
LEMMA InterruptsNextIInv ==
  ASSUME InterruptsIInv, [InterruptsNext]_allvars
  PROVE  InterruptsIInv'
<1>0. PitTypeOK /\ InterruptsTypeOK /\ TickModulus \in Nat \ {0} /\ LateTicks \in Nat /\ vector \in Nat
  <2>1. TickModulus \in Nat \ {0} /\ LateTicks \in Nat
    BY PitAssumption, Zenon
  <2>2. PitTypeOK /\ InterruptsTypeOK /\ vector \in 0..255
    BY Zenon DEF InterruptsIInv, InterruptsTypeOK
  <2> QED BY <2>1, <2>2
<1>p. UNCHANGED pvars => PitTypeOK'
  BY <1>0 DEF PitTypeOK, pvars
<1>m. UNCHANGED <<base, line>> => Misplaced' = Misplaced
  BY DEF Misplaced
<1>i. ASSUME UNCHANGED ivars, PitTypeOK' PROVE InterruptsIInv'
  <2>1. InterruptsTypeOK'
    BY <1>0, <1>i DEF ivars, InterruptsTypeOK
  <2>2. /\ at' = at /\ stack' = stack /\ vector' = vector /\ resumed' = resumed
        /\ Misplaced' = Misplaced
    BY <1>i, <1>m, Zenon DEF ivars
  <2> QED BY <2>1, <2>2, Zenon DEF InterruptsIInv
<1>1. ASSUME NEW irq \in Irqs, Raise(irq) PROVE InterruptsIInv'
  <2>1. /\ pending' = pending \cup {irq} /\ UNCHANGED pvars
        /\ UNCHANGED <<base, line, stack, at, vector, arg, eax, inservice, served, resumed>>
    BY <1>1, Zenon DEF Raise
  <2>2. /\ base' = base /\ line' = line /\ stack' = stack /\ at' = at /\ vector' = vector /\ arg' = arg
        /\ eax' = eax /\ inservice' = inservice /\ served' = served /\ resumed' = resumed
    BY <2>1, Zenon
  <2>3. pending' \subseteq Irqs /\ PitTypeOK'
    BY <1>0, <1>1, <1>p, <2>1, Zenon DEF InterruptsTypeOK
  <2>4. InterruptsTypeOK'
    BY <1>0, <2>2, <2>3, Zenon DEF InterruptsTypeOK
  <2>5. Misplaced' = Misplaced
    BY <1>m, <2>2, Zenon
  <2> QED BY <2>2, <2>4, <2>5, Zenon DEF InterruptsIInv
<1>2. ASSUME NEW irq \in Irqs, AcceptIrq(irq) PROVE InterruptsIInv'
  <2>1. base + irq \in Nat
    BY <1>0, InterruptsAssumption DEF Irqs, InterruptsTypeOK
  <2>2. /\ UNCHANGED <<base, arg, eax, served, resumed>> /\ at = "code" /\ at' = "stub"
        /\ line' = {irq} /\ vector' = IF base + irq \in Gates THEN base + irq ELSE 8
        /\ stack' = (IF base + irq \in Gates THEN <<>> ELSE <<"error">>) \o Frame
    BY <1>2, Zenon DEF AcceptIrq, Enter
  <2>3. pending' \subseteq Irqs /\ inservice' \subseteq Irqs /\ line' \subseteq Irqs
    BY <1>2, <2>2 DEF AcceptIrq, InterruptsIInv, InterruptsTypeOK
  <2>4. PitTypeOK'
    BY <1>0, <1>2 DEF AcceptIrq, Wake, PitTypeOK
  <2>5. Misplaced' <=> base + irq \in {8, 14}
    BY <2>2 DEF Misplaced
  <2>6. <<>> \o Frame = Frame
    BY <1>0, StackDepth
  <2>7. CASE base + irq \in {8, 14}
    <3>1. base + irq \in Gates
      BY <2>7 DEF Gates, Exceptions
    <3> QED BY <2>2, <2>3, <2>4, <2>5, <2>6, <2>7, <3>1, EnterIInv
  <2>8. CASE base + irq \in Gates /\ base + irq \notin {8, 14}
    <3>1. stack' = Entered(base + irq)
      BY <2>2, <2>8, Zenon DEF Entered
    <3> QED BY <2>2, <2>3, <2>4, <2>5, <2>8, <3>1, EnterIInv
  <2>9. CASE base + irq \notin Gates
    <3>1. 8 \in Gates /\ base + irq \notin {8, 14}
      BY <2>9 DEF Gates, Exceptions
    <3>2. stack' = Entered(8)
      BY <2>2, <2>9, Zenon DEF Entered
    <3> QED BY <2>2, <2>3, <2>4, <2>5, <2>9, <3>1, <3>2, EnterIInv
  <2> QED BY <2>7, <2>8, <2>9
<1>3. ASSUME NEW v \in Exceptions, Exception(v) PROVE InterruptsIInv'
  <2>1. v \in Gates
    BY DEF Gates
  <2>2. /\ vector' = v /\ at' = "stub" /\ stack' = Entered(v) /\ at = "code" /\ line' = {}
        /\ UNCHANGED <<base, arg, eax, served, resumed>> /\ UNCHANGED pvars
    BY <1>3, <2>1, Zenon DEF Exception, Enter, Entered
  <2>3. pending' \subseteq Irqs /\ inservice' \subseteq Irqs /\ line' \subseteq Irqs
    BY <1>3, <2>2 DEF Exception, InterruptsIInv, InterruptsTypeOK
  <2>4. ~Misplaced'
    BY <2>2 DEF Misplaced
  <2> QED BY <1>p, <2>1, <2>2, <2>3, <2>4, EnterIInv
<1>4. CASE Stub
  <2>1. /\ at = "stub" /\ UNCHANGED <<pvars, base, line, vector, arg, eax, pending, inservice, served, resumed>>
        /\ stack' = (IF vector \in {8, 14} THEN <<vector>> ELSE <<vector, 0>>) \o stack
        /\ at' = IF vector \in Exceptions THEN "isr_common_stub" ELSE "irq_common_stub"
    BY <1>4, Zenon DEF Stub
  <2>2. stack' = (IF Misplaced THEN <<vector>> ELSE Numbered(vector)) \o Frame
    <3>1. CASE Misplaced
      BY <2>1, <3>1, Zenon DEF InterruptsIInv
    <3>2. CASE ~Misplaced
      BY <1>0, <2>1, <3>2, StubCompletes, Zenon DEF InterruptsIInv
    <3> QED BY <3>1, <3>2
  <2>3. Len(stack') <= 5
    <3>1. Len(<<vector>> \o Frame) = 4 /\ Len(Numbered(vector) \o Frame) = 5
      BY <1>0, StackDepth
    <3>2. stack' = <<vector>> \o Frame \/ stack' = Numbered(vector) \o Frame
      BY <2>2, Zenon
    <3> QED BY <3>1, <3>2
  <2>4. Misplaced => vector \in {8, 14} /\ at' = "isr_common_stub"
    BY <2>1 DEF InterruptsIInv, Exceptions
  <2>5. InterruptsTypeOK'
    BY <1>0, <1>p, <2>1, <2>3 DEF InterruptsTypeOK
  <2>6. /\ at' \in {"isr_common_stub", "irq_common_stub"} /\ resumed' = Frame
        /\ Misplaced' = Misplaced /\ vector' = vector
    BY <1>m, <2>1 DEF InterruptsIInv
  <2>7. stack' = (IF Misplaced' THEN <<vector'>> ELSE Numbered(vector')) \o Frame
    BY <2>2, <2>6, Zenon
  <2>8. Misplaced' => vector' \in {8, 14} /\ at' # "irq_common_stub"
    BY <2>4, <2>6
  <2> QED BY <2>5, <2>6, <2>7, <2>8 DEF InterruptsIInv
<1>5. CASE IsrCommon
  <2>1. /\ at = "isr_common_stub" /\ at' = "return" /\ stack' = Unwind(Saved) /\ arg' = Head(Saved)
        /\ UNCHANGED <<base, line, vector, eax, pending, served, resumed>>
        /\ UNCHANGED pvars /\ inservice' = inservice
    BY <1>5, Zenon DEF IsrCommon, isr_handler
  <2>2. (stack' = IF Misplaced THEN Torn ELSE Frame) /\ arg' \in Nat
    BY <1>0, <2>1, CommonStub DEF InterruptsIInv
  <2>3. Len(stack') <= 5
    <3>1. stack' = Torn \/ stack' = Frame
      BY <2>2, Zenon
    <3>2. CASE stack' = Torn
      BY <3>2 DEF Torn
    <3>3. CASE stack' = Frame
      BY <3>3 DEF Frame
    <3> QED BY <3>1, <3>2, <3>3
  <2>4. InterruptsTypeOK'
    BY <1>0, <1>p, <2>1, <2>2, <2>3 DEF InterruptsTypeOK
  <2>5. Misplaced' = Misplaced /\ vector' = vector /\ at' = "return" /\ resumed' = Frame
    BY <1>m, <2>1 DEF InterruptsIInv
  <2>6. Misplaced' => vector' \in {8, 14}
    BY <2>1, <2>5 DEF InterruptsIInv
  <2>7. stack' = IF Misplaced' THEN Torn ELSE Frame
    BY <2>2, <2>5, Zenon
  <2> QED BY <2>4, <2>5, <2>6, <2>7 DEF InterruptsIInv
<1>6. CASE IrqCommon
  <2>1. /\ at = "irq_common_stub" /\ at' = "return" /\ stack' = Unwind(Saved) /\ arg' = Head(Saved)
        /\ UNCHANGED <<base, line, vector, eax, pending, resumed>>
    BY <1>6, Zenon DEF IrqCommon
  <2>2. ~Misplaced /\ stack' = Frame /\ arg' \in Nat /\ Head(Saved) # 0
    BY <1>0, <2>1, CommonStub DEF InterruptsIInv
  <2>3. Len(stack') <= 5
    BY <1>0, <2>2, StackDepth
  <2>4. UNCHANGED pvars /\ inservice' = EOI(inservice)
    BY <1>6, <2>2 DEF IrqCommon, irq_handler
  <2>5. inservice' \subseteq Irqs
    BY <1>0, <2>4 DEF EOI, InterruptsTypeOK
  <2>6. served' \in 0 .. TickModulus - 1
    BY <1>0, <1>6 DEF IrqCommon, InterruptsTypeOK
  <2>7. InterruptsTypeOK'
    BY <1>0, <1>p, <2>1, <2>2, <2>3, <2>4, <2>5, <2>6 DEF InterruptsTypeOK
  <2>8. Misplaced' = Misplaced /\ at' = "return" /\ resumed' = Frame
    BY <1>m, <2>1 DEF InterruptsIInv
  <2> QED BY <2>2, <2>7, <2>8 DEF InterruptsIInv
<1>7. CASE Iret
  <2>1. /\ at = "return" /\ resumed' = SubSeq(stack \o Below, 1, 3) /\ eax' \in EaxHigh
        /\ stack' = SubSeq(stack, 4, Len(stack)) /\ at' = IF resumed' = Frame THEN "code" ELSE "lost"
        /\ UNCHANGED <<pvars, base, line, vector, arg, pending, inservice, served>>
    BY <1>7, Zenon DEF Iret
  <2>2. /\ Frame \in Seq(Words) /\ Below \in Seq(Words) /\ Len(Frame) = 3
        /\ Torn \in Seq(Words) /\ Len(Torn) = 2
    BY <1>0, FrameWords, OneWordLess
  <2>3. /\ stack' = <<>>
        /\ resumed' = Frame <=> ~Misplaced
    <3>1. CASE ~Misplaced
      <4>1. stack = Frame
        BY <2>1, <3>1 DEF InterruptsIInv
      <4>2. SubSeq(Frame \o Below, 1, 3) = Frame
        BY <2>2, PushPop, Zenon
      <4>3. SubSeq(Frame, 4, 3) = <<>>
        OBVIOUS
      <4> QED BY <2>1, <2>2, <3>1, <4>1, <4>2, <4>3, Zenon
    <3>2. CASE Misplaced
      <4>1. stack = Torn
        BY <2>1, <3>2 DEF InterruptsIInv
      <4>2. SubSeq(Torn, 4, 2) = <<>>
        OBVIOUS
      <4>3. (Torn \o Below)[1] = "cs" /\ Len(Torn \o Below) = 5 /\ Torn \o Below \in Seq(Words)
        BY DEF Torn, Below, Words
      <4>4. SubSeq(Torn \o Below, 1, 3)[1] = "cs"
        BY <4>3
      <4>5. Frame[1] = "eip" /\ "eip" # "cs"
        BY DEF Frame
      <4> QED BY <2>1, <2>2, <3>2, <4>1, <4>2, <4>4, <4>5, Zenon
    <3> QED BY <3>1, <3>2
  <2>4. Len(stack') <= 5
    BY <2>3
  <2>5. InterruptsTypeOK'
    BY <1>0, <1>p, <2>1, <2>4 DEF InterruptsTypeOK
  <2>6. Misplaced => vector \in {8, 14}
    BY <2>1 DEF InterruptsIInv
  <2> QED BY <1>m, <2>1, <2>3, <2>5, <2>6 DEF InterruptsIInv
<1>8. ASSUME NEW ms \in Millis, BeginWait(ms) PROVE InterruptsIInv'
  <2>1. PitTypeOK'
    BY <1>0, <1>8 DEF BeginWait, pit_wait_ms, PitTypeOK
  <2> QED BY <1>8, <1>i, <2>1 DEF BeginWait
<1>9. CASE GoOn
  <2>1. PitTypeOK'
    <3>1. /\ UNCHANGED <<ticks, start, millis, elapsed>> /\ loop' \in {"out", "hlt", "halted"}
          /\ late' = late \/ late' = 0
      BY <1>9, Zenon DEF GoOn, LoopStep, WaitReturns, WaitGoesOn, Halt
    <3> QED BY <1>0, <3>1 DEF PitTypeOK
  <2> QED BY <1>9, <1>i, <2>1 DEF GoOn
<1>10. CASE UNCHANGED allvars
  BY <1>10, <1>i, <1>p DEF allvars
<1> QED BY <1>1, <1>2, <1>3, <1>4, <1>5, <1>6, <1>7, <1>8, <1>9, <1>10
        DEF InterruptsNext, Handle

\* The stack never grows beyond the words of one interrupt, and every number
\* of the CPU, the PIC and the timer stays in its range.
THEOREM InterruptsTypesHold == InterruptsSpec => []InterruptsTypeOK
<1>1. InterruptsIInv => InterruptsTypeOK
  BY DEF InterruptsIInv
<1>2. InterruptsIInv /\ [InterruptsNext]_allvars => InterruptsIInv'
  BY InterruptsNextIInv
<1> QED BY <1>1, <1>2, InterruptsInitIInv, PTL DEF InterruptsSpec

\* Whatever the CPU and the stub pushed has been popped when iret runs, for
\* every exception and both IRQs, wherever the PIC places their vectors,
\* with or without a gate; only on a vector whose stub counts on an error
\* code is the interrupted code lost.
THEOREM InterruptedCodeResumes == InterruptsSpec => []ExecutionResumes
<1>1. InterruptsIInv => ExecutionResumes
  BY DEF InterruptsIInv, ExecutionResumes, Misplaced
<1>2. InterruptsIInv /\ [InterruptsNext]_allvars => InterruptsIInv'
  BY InterruptsNextIInv
<1> QED BY <1>1, <1>2, InterruptsInitIInv, PTL DEF InterruptsSpec

\* The tick counter never moves: the handler's argument is the saved eax,
\* whose lower half is a segment selector, so irq_handler never finds 0 in
\* it and never calls pit_irq0_handler.
THEOREM TicksStandStill == InterruptsSpec => [][UNCHANGED ticks]_allvars
<1>1. InterruptsIInv /\ [InterruptsNext]_allvars => InterruptsIInv'
  BY InterruptsNextIInv
<1>2. ASSUME InterruptsIInv, InterruptsNext PROVE UNCHANGED ticks
  <2>1. CASE IrqCommon
    <3>1. Head(Saved) # 0
      BY <1>2, <2>1, CommonStub DEF IrqCommon, InterruptsIInv
    <3> QED BY <2>1, <3>1 DEF IrqCommon, irq_handler, pvars
  <2>2. CASE Stub \/ IsrCommon \/ Iret
    BY <2>2 DEF Stub, IsrCommon, Iret, isr_handler, pvars
  <2>3. CASE \E irq \in Irqs : Raise(irq) \/ AcceptIrq(irq)
    BY <2>3, Zenon DEF Raise, AcceptIrq, pvars
  <2>4. CASE \E v \in Exceptions : Exception(v)
    BY <2>4 DEF Exception, pvars
  <2>5. CASE (\E ms \in Millis : BeginWait(ms)) \/ GoOn
    BY <2>5 DEF BeginWait, GoOn, LoopStep, pit_wait_ms, WaitReturns, WaitGoesOn, Halt
  <2> QED BY <1>2, <2>1, <2>2, <2>3, <2>4, <2>5 DEF InterruptsNext, Handle
<1>3. InterruptsIInv /\ [InterruptsNext]_allvars => [UNCHANGED ticks]_allvars
  BY <1>2
<1> QED BY <1>1, <1>3, InterruptsInitIInv, PTL DEF InterruptsSpec

-----------------------------------------------------------------------------
(* Both ways.                                                              *)

\* Each way into the kernel leaves the state of the other one alone, so that
\* open files, calls in progress and stacks keep their types under both.
THEOREM KernelTypesHold ==
  ASSUME Aligned
  PROVE  KernelSpec => []KernelTypeOK
<1>1. KernelInit => SyscallIInv /\ InterruptsIInv
  BY SyscallInitIInv, InterruptsInitIInv DEF KernelInit
<1>2. ASSUME SyscallIInv, InterruptsIInv, [Calls(SyscallNext) \/ Gate(InterruptsNext)]_evars
      PROVE  SyscallIInv' /\ InterruptsIInv'
  <2>1. [SyscallNext]_svars /\ [InterruptsNext]_allvars
    BY <1>2, Zenon DEF Calls, Gate, evars
  <2>2. SyscallIInv'
    BY <1>2, <2>1, SyscallNextIInv
  <2>3. InterruptsIInv'
    BY <1>2, <2>1, InterruptsNextIInv
  <2> QED BY <2>2, <2>3
<1>3. SyscallIInv /\ InterruptsIInv => KernelTypeOK
  BY FsIInvType DEF SyscallIInv, DescriptorsIInv, SyscallTypeOK, InterruptsIInv, KernelTypeOK
<1>4. SyscallIInv /\ InterruptsIInv /\ [Calls(SyscallNext) \/ Gate(InterruptsNext)]_evars
      => SyscallIInv' /\ InterruptsIInv'
  BY <1>2
<1> QED BY <1>1, <1>3, <1>4, PTL DEF KernelSpec

=============================================================================
