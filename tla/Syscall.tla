------------------------------ MODULE Syscall -------------------------------
(***************************************************************************)
(* The file calls of utils/syscall.c on top of the file system: user       *)
(* descriptors are slots of g_kernel_fds that hold real descriptors.       *)
(* A program may pass any descriptor, also one that sys_open has not       *)
(* returned: the calls look only at what its slot holds.  A call that      *)
(* returns -1 at once is a stuttering step, except the refusal of sys_open *)
(* for want of a slot.                                                     *)
(***************************************************************************)
EXTENDS FileSystem

CONSTANTS
  KERNEL_MAX_FILES,
  CatBuffer,         \* the size of the buffer of cat, 256
  CountModulus       \* sys_read passes its count on as a uint16_t: 2^16

None == "none"  \* no name

ASSUME SyscallAssumption ==
  /\ KERNEL_MAX_FILES \in Nat \ {0} /\ CatBuffer \in Nat \ {0} /\ CountModulus \in Nat \ {0}
  /\ None \notin Names

VARIABLES
  g_kernel_fds,
  opened,   \* history: the name a program opened in each slot, or none
  shell,    \* the descriptor the shell's cat holds, if it runs
  strayed,  \* history: a call closed a file through a slot no program holds
  refused   \* whether the last call was a sys_open refused for want of a slot

svars == <<fvars, g_kernel_fds, opened, shell, strayed, refused>>

Slots == 0 .. KERNEL_MAX_FILES - 1
Held == {i \in Slots : opened[i] # None}

\* The initialiser { -1 } sets the first slot; the others are 0.
InitialSlots == [i \in Slots |-> IF i = 0 THEN -1 ELSE 0]

SyscallTypeOK ==
  /\ FsTypeOK
  /\ g_kernel_fds \in [Slots -> Fds \cup {-1}]
  /\ opened \in [Slots -> Names \cup {None}]
  /\ shell \subseteq Fds
  /\ strayed \in BOOLEAN /\ refused \in BOOLEAN

SyscallInit ==
  /\ FsInit
  /\ g_kernel_fds = InitialSlots
  /\ opened = [i \in Slots |-> None]
  /\ shell = {}
  /\ strayed = FALSE /\ refused = FALSE

Boot == fs_init /\ UNCHANGED <<g_kernel_fds, opened, shell, strayed, refused>>

FreeSlot(i) == g_kernel_fds[i] = -1 /\ \A j \in Slots : j < i => g_kernel_fds[j] # -1

sys_open(name) ==
  \E fd \in Fds, i \in Slots :
    /\ fs_open(name, fd)
    /\ FreeSlot(i)
    /\ g_kernel_fds' = [g_kernel_fds EXCEPT ![i] = fd]
    /\ opened' = [opened EXCEPT ![i] = name]
    /\ refused' = FALSE
    /\ UNCHANGED <<shell, strayed>>

\* Fault: the file opened for a call that finds no slot stays open.
RefusedStaysOpen(name) ==
  \E fd \in Fds :
    /\ fs_open(name, fd)
    /\ \A i \in Slots : g_kernel_fds[i] # -1
    /\ refused' = TRUE
    /\ UNCHANGED <<g_kernel_fds, opened, shell, strayed>>

\* sys_open without a free slot: fs_open, then fs_close of what it opened.
SysOpenRefused(name) ==
  \E fd \in Fds :
    /\ Idle /\ g_fs_initialized /\ FreeFd(fd)
    /\ \A i \in Slots : g_kernel_fds[i] # -1
    /\ g_files' = [g_files EXCEPT ![fd] = NoFile]
    /\ refused' = TRUE
    /\ UNCHANGED <<g_fs_initialized, call, got, g_kernel_fds, opened, shell, strayed>>

\* The slot is free afterwards whether fs_close had a file to close or not.
sys_close(i) ==
  /\ g_kernel_fds[i] >= 0
  /\ fs_close(g_kernel_fds[i])
  /\ g_kernel_fds' = [g_kernel_fds EXCEPT ![i] = -1]
  /\ opened' = [opened EXCEPT ![i] = None]
  /\ strayed' = (strayed \/ (i \notin Held /\ g_files[g_kernel_fds[i]].in_use))
  /\ refused' = FALSE
  /\ UNCHANGED shell

sys_read(i, count) ==
  /\ g_kernel_fds[i] >= 0
  /\ count # 0
  /\ fs_read(g_kernel_fds[i], count % CountModulus)
  /\ refused' = FALSE
  /\ UNCHANGED <<g_kernel_fds, opened, shell, strayed>>

sys_seek(i, offset) ==
  /\ g_kernel_fds[i] >= 0
  /\ fs_seek(g_kernel_fds[i], offset)
  /\ refused' = FALSE
  /\ UNCHANGED <<g_kernel_fds, opened, shell, strayed>>

\* The shell's cat calls the file system itself: open, reads until one
\* returns nothing, which a disk failure may cause at any position, close.
CatOpen(name) ==
  \E fd \in Fds :
    /\ shell = {}
    /\ fs_open(name, fd)
    /\ shell' = shell \cup {fd}
    /\ UNCHANGED <<g_kernel_fds, opened, strayed, refused>>

CatRead(count) ==
  \E fd \in shell : fs_read(fd, count) /\ UNCHANGED <<g_kernel_fds, opened, shell, strayed, refused>>

CatClose ==
  \E fd \in shell :
    /\ fs_close(fd)
    /\ shell' = shell \ {fd}
    /\ UNCHANGED <<g_kernel_fds, opened, strayed, refused>>

\* The call in progress goes on.
Continue == CallStep /\ UNCHANGED <<g_kernel_fds, opened, shell, strayed, refused>>

SyscallNext ==
  \/ Boot
  \/ \E name \in Names : sys_open(name) \/ SysOpenRefused(name) \/ CatOpen(name)
  \/ \E i \in Slots :
       \/ sys_close(i)
       \/ \E count \in Counts : sys_read(i, count)
       \/ \E offset \in SeekOffsets : sys_seek(i, offset)
  \/ CatRead(CatBuffer) \/ CatClose
  \/ Continue

\* The processor goes on with a call; the disk need never fail.
SyscallSpec ==
  /\ SyscallInit /\ [][SyscallNext]_svars
  /\ WF_svars(Advance /\ UNCHANGED <<g_kernel_fds, opened, shell, strayed, refused>>)

-----------------------------------------------------------------------------
(* Properties.                                                             *)

\* A descriptor a program holds leads to an open file of the name it opened,
\* and no two of them, nor the shell, to the same open file, although slot
\* and real descriptor are allocated and released separately and 15 slots
\* begin as descriptor 0.  One thing breaks it: closing one of those slots
\* unopened closes file 0 of whoever has it open (syscall.c:166-170).
DescriptorsValid ==
  ~strayed =>
    \A i \in Held :
      LET fd == g_kernel_fds[i]
      IN /\ fd \in Fds /\ g_files[fd].in_use /\ g_files[fd].filename = opened[i]
         /\ fd \notin shell /\ \A j \in Held \ {i} : g_kernel_fds[j] # fd

\* No file stays open without a descriptor for it, also when sys_open opens
\* the file first and then finds no slot, or a file is closed under its
\* program.
NoFileLeaks ==
  \A fd \in Fds \ shell : g_files[fd].in_use => \E i \in Held : g_kernel_fds[i] = fd

\* "Too many open files" (syscall.c:155): sys_open refuses for want of a slot
\* only when as many files are open as there are slots.
RefusedOnlyWhenFull == refused => Held = Slots
=============================================================================
