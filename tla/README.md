# Formal models of VlsOs

VlsOs is a small 32-bit x86 kernel in C with some assembly. These modules model
its parts in TLA+. TLC checks them on small instances, and TLAPS proves the safety
properties of all parts for all values of their constants. `PROJECT.json` links every definition to the lines it translates and
lists the runs, the hazards and the theorems.

## The system's parts

| Part | Source | Interacts with | Modules |
|---|---|---|---|
| process manager | kernel/process.c | ticked by the timer, called by shell and system calls | Process, ScheduleRace |
| timer | kernel/pit.c | IRQ 0 counts ticks and calls process_tick | Pit |
| interrupt dispatch | kernel/interrupts.asm, kernel/idt.c | CPU and PIC, C handlers, timer | Interrupts (extends Pit) |
| heap | kernel/memory.c | every buffer of queues, file system, network | Heap |
| pipes | kernel/ipc.c | none | Pipes, Channels |
| message queues | kernel/ipc.c | heap, memcpy | Queues (extends Heap), Channels |
| file system | kernel/filesystem.c | disk | FileSystem |
| system calls, `cat` | utils/syscall.c, net/netcmd.c | file system | Syscall (extends FileSystem) |
| keyboard, shell, screen | kernel/keyboard.c, shell/shell.c, kernel/vga.c | each other, kmain | Terminal |
| boot | boot/multiboot.asm, kernel/main.c | starts all of the above in order | Boot in Syscall, TerminalInit in Terminal |
| disk | kernel/disk.c | ATA ports, file system | Disk |
| UI | ui/ui.c | screen, drawn by the command `ui` | Terminal |
| Ethernet core, driver, ARP, IP, ICMP, UDP, TCP | net/net.c, netdrv.c, arp.c, ip.c, icmp.c, udp.c, tcp.c | heap, each other | Network |
| sockets | net/socket.c | heap, UDP | Sockets (extends Network) |
| DHCP, DNS and HTTP servers, HTTP client, their commands | net/dhcp.c, dns.c, http.c, http_client.c, netcmd.c | sockets, shell | Services (extends Sockets) |
| numbers, addresses, URLs, checksum, names, responses, search | libc/string.c, net/*.c, kernel/filesystem.c, utils/search.c | pure functions | Formats |

Paths in the table are relative to `src/src`. Three facts shape the models:

- No code switches stacks. A "context switch" is a change of the process table,
  and after a timer interrupt the interrupted code goes on.
- Gates are interrupt gates, so a handler is not interrupted; everything else is,
  from the `sti` of kmain on.
- The build uses no optimisation, so `ticks` is read from memory in every
  iteration of pit_wait_ms although it is not volatile.

## The modules

Each MC module gives constants to a specification for TLC. Where it puts two
specifications that share no state into one run, a variable `part` says which of them
a behaviour exercises, so that their states add up and do not multiply.

Variables and actions
carry the names of the code's variables and functions. A call that returns an
error at once changes nothing and is a stuttering step. A definition commented
`Fault:` is not part of any specification: it is a plausible slip in the
definition that follows it, and putting it there makes TLC report the property it
is meant for. It shows that the property depends on that code.

**Process.** The table (`state`, `priority`, `ticks`), `current`, `count`,
`next_pid`; the actions process_spawn, process_exit, process_kill, process_tick,
each with the process_schedule it ends in. process_find_next breaks at the first
READY entry, as every uint8_t priority is below its initial 256.

**ScheduleRace** extends Process. process_spawn, process_exit and process_kill are cut
at each access to state that a tick writes, and a whole process_tick may come in
between: a tick can switch to an entry that process_spawn has marked READY and not yet
filled, or switch away from the one whose state process_schedule has just read. `seen`
is the entry that a read of g_current_pid has given the call.

**Pit.** The tick counter, modulo a parameter, and pit_wait_ms as its test and its hlt,
with interrupts before, between and after them: one that comes after the test does not
end the hlt that follows. **Interrupts** puts it behind the hardware: the PIC (pending
and in-service lines), the CPU's frame, the words each stub pushes, what the C handler
finds as its argument, EOI, and iret. The PIC and the CPU are external. As no code
programs the PIC, the vector of the timer is a choice; a vector without a gate is a
double fault.

**Channels** is the abstract specification of pipes and queues: independent bounded
FIFO channels. **Pipes** is the ring of words, **Queues** the ring of bytes in a
block of **Heap**, with the two-part copies at the end of the buffer. Both
instantiate Channels with the contents of their rings as refinement mapping.

**FileSystem.** The constant volume (the bytes of the FAT, directory, sizes), the
open files, and the call in progress, whose loop iterations are steps at each of
which the disk may fail. A byte is known by where it was read from. **Syscall** adds the
descriptor table, with its initial value as C defines it, and the shell's `cat`.
Programs may pass any descriptor: a slot that was never handed out holds 0, and the calls
act on real descriptor 0 through it.

**Terminal.** The screen cells and cursor, the line buffer, the argument splitter,
the dispatch, and the halt after `exit`. Commands other than echo, clear and exit
write some text. A line that fills the buffer has no final zero, so the bytes that
follow it are arbitrary; where strcpy then writes is outside the model. The command
`ui` draws the frame of ui.c, with the row and column of vga_set_position as the
code passes them.

**Disk.** The registers and state of each drive (external), and the driver's call in
progress as steps: wait until ready, select, write the registers, command, wait for
data, move a sector. Every wait can end by its time-out. disk_init's probing is part
of the model, as it leaves the slave selected.

**Network.** The interface, the ARP cache and the bytes the heap has left. A call chain
(udp_send_packet, ip_send_packet, arp_lookup, net_send_packet, the driver) is a chain
of operators on the record of `left` and `out`; each takes its buffer and may fail, as
in the code. `out` holds the frames of the last step and `owner` what each address
announced last; both exist for the properties. The actions are a packet that arrives,
a ping, a TCP segment and the registration of eth0, which leaves the driver without its
interface when it is done again.

**Sockets.** The table, `next_fd`, and the calls as operators on it. **Services** adds
its users: three servers that start and stop, the whole of a download, and an
application (external) that opens one socket at a time, binds, connects, sends and
closes, and goes on using its descriptor after that. Its specification `Spec`
interleaves packets, application and commands.

**Formats.** One operator per pure function, and a step that calls one on one input. A
loop of the code is `Runs(step, a, n)`: n turns from a, where step[k] is what the k-th
turn makes of the values before it; a while loop gets as many turns as it can need, and
the ones after its end change nothing.
Each is checked against what defines its result: the number that digits denote, the
four fields of an address, the parts a URL was put together from, a checksum that
verifies, a question repeated in the answer up to a zero byte in it, names that the lookup finds again, a
ranking in descending order.

## The runs

| Run | Configuration | States | Shows |
|---|---|---|---|
| process | 4 entries, slice 2 | 159,716 | one user process runs, PIDs are not reused, the scan overtakes nobody, no READY process starves |
| race_safety_liveness | 4 entries, slice 2 | 907,296 | whatever ticks interrupt a call, afterwards the current process runs with time left, none is revived, none starves |
| race_lost_process | the same | violation | a process can be left RUNNING without being current |
| drivers | counter modulo 16, waits of 0, 1, 2, 4 ticks, 2 late ticks a turn; three sets of drives of 6 sectors | 348,072 | a wait takes the ticks it computed, and more only by those slept over, and ends; no command reaches a busy drive, a call moves the sectors its registers name and returns |
| disk_address | the same | violation | the sector read is not the one asked for |
| kernel_entry | all gates, PIC bases 8 and 32; 3 files, 2-byte sectors, seeks to sector borders | 349,654 | execution resumes where it was interrupted, or an IRQ came by the vector of an error code; the timer line is served again and again; reads return the file's bytes, completely, descriptors are valid until a file is closed through a slot nobody holds, nothing leaks, calls return |
| interrupt_ticks | all gates, PIC bases 8 and 32 | violation | ticks does not count timer interrupts |
| files_seek | the files of kernel_entry, all offsets | violation | after a seek into a sector a read returns other bytes |
| files_too_many | the files of kernel_entry | violation | sys_open refuses a second file |
| ipc | 2 pipes of 3 cells; 2 queues in a heap of 6 bytes | 716,175 | heap blocks are disjoint; pipes and queues implement Channels |
| terminal | 3 x 3 screen, lines of 6 characters, 2 arguments | 430,608 | the cursor stays on the screen, which shows the line edited, also after the UI is drawn; arguments are the words |
| network | 3 hosts, 2 cards, cache of 2; 2 sockets, 3 servers, heap of 270 bytes; inputs of up to 8 characters | 1,030,446 | the cache is current, packets find their owner, descriptors and ports stay with their holder, success is reported wrongly only in the cases named; the pure functions agree with their definitions |

The theorems TypeCorrect, DeadStaysDeadAlways and KernelIsLastResortAlways establish
for every size of the table what the process run leaves out. Some
properties of a run are conjunctions of the ones the modules define: the type
invariants and the liveness of the parts of `drivers`, `kernel_entry` and `ipc`, and
the nine properties of Formats, as TextsAndSums, RepliesAgree and LookupsAgree.

### Bounds

- Process: with three user entries one can be switched from, one to, and one wait;
  the table fills and g_next_pid wraps. A slice of 2 has a tick that switches and one
  that does not. One priority is enough, as the code does not tell them apart.
- Disk: a register has 4 values, a track 3 sectors and a drive 6, so an address needs
  two registers and does not divide evenly into tracks. The machines have a lone master,
  a slave and a master on different channels, and two drives beside a CD-ROM. Requests
  are for one sector, where the two ways to address agree or not, and for two.
- Pit: a modulus of 16 lets waits start at every value, hence wrap at every point.
  `elapsed` is bounded by the modulus, which no wait reaches. `LateTicks` bounds the ticks
  that find the loop awake between two tests: 2, so that one can come before hlt and
  another before the next test (1 behind the interrupt stubs).
- Interrupts: all six gates of idt_init; two values for the upper half of eax; the
  firmware's PIC base, at which the timer enters isr8, and the documented one.
- Pipes, queues: the rings fill, wrap, and are closed and reused while not empty;
  copies are whole and split; the heap is exhausted. Deadlock is not checked: with the
  heap used up and all queues destroyed nothing is left to do, as free gives nothing
  back.
- Files: a chain of three clusters out of order with odd and even FAT entries, a
  file that fills its sector, an empty one. Counts include one that the cut
  to 16 bits (here modulo 8) makes 0. Two real descriptors and three slots, so either
  can run out first. Only slot 0 starts free, so a program gets a second descriptor
  only after one has closed a slot that it did not open; the other holder of
  DescriptorsValid is the shell.
- Terminal: lines wrap twice and scroll, and hold three words where two fit. The
  count of scrolled rows stops at `RowsBound`, which a line reaches only after a
  backspace at the left edge, when EchoIsTheLine no longer uses it. Deadlock is not
  checked: after `exit` the processor is halted.
- Network: three addresses for a cache of two, so one is learnt too late; two cards, so
  an address can move and two can share one. The lengths are on both sides of the MTU of
  90 with and without the Ethernet header. The heap of 270 bytes pays for a few packets
  and is used up between any two layers. Two slots for up to five users, so that
  servers, downloads and the application take over each other's; `MaxFd` ends the
  behaviours, as next_fd only counts up. Packets on the one hand and sockets on the
  other are separate parts of the run; the theorems of NetworkProofs
  are about `Spec`, which interleaves them. Hosts and cards are symmetric: the code
  compares them for equality only, and the run checks no liveness. Deadlock is not
  checked, for the heap and the descriptors are used up.
- Formats: all texts of up to 6 or 8 characters over an alphabet with one character for
  every case the code distinguishes, bytes modulo 3 for the checksum, ints of 20 bits
  around 0 and both ends, and an options area of 64 bytes, which has room for every
  option that dhcp_fill_offer writes.

### Fairness

The timer repeats by itself once programmed (weak fairness of process_tick, Tick,
TimerInterrupt, Raise(0)). The processor goes on with what it executes (CallStep,
Handle, LoopStep, GoOn, Advance, DriverStep), unless it is halted. Nothing is assumed of a drive: it
may stay busy for ever, and a wait for it ends by its time-out, which is a step of the
driver. Exceptions may come again and again between
two moments at which the CPU accepts the timer line, but it accepts a pending line
when it can again and again (strong fairness of AcceptIrq(0)). Callers owe nothing:
no fairness on spawn, kill, open, read or keys. The disk never has to fail. The network
has no liveness properties: nothing is retried, and no code waits for an answer.

## Where the code and its documents differ

Runs show five:

- `process.c:229` "Switch state: current -> READY, next -> RUNNING". A tick after the
  store of g_current_pid can switch away from the new process; the resumed call then
  marks it RUNNING, and no scan finds it READY again (race_lost_process).
- `KERNEL_API.md:140` "Updates every timer interrupt". The common stubs push the word
  with ds last, so that irq_handler takes it for the IRQ number, and
  pit_irq0_handler is never called (interrupt_ticks). **Process, ScheduleRace and Pit describe
  what holds once the handler is reached.**
- `filesystem.c:275` "navigate to offset". The walk goes one cluster too far for an
  offset inside a sector (files_seek).
- `syscall.c:155` "Too many open files". Only the first slot is initialised to -1
  (files_too_many).

- `disk.c:165` "Drive/head select with LBA bit (0xE0 bit 6 = LBA mode)". The byte
  written has bit 6 clear, so the drive takes the address for cylinder, head and sector
  (disk_address). **MovesItsSectors says which sectors a call does move.**

Others met while modelling, without a run of their own:

- Scheduling ignores priorities (process.c:204), although the comment asks for the highest.
- g_process_count drifts when a terminated process is killed again (process.c:174).
- pit_wait_ms divides by the chip's base frequency: 500 ms at 1000 Hz are 0 ticks (pit.c:62).
- No code programs the PIC, and with the firmware's base of 8 the timer enters isr8, which
  takes the saved eip for an error code: the interrupted code is lost. ExecutionResumes
  names this case.
- pit_wait_ms sleeps over a tick that comes between its test and hlt (pit.c:65).
- sys_close of a slot that was never opened closes real descriptor 0, whoever has it
  open, and makes the slot free (syscall.c:166).
- A second rtl8139_init takes eth0 from the driver, as net_register_interface returns
  NULL for all interfaces but the first, and every frame is dropped from then on (netdrv.c:24).
- A zero byte in a label of a DNS question ends the name that dns_poll repeats (dns.c:35).
- malloc's test wraps for sizes near 2^32 (memory.c:20).
- A backspace at the left edge of a wrapped line parts screen and buffer (vga.c:79).
- disk_init leaves the slave of a channel selected and a call waits for the selected
  drive first, so that a master without a slave is found and never read (disk.c:153).
- Nothing calls net_init, net_driver_init, net_receive_frame, or the init and poll
  functions of the services; Network has them called from outside.
- The driver compares the frame, its header included, with the MTU (netdrv.c:62), and
  sendto reports success for what it drops; SuccessMeansSent names the cases.
- Callers store the result of net_checksum without htons (ip.c:95); flags and counts of
  a DNS header are read in host order.
- dhcp_poll scans the options from the magic cookie on and takes it for an option
  (dhcp.c:102). Lines ended by CR LF have no empty line for http_client.c:33. An address
  "1.2.3." is taken for 1.2.3.0, and itoa writes INT_MIN as "-".
- The UI gives vga_set_position column before row (ui.c:51). content_lines stays below
  UI_CONTENT_ROWS, so the content never scrolls.

## What is proved

All proofs are checked by TLAPS. They rest on the named assumptions on constants in
the modules and, where a theorem says so, on one of three hypotheses. Each marks the
border beyond which the code does not have the property:

| Hypothesis | Says | Without it |
|---|---|---|
| NoWrap | no size, added to an address of the heap, wraps | malloc's test passes and heap_ptr goes back (memory.c:20) |
| Aligned | seeks are to borders of sectors | a read returns other bytes (run files_seek) |
| ShortAddresses | an address fits the three address registers | its upper bits become the number of a head, as bit 6 of the select byte is clear (disk.c:165) |

- **ProcessProofs**, for every table size of at least 2, slice and priorities: TypeOK,
  OnlyCurrentRuns, SlotsFillUpwards, and the action properties NoOvertaking,
  KernelIsLastResort, DeadStaysDead. The inductive invariant IInv joins the first three
  with what the scan relies on, and is needed because the fallback of
  process_find_next is safe only if the kernel's entry is never READY. The lemmas
  ScheduleFair and NextFair derive from it one step relation, FairStep, that implies
  the three action properties. For ScheduleRace, with a tick between any two accesses
  of a call: CurrentRunsAfterCall and RaceDeadStaysDead. RaceIInv says for every place
  of the call what it may rely on whatever ticks came before: the entry that
  process_find_next returned is READY or RUNNING, or the kernel's, and where the current
  process may not go on, the rest of the call sees to it.
  In the same module, what processes share. The heap (NoWrap): BlocksInHeap and
  BlocksDisjoint; the inductive invariant adds that every block ends at or below
  heap_ptr. The pipes, for every number and size:
  PipesTypeOK, RingConsistent and the refinement PipesSpec => Channels. The two
  invariants together are inductive: the write position is the read position plus the
  count, modulo the size. WindowWrite and WindowRead say what a write or read does to the
  sequence that the ring holds, from which each action maps to an action of Channels and
  leaves the other pipes alone. The queues (NoWrap), for every number, capacity and
  message: the same for a ring of bytes in memory, whose copies are in one part or two.
  QueuesIInv adds to the heap's invariant that the blocks of two queues in use are apart,
  so that a send changes the bytes of no other queue. IpcTypeOK and RingsConsistent
  follow for both.
- **DriverProofs.** The timer, for every width of the counter and number of late ticks:
  WaitTakesItsTicks. PitIInv says that the interrupts since the wait began are the distance
  from start to ticks along the circle, and that beyond the late ones and the one that ends
  a hlt they are fewer than the wait asks for. The disk, for every set of drives, geometry, count and address:
  DriversTypeOK, NoCommandWhileBusy and MovesItsSectors (ShortAddresses). NoCommandWhileBusy
  is about one drive and the driver polls another, the one selected; DiskIInv makes it
  inductive by BusySelected, a drive that is busy is the one its channel has selected, and
  Probing, disk_init leaves no drive it has found with a command. MovesIInv adds that
  the drive stands at the sector that follows the ones moved.
- **KernelProofs.** The files, for every well-formed volume (FileSystemAssumption: chains
  as long as the sizes ask for, through the bytes of the FAT), every number of
  descriptors and slots, and every failure of the disk: DescriptorsValid and NoFileLeaks,
  and with Aligned ReadReturnsFileBytes and ReadIsComplete. FsIInv ties
  current_cluster to the position: it is the cluster in the chain for that position,
  while a call is on its way too; ReadOK says that the bytes copied so far are those
  from the start of the read to the position. The lemmas on fat12_get_next and on the
  places in a chain carry it from one sector to the next. DescriptorsValid is about calls
  with any descriptor, until one closes a file through a slot no program holds. The
  interrupts, for every base of the PIC and every eax: ExecutionResumes, from an invariant
  that gives the words on the stack at each place of the stubs, with and without the error
  code a stub counts on; and TicksStandStill, which says that no
  step changes ticks: what interrupt_ticks shows on an instance holds in general. Both
  together give KernelTypeOK.
- **SocketsProofs, NetworkProofs**, for every size of the table, the cache, the heap and the MTU, and
  every set of hosts, cards, ports and lengths that NetworkAssumption and
  SocketsAssumption allow (sums of lengths within 16 bits, an ARP frame within the MTU,
  the broadcast address no card's): DescriptorNamesOneSocket, BufferUnlessHeapFull,
  ArpCacheCurrent, PacketsFindTheirOwner and NetTypeOK. The inductive invariant has two
  halves. TableOK adds that every number in the table is below next_fd, without which a
  new number could be an old one. NetOK types the cache and the frames of the step;
  ArpCacheCurrent is inductive given that. SocketsProofs has
  one lemma per call on the table (what it keeps, then what it leaves in each slot) and
  one per layer, from the driver up to sendto; NetworkProofs has one per kind of step and
  the theorems. On top of these: DatagramsFromBoundPort,
  SuccessMeansSent and ServersHoldTheirSockets, under every interleaving of packets,
  application and commands. UsersOK joins them with what makes them inductive: every
  slot with the application's number carries the port it bound last (AppOK), also once
  closed, which is why a sendto through a closed descriptor is harmless; a running server
  has a number of its own that is neither 0 nor the application's (ServersOK), so that
  close finds one slot and no other user's.
- **TerminalProofs**, for every size of the screen, the line buffer and argv, every set of
  characters and all texts: TerminalTypeOK, EchoIsTheLine, PromptIntact and
  ArgsAreTheWords. A character shown at the cursor leaves the text before it, which may
  move up a row; the lemmas carry this through vga_write_char, wrap, scroll and the loop
  of vga_write_string. ParseWords says that parse_command returns the first words of
  every line, as many as argv holds; the invariant of its loop is that the words found
  and the one begun are those of the characters read. TerminalIInv adds to the four that
  the cursor is never before the end of the line (CursorBehind): without it a backspace
  could reach the prompt.
- **FormatsProofs, TextsProofs**: the nine properties of Formats, as the
  theorems FormatsTexts, FormatsReplies and FormatsLookups, for all inputs that
  TextsAssumption, PacketsAssumption and LookupsAssumption allow. These ask for ints of
  more than five digits, so that a port is read without overflow; for data of fewer bytes
  than a word has values, so that the sum of net_checksum does not wrap; and that no byte of
  a DNS name is a dot, which dns_encode_qname could not tell from the border of two
  labels. The invariant, Returned, says that job holds what the function called makes of
  its inputs; the work is in the lemmas about the functions:
  - TextsProofs: atoi undoes itoa (AtoiItoa), from the invariant that the digits written
    so far and the value left make up the number; a URL's parts are found again
    (TakenApartIs); the address loop has read as many numbers as there are dots that end
    one (Counted), and reads every quad of octets as it is written (QuadRead, where TLC
    tries three values of an octet); the words of data sum, modulo all ones, to the word
    that net_checksum complements, and exchanging the bytes of every word multiplies the sum
    by the values of a byte (ExchangeSums), so that a checksum verifies in either order.
  - FormatsProofs: after i passes of the bubble sort the i last results are in order
    and no better than the others, and equal ones keep their order (SearchSorts); ls and
    dir_find_entry agree (ListsAgree); the header loop ends at the first empty line
    (HeadersEnd); the option loop at the message type; the name decoded is the labels
    read with dots between them (Aligned), from which dns_encode_qname writes the same
    bytes, or fewer when one of them is zero (Encoded, EncodedLen, RepeatedIs).

The proofs about loops need induction, and the theorems of the library that take an
operator for the induction hypothesis cannot be used. LoopInduction is induction over a
set of turns instead: a set that has 0 and with k - 1 also k has all turns up to n, as
WFMin gives the first turn outside it. From this LoopRuns shows that the function
a loop is defined by exists, and RunsIn that an invariant that every turn keeps
holds at the end.

The inductive invariants were checked by TLC on the instances of the runs before they
were proved.

Only model-checked is all liveness: ReadyEventuallyRuns, RaceReadyEventuallyRuns,
DriverCallsReturn, TimerLineServed, CallReturns. Fairness and ENABLED are out of the
prover's reach.

## Not modelled

- Port I/O that only programs a chip (PIT, VGA cursor, IDENTIFY's geometry and model
  name): no state of the kernel depends on it.
- Paging and the stubs of the file system (write, create, delete): empty functions. The
  cluster allocator has no caller.
- The dispatcher of system calls: a switch that no gate reaches. The console paths of
  sys_read and sys_write.
- What lies behind accept and recvfrom in the servers' polls: accept always fails and
  recvfrom returns a length that no code sets, so the code is never reached. The parts
  of it that are functions (names, options) are in Formats.
- The receivers of UDP and TCP beyond their headers: they change nothing.
- The shell's commands that print what other parts report, colours, and ui_clear_content
  and ui_draw_content, which have no caller.
- The loops of the string library (strlen, memcpy, strcmp and the like): TLA+ has them as
  operators.
