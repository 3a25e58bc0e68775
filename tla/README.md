# FileStick in TLA+

FileStick is an Acorn Econet file server on an iCE40 FPGA: a FemtoRV RISC-V
core, Econet receiver and transmitter, timers, SPI and UART in Verilog (`rtl/`),
a small kernel in C and assembler (`system/`) that runs one user program at a
time, and the programs themselves (`init/`, `fileserver/`, `monitor/`). This
directory models the parts of it whose correctness depends on the order of
events or on limits, checks them with TLC, and proves the central ones with TLAPS.

`PROJECT.json` lists the components, the TLC runs, the source lines behind every
definition, mutated definitions that show that each property can fail, the
hazards of the code and the theorems.

## 1. Inventory

| Component | State | Operations | What is hard | What makes it correct |
|---|---|---|---|---|
| Econet driver (`raw_econet.c`, `econet_rx.S`, `isr_trap.S`) | `econet_state_val` (handshake state, pending port, receive buffer start and length, transmit status, state at timeout), `econet_port_list`, per-descriptor port and destination, frame counters | `open`, `close`, `read`, `write`, ioctls; the receive and the timer interrupt | shared variables are read and written by system calls with interrupts enabled; timeouts race late answers; one buffer for all ports | `write` tells the truth about delivery and returns; nobody stays in a handshake; a read returns each byte of a frame once, from its own port |
| Econet hardware (`econet_rx*.v`, `econet_tx*.v`, `timer.v`) | latched frame registers and interrupt request; request, buffer machine and bit shifter of the transmitter; timer A | stores to registers; frames from other stations | two state machines that each believe they know whether the other is idle | a requested frame is sent, after the line became idle or at turnaround |
| SPI flash device (`spi_flashdev.c`, `spi_flash.S`) | up to four file pointers, one sector of write buffer | `open`, `read`, `write`, `lseek`, `close`, `spiflash_sync` | one buffer for all descriptors; writes across sectors; power failures during erase and program | it behaves as an array of bytes; a power failure damages one sector |
| Descriptor table (`fd.c`, `dev_open.c`) | `fdtable[16]` | allocate, open, close, dispatch | partial failure between several tables | no leaks, no entry used by two owners |
| FatFs volume and files (`ff.c`, `file.c`, `file_ops.c`) | the sectors of a FAT12 volume, one window of one sector; per file its position, sector buffer and chain | mount, open, read, write, seek, sync, close, unlink | metadata of everything pass through one window; several sector writes per call, each may fail or be the last before power fails | what was synced survives; no two files share a cluster; calls agree with plain files |
| FatFs names and directories (`ff.c`, `directory.c`) | directory tables with long names in pieces, the current directory, eight handles | create, find, list, remove, `mkdir`, `chdir`, `stat` | names of several entries over sector and cluster ends; short names that collide; scans while entries change | a directory lists what was put there; a path means one object |
| Mounting, flash disc (`mount.c`, `diskio.c`, `flashdisc.c`) | FatFs volume 0, the disc layer's own flash descriptor | `mount`, `umount`, sector reads and writes | the layer keeps a descriptor number, which can be reused; its sectors wait in the flash driver's buffer, eight to an erase block | a mounted volume has the flash, and nobody else's descriptor |
| Memory allocator (`tlsf.c`, `kmalloc.c`) | block headers and list pointers inside the pool, two levels of bitmaps | `malloc`, `memalign`, `realloc`, `free` | headers lie in memory that was or will be the users' | blocks tile the pool, lists are complete, users' bytes are theirs |
| Programs (`elfload.c`, `exit.c`, `super_shell.c`, `crash.c`, `brk.c`, `lib/sbrk.c`, `lib/malloc.c`) | who runs; image, stack, break, heap | `exec`, `exit`, `ebreak` and traps, the shell's `run`, `boot`, `ret`; `brk` | the next program is built in the memory of the one that asks for it | a program starts with its image, zeroed rest and its arguments; the heap is nobody else's |
| Console, poll (`console.c`, `fifo.v`, `fifo_uart.v`, `poll.c`, `time.c`) | hardware FIFO, mode | raw and interactive read, write, peek, `poll` | FIFO at its limit; a key against a timeout | no byte is lost; line and screen agree; poll is honest and returns |
| printk and debugging commands (`nanoprintf.h`, `printk.c`, `hexdump.c`, `super_shell.c`, `peekpoke.c`) | memory | `printk`, `peek`, `poke`, `hexdump` | combinations of widths and flags | prints what was asked |
| `init` (`main.c`, `conffile.c`, `cli.c`, `configure.c`, `icommands.c`, `xmodem_server.c`) | boot script, command line, network settings; the XMODEM receiver | start, commands, `rx` | a script that runs a program never goes on; lost, garbled and repeated bytes | settings are what was asked last; a received file is the sender's |
| File server (`fileserver/`) | one message buffer | message loop, star commands, replies | messages of different lengths in one buffer | a reply answers its request |
| Monitor (`monitor/`) | last acknowledgement and a count | frames, a key | frames arrive while others are shown | what it counts did happen |
| SD card, system call entry, boot loader, processor | not modelled: section 6 | | | |

The driver is called by the program through `fd.c`, and shares
`econet_state_val` and `econet_port_list` with the handlers; the handlers are
called by the hardware and drive the transmitter. `file.c` and `directory.c` call
FatFs, which calls `diskio.c` and `flashdisc.c`, which call `dev_open.c` and `fd.c`
again for the flash. `elfload.c` opens files through `fd.c`. The file server and the
monitor use the driver's calls.

## 2. Modules

| Module | Models | Uses |
|---|---|---|
| `EconetHw` | receiver, transmitter, timer A as seen by software | |
| `Econet` | the driver's system calls and interrupt handlers | extends `EconetHw` |
| `MCEconet` | the frames of the small instances | extends `Econet` |
| `EconetProofs` | theorems about `Econet`: handshakes and writing; reading and monitor mode | extends `Econet` |
| `Ranks` | the elements of a set of numbers in order, for `strtok`, lines and keys | |
| `OrderProofs` | lemmas about least elements and `Ranks` that the other proofs share | extends `Ranks` |
| `FlashStore` | what `/dev/spiflash` promises: bytes and file pointers | |
| `SpiFlash` | the flash driver, command by command | instantiates `FlashStore` |
| `SpiFlashProofs` | it implements `FlashStore` | extends `SpiFlash` |
| `Descriptors` | descriptors, flash slots, volume, handles, programs | |
| `DescriptorsProofs` | theorems about them | extends `Descriptors`, `OrderProofs` |
| `Tlsf` | the allocator, word by word | |
| `FatVolume` | sectors on the flash, its write buffer, the window, the FAT12, cluster chains, faults | |
| `FatFiles`, `MCFat` | files on a volume | extends `FatVolume` |
| `FatNames` | path segments, long and short names, pieces | |
| `FatDir`, `MCFatDir` | directories on a volume | extends `FatVolume`, `FatNames` |
| `Programs` | loading, arguments, break and heap | extends `Ranks` |
| `ProgramsProofs` | theorems about loading, arguments and the heap | extends `Programs`, `OrderProofs` |
| `FileServer`, `Monitor` | the two network programs | `FileServer` extends `Ranks` |
| `NetworkProofs` | a theorem about each | extends both, `OrderProofs` |
| `MCPrograms` | one behaviour exercises one of the three | extends them |
| `Printf` | nanoprintf and hexadecimal numbers | |
| `Shell` | printk and the debugging commands | extends `Printf` |
| `Console` | FIFO, console calls, poll | extends `Ranks` |
| `ConsoleProofs` | theorems about FIFO, poll and line editing | extends `Console`, `OrderProofs` |
| `MCConsole` | console, commands or printk | extends `Console`, `Shell` |
| `Xmodem` | XMODEM receiver, sender and line | |
| `InitProgram` | script, commands, network settings | extends `Ranks` |
| `InitProgramProofs` | theorems about settings, the script and XMODEM | extends `InitProgram`, `Xmodem`, `OrderProofs` |
| `MCInit` | either of the two | extends them |

`FatVolume`, `FatFiles`, `FatNames` and `FatDir` use recursive operators or `Bitwise`, so
they are for TLC only; the rest is written with recursive functions, sets and ranks. The `MC` modules that put several components into one run choose one
of them in `Init` (variable `part`); the components share no state, and the run is
the union of theirs.

### Econet and EconetHw

The state of the code is in records: `st` is `econet_state_val`, `mon` the two
frame counters, `port_list` the table of ports (0, or the listening descriptor,
with bit 7 as the ready flag), `dev` the per-descriptor tables, `rxd`, `txd` and
`timer` the devices. `call` is the system call in progress with its local
variables; `call.pc` names the next step. `hist` is history only: nothing
tests it but the properties.

*Granularity.* A system call that waits, or that loads a shared variable more
than once, is one action per load or store that a handler can come between
(`econet_write`, `WritePoll`, `WriteState`, `WriteFill`, `WriteSend`,
`WriteDone`; `econet_read`, `ReadWait`, `ReadSize`, `ReadSize2`, `ReadCopy`,
`ReadTest`, `ReadPart`, `ReadDone`). Every other call is one action. Each path
through the receive handler is one action, since interrupts do not nest. From
`WriteFill`, which begins with `DISABLE_INTERRUPTS`, to `WriteSend` no handler
runs.

*Hardware.* A frame is the fields the handler looks at: its length with FCS, the
flag byte and the port. The receiver drops "receiving" one clock before it
latches the frame (`RxEnd`, then `RxLatch` or `RxDrop`); that gap is in the
model because `econet_write` polls both. The transmitter is its two machines,
buffer side and shifter, and `txd.frame` says what the buffer would send.

*Assumptions.* `Polite = TRUE` makes the other stations wait until a frame has
been read; nothing in the driver enforces it, so only the run on reads uses it.
It also rules out a frame between the two stores of a partial read
(`raw_econet.c:156`), which are one step, `ReadPart`. Frames may begin and end at any
moment, also with interrupts disabled. `MaxMonitor` bounds the frames counted in
monitor mode.

### SpiFlash and FlashStore

`flash` is the chip, `fileptr` is `fd_list` as a function on the open descriptors,
`wb` the write buffer with `write_blk_offset` and `write_blk_end`, `call` the call
in progress. A byte is the set of its one bits, so that erasing and programming
do what the chip does. `spiflash_write` is the loop of `WriteTest`, `WriteLoad`
(or `WriteNoMemory`) and `WriteCopy`; writing the buffer back is `Erase` and one
`Program` per page, entered from four places; `call.then` says where to go on.
`PowerFail` may happen before any command, or during it, and then leaves
anything in that sector. `OnChip` and the range in `spiflash_lseek` are an
assumption about programs, that they stay on the chip: the code accepts any offset
and checks no address. A read of less than a word leaves the copy loop with the
number of words wrapped (`Overruns`); the model stops there, as the machine does.

The refinement mapping (`View`) takes the buffered sector where there is one and
the chip elsewhere: a byte changes for the users when it is copied into the
buffer, and erasing and programming are invisible.

### Descriptors

`ker` holds the kernel's tables, and what a call does to them is an operator from
tables to tables (or to the set of tables it may leave), because calls nest:
`SYS_open` of a file is `fileio_open`, which may be `mount_volume` (FatFs), which
may be `intflash_init`, which is `open_device`. `own` and `left` say which program
opened a descriptor, and are history. FatFs is represented by what its callers
rely on: functions on a path mount a registered volume first, and fail without
one. With `Careful` programs close only descriptors they opened. `elf_run` opens any name:
a console loaded as a program cannot be closed again, and the descriptor is in `lost`.

### Tlsf

Memory is a function from word addresses to words, with sizes, flags, back links and
list pointers where `tlsf.c` has them: the back link of a block is the last word of
the block before it, the list pointers are the first words of the user's data. Each
function of the code is an operator on the heap record, and a call is one action,
since the kernel is not preemptive. Users fill what they get with a value of their
own, so a store of the allocator into somebody's memory shows. The bounds keep the
second-level split (four lists a row) and a pool in which lists of two sizes exist. Sizes
wrap at `SizeMod`. A caller that got a block for more bytes than any block has (`Oversized`,
section 4) would store over its neighbours: such a state is checked, and no call
follows it.

### FatVolume, FatFiles, FatNames and FatDir

The volume is the one there is: FAT12 in 256K of flash (`flashdisc.h:6`, `README.md:125` of
the repository). A function of `ff.c` is an operator on a call record `c`: the fields of
`FATFS` with the window, the sectors on the chip and in the flash driver's buffer, the `FIL` or
`DIR` in hand, the result, the number of accesses so far and the fault planned for this call.
`Then(c, Do)` is the code's `if (res == FR_OK)`: it goes on from `c` or returns it as it is.

A FAT entry has three digits and a byte two, as in the code, with a smaller base (`Digit`), so
`get_fat` and `put_fat` share bytes between entries and go through the window twice, and
an entry can lie in two sectors. The root directory is a table of fixed size; only
subdirectories grow. `disk_write` stores into the buffer of one erase block, as
`spi_flashdev.c` does; the block goes to the chip when its end is written, another
block is needed, a sector is read, or at `CTRL_SYNC`, the last thing `sync_fs` does.

A fault hits one access or block write: an "error" fails that access, and the call goes on as
the code does; after "power" nothing more reaches the chip and the volume is mounted again. So the states
after a power failure are those every order of writes in the code can leave. "cut" is a
power failure in the middle of a block write: the sectors of that block (`cut`) are lost,
synced or not, and the behaviour ends there, with the claims about all other sectors. That is
what `SpiFlash` shows of the driver: a power failure damages at most one erase sector. A call is
one action; it is the sequence of its accesses, not its interleaving with others, that
is hard (the kernel serves one call at a time).

`FatFiles` has files in the root directory with data (`want` is what they should
hold, `saved` what has to be on the chip); `FatDir` has empty files and directories
with long names (`names` is the tree there should be). `FF_FS_LOCK` is 0, so opening a
file twice or removing an open one is left to the program, and the actions keep to that.
Characters are ASCII, for which the code page conversion is the identity.

### Programs

User memory is a function from addresses to cells; a pointer is one cell, so the layout of
the argument block is the code's with smaller numbers. `setup_stack_args` writes at the
top of the caller's memory, `elf_load_fd` clears and loads, and on failure the caller
goes on in what is left. That includes a program whose start address is 0: `elf_load_fd`
returns 0 for it, a failure to its callers, after it has cleared memory, loaded the
segments and set the break (`Fails`). `brk`, `sbrk` and the set-up of `malloc`'s pool follow the code;
`granted` is history. `Proper` describes images a linker makes (ascending segments in a
complete file); the run also loads a file cut short, one below user memory, one with
descending segments, one that leaves no room for a pool and one without a start address. `MixHeaps` lets a program use `sbrk` and `malloc` both.

### Console, Printf and Shell

The FIFO is the ring of `fifo.v` with one unused slot, and the terminal stops when `cts`
says full, with a byte on the wire and one in the UART. A read is one action per byte. A
poll is one action per descriptor and one for the test of the time, with keys and ticks
in between, over a list whose `revents` hold what the caller left in them. Bytes of `Shell` have four bits, so that a word fits TLC's integers; every
field keeps its number of digits relative to that.

### Xmodem and InitProgram

The receiver works byte by byte through the states of `xmodem_server.c`, with the code's
checksum; the sender repeats a packet when it is asked or hears nothing; the line loses and
garbles bytes in both directions, and each byte carries what it was sent as, for the
properties only. A round of the loop is two steps: what `xmodem_server_process` does, which
acknowledges a packet, and the write of that packet to the file (`WriteFile`), which a full disc refuses
and whose result nobody looks at. The receiver's clock, a 32-bit count of rounds
shifted right by two, does not wrap here: that takes 2^32 rounds. `InitProgram` models starts of `init`: a cold start runs the script, a
program that exits is followed by a warm one. A line is its leading blanks and its words.

### FileServer and Monitor

Both rest on what `Econet` promises of `read`, `ioctl` and `write`, including that an unread
frame is replaced by the next. Buffers are byte by byte in `FileServer`, because its
property is about what an earlier, longer message leaves behind. In `Monitor` a frame is
its length and addresses; `peek` returns the length of the last frame, as the driver does, and
a read takes the newest frame once for every frame that came. `acks` are the acknowledgements that
came, not those that were decoded.

## 3. Runs

All runs pass.

| Run | Bounds | Shows |
|---|---|---|
| `econet_write` | one descriptor and port; lengths 4 and 2037; scouts, acks, data, the immediate operation, at any moment | types; `HandshakeTimed`, `WriteHonest`, `TransmitOwned` |
| `econet_live` | scouts and acknowledgements, fairness | `WriteReturns`, `WaitDataEnds` |
| `econet_read` | two descriptors, two ports, reads of 4 of 6 bytes, polite stations | `ReadHonest`, `UnreadIsReady` |
| `econet_monitor` | two monitored frames, mode switched at any time, frames at any time | `MonitorReadHasFrame` |
| `spiflash` | two descriptors, two sectors of two pages, one bit per byte, words of two bytes, writes of 0, 1 and 3 bytes, reads of 1, 2 and 3, seeks | `ImplementsStore` (refinement), `CallReturns` |
| `descriptors` | seven descriptors, two flash slots, two directory handles | `TablesAgree`, `Accounted`, `OwnKept` |
| `tlsf` | 96 bytes, three allocations at a time, sizes 0, 1, 20, 34, 120, one that no block has and one that wraps, one alignment | `HeapIntact`, `HoldersSafe`, `FailsOnlyWhenFull` |
| `fat_files` | FAT12 of four clusters of two sectors with a root of two entries, erase blocks of four sectors, two files and a directory, five calls, one fault of any kind at any access or block write of a call | `DiskConsistent`, `SavedIsOnDisk`, `CallsAgree`, `ClustersAccounted` |
| `fat_dir` | FAT12 of two clusters of four entries with a root of eight, names that collide in their short forms and first pieces, five calls, a power failure or a cut block at any access or block write of the first three | `DirectoriesIntact`, `NamesSaved`, `PathsAgree`, `ScanComplete` |
| `programs` | 64 cells, six files and the flash, eleven command lines, four calls per program; four requests; seven frames | `StartsAsAsked`, `HeapOwned`, `FailedRunSpares`, `RepliesAnswer`, `CountsRepeats` |
| `console` | FIFO of four, four keys, three calls, time up to 2, old events in every list of poll; every conversion of printk with every length, flags and widths of both signs | `NothingLost`, `LineAgrees`, `PollHonest`, `PollReturns`, `PrintsRight` |
| `init` | two packets, a disc with room for one or both, two faults, three errors; a script with a program, five typed lines | `FileIsPrefix`, `ReceivedIsWritten`, `TransferEnds`, `SettingsAgree`, `ScriptRunsOnce` |

*Why the bounds are enough.* The driver keeps one handshake, one receive buffer
and one transmitter, whoever uses them; a second port and descriptor matter only
to who reads the buffer, and `econet_read` has them. A read of 4 out of 6 bytes is
a partial read followed by a whole one. Three bytes on sectors of two reach every
case of a chunk: up to the end, across it, and the rest; a second descriptor writes
below, above and inside the buffered sector. The
tables of `descriptors` are sized so that each can be full while the others are
not: two slots are taken by one program and the file system. In `tlsf` the pool can be
split, merged from both sides and full, and a request can meet a list whose blocks are
too small for it; 128 bytes are more than any block has and 1023 wraps to a small size. Writes of five bytes on sectors of two and clusters of four use the
file's buffer, go past it, and cross a cluster and an erase block; four clusters run out, and so
does the root directory. The entry of the last cluster lies in two sectors of the FAT. In
`fat_dir` a long name makes a subdirectory grow, four names fill the root, and removing one
leaves a gap that is too short for the next. A fault may hit each of
the up to 39 accesses and block writes of a call (`Runs`). The FIFO of four fills up and wraps with four keys. The
XMODEM packet number wraps in one of the initial states, and a packet takes as many
rounds as the timeout.

*Deadlock* is checked in `econet_write`, `econet_live`, `spiflash`, `descriptors` and `tlsf`.
Elsewhere a program may wait for a frame nobody sends (`econet_read`), a bound on the
behaviour ends it (`econet_monitor`, `fat_files`, `fat_dir`, `programs`), or the
terminal, the program or the sender may stop (`console`, `init`).

*Fairness.* `econet_live` assumes weak fairness of the steps of a call in
progress, of the handlers, and of the timer. The processor executes one
instruction after another and takes a pending interrupt when interrupts are
enabled; timer A counts clock cycles without condition. Nothing is assumed of the
other stations or of the program between calls. `spiflash` assumes that
a call in progress goes on; the chip completes its commands, which the driver
polls for. `console` assumes that the kernel's loops run and the millisecond counter
counts; `init` that the receiver's loop runs. Nothing is assumed of the terminal or the
sender.

## 4. Disagreements found

Statements of comments, or of what callers rely on, that TLC refuted on these modules
while they were written. No runs are kept for them.

| Statement | What happens |
|---|---|
| `raw_econet.c:243` "Set up the timeout for the scout frame" | in monitor mode any frame stops the timer and leaves the handshake (`econet_rx.S:53`): `write` spins for ever |
| `raw_econet.c:248` "Setting the end offset will trigger the transmission" | a request during the closing flag of the previous frame loses its start pulse (`econet_tx_buffered.v:120`), and the transmitter stays in `STATE_TX` |
| `raw_econet.c:222` "wait until idle: ..." | a scout served between the test and `DISABLE_INTERRUPTS` is overwritten; the transmitter's busy bit is not tested, so a reply that waits for the line is overwritten too |
| `econet_rx.S:109` "set high bit to flag is_ready" | the store at the end of a read (`raw_econet.c:161`) clears the flag of a frame that was acknowledged meanwhile, unless stations are polite |
| `raw_econet.c:208` "Validate the size" | lengths 2037 to 2040 pass and wrap round onto the scout frame |
| `raw_econet.c:215` "This is not a turnaround (reply)" | a reply before the scout is sent sets the flag again |
| `raw_econet.c:262` "got scout ack but no data ack" | a frame of the wrong length in `STATE_TXSCOUT` gives the same result with no acknowledgement |
| `raw_econet.c:182` "done with this frame, account for it" | two frames before a monitor read are read as the second one twice, so the monitor counts a repeat that did not come |
| ports and destinations belong to a descriptor | a port stays listed when its descriptor listens to another one; closing one of two listeners closes the port for both; a reopened descriptor inherits the destination |
| `spi_flash.S:110` "continue if there's stuff left to do" | sizes below four wrap to 2^32 words |
| `spi_flashdev.c:128` "FIXME: bounds check" | none of `lseek`, `read` and `write` tests an address; in `SpiFlash` programs stay on the chip (`OnChip`) |
| `intflash_write` returns the result of the write | memory that cannot be had for the flash buffer is reported as a write that was done (`flashdisc.c:109`) |
| synced data are on the chip | they are, until a write to one of the other seven sectors of their erase block is cut by a power failure; then the block is erased or partly written |
| an entry of the FAT is the old or the new value | a FAT12 entry in two sectors may be half written after a power failure (`ff.c:1259`); the mixed value is taken for no cluster of the volume only because there are fewer than 3840 of them |
| `tlsf.c:1207` "a request that cannot be satisfied will leave the original buffer untouched" | `tlsf_realloc` of `block_size_max` bytes or more trims the block to nothing and returns it as a success (`HoldersSafe` treats it as lost to its holder); sizes near 2^32 wrap in `align_up` and are satisfied with a small block |
| `elf_run` closes what it opened | `/dev/console` run as a program cannot be closed (`fd_close` is `NULL`), and the descriptor stays |
| `poll` clears `revents` | not those of a negative descriptor, which it passes over before (`poll.c:50`): the caller finds what it left there |
| `%hhd` is signed | `char` is unsigned on this machine, so it prints -1 as 255; a negative width from a star with flag `0` puts zeros behind the digits |
| `exit.c:35` "Reload init from flash" | descriptors left open use up the flash slots, and `init` cannot be loaded |
| `brk` starts above the image | it starts above the last segment read (`elfload.c:241`): over the image when segments descend |
| `sbrk` and `malloc` give out different memory | `sbrk` goes on from the break it remembers (`lib/sbrk.c:26`) although `malloc` has taken all of it |
| a failed `exec` returns to its caller | it does, with the new arguments over the top of its stack; for a program with start address 0, over memory that was cleared and loaded with it, and with its break (`elfload.c:65`, `:249`) |
| `monitor.c:33` "Press 'q' to quit" | `peek` still reports the last frame, so the loop waits in `read`, and the key is looked at after the next frame |
| the monitor shows acknowledgements | one that follows a scout from the address of the last acknowledgement is taken for a repeat, and a single repeat is never reported |
| `xmodem_server.c`: EOT ends a transfer | any byte of that value does where a packet could begin, and the sender takes the answer for the acknowledgement of one packet more; a repeated packet is not acknowledged (line 117), which costs a timeout; a packet is acknowledged (line 188) before it is written (`icommands.c:147`), also when the disc is full |
| `init` runs `boot.rc` | it stops at the first program, and skips lines with four or more blanks in front (`cli.c:96`, `sizeof` of a pointer) |
| a directory's new cluster is empty | `dir_next` links it before it is cleared (`ff.c:1776`): after a power failure between the two, old data pass for entries |

Seen while reading, and modelled as they are: `SYS_mount` of "sd" mounts the flash, since
there is one volume (`mount.c:46`); `O_CREAT` truncates (`file.c:76`); a poll with timeout 0
waits for ever; a hexdump of length 0 prints a line; star commands that end in a
carriage return are not found without an argument.

## 5. Theorems

Each theorem holds for all values of the constants that satisfy the named
assumptions of its module (`ASSUME ... Assumption`), which say what the code's
declarations do: descriptors are small numbers, sizes are positive, header fields are
unsigned, a script consists of words. TLC evaluates them in every run. Where a theorem
needs more, the table says so; section 4 has what goes wrong otherwise.

| Module | Theorem | Property | Further assumption |
|---|---|---|---|
| `EconetProofs` | `TypeCorrect` | `TypeOK` | |
| | `TransmitHasOwner` | `TransmitOwned` | |
| | `WriteIsHonest` | `WriteHonest` | |
| | `HandshakeHasTimeout` | `HandshakeTimed` | no program uses monitor mode |
| | `MonitorReadsWhatCame` | `MonitorReadHasFrame` | |
| `SpiFlashProofs` | `DriverImplementsStore` | `ImplementsStore` | |
| `DescriptorsProofs` | `SlotsAlwaysMatch` | `DescTypeOK`, `SlotsMatch` | |
| | `TablesAlwaysAgree` | `TablesAgree` | `Careful` |
| | `NoDescriptorLeaks` | `Accounted` | `Careful` |
| | `ProgramKeepsItsOwn` | `OwnKept` | `Careful` |
| `ProgramsProofs` | `HeapIsOwned` | `HeapOwned` | not `MixHeaps` |
| | `FailedRunsSpare` | `FailedRunSpares` | |
| | `ImageIsLoaded` | `ImageLoaded`, of `StartsAsAsked` | |
| | `ProgramsStartAsAsked` | `StartsAsAsked` | `LinesFit` |
| `NetworkProofs` | `RepliesAreAnswers` | `RepliesAnswer` | |
| | `RepeatsAreCounted` | `CountsRepeats` | |
| `ConsoleProofs` | `FifoLosesNothing` | `NothingLost` | |
| | `PollIsHonest` | `PollHonest` | |
| | `LineIsEdited` | `LineEdited`, of `LineAgrees` | |
| | `LineAndScreenAgree` | `LineAgrees` | `PlainKeys` |
| `InitProgramProofs` | `SettingsAlwaysAgree` | `SettingsAgree` | |
| | `ScriptRunsJustOnce` | `ScriptRunsOnce` | |
| | `TransferIsComplete` | `ReceivedIsWritten` | |

`Careful` programs close only what they opened, and without `MixHeaps` a program does not call `sbrk` and then
`malloc`. `LinesFit`: a command line is a string, and with its table of pointers it fits
between the start of user memory and `USER_SP` (`setup_stack_args` does not test it, and
counts bytes in a `uint16_t`; lines are typed ones, or made by the program that asks). `PlainKeys`: the terminal sends no line feed and no bell, whose echo leaves
the line or no mark on it. `MCPrograms` and `MCConsole` assume the two of their
instances, so the runs are instances of the theorems. `FileIsPrefix`, which says that what
passed the checksum is what was sent, is an invariant of the run `init`; for any data and any
noise it cannot hold, with a checksum of 16 bits over the data alone.
`ConsoleAssumption` has the millisecond counter not wrap (`TimeMod > MaxTime`).
The bounds on behaviours (`MaxSteps`, `MaxFrames`, ...) are constants without an upper
limit, so they do not bound what is proved.

*Writing to the network.* None of `TransmitOwned`, `WriteHonest` and `HandshakeTimed` is
inductive alone. `write` looks at
`tx_status` and `timeout_state` after its handshake, while handlers write to them,
also for handshakes of other stations. `IInv` adds: both flags are
clean from the moment `write` resets them until its own handshake is over (a
timeout of a received scout may be recorded meanwhile, but as `WAITDATA`, never
as `TXSCOUT`); the number of acknowledgements goes with the handshake state; and
in the final wait a status of `TXDONE` means two, a timeout in `TXSCOUT` none. It
is preserved by each action under `TypeOK`. For the timer, `~rxd.monitor` is the
strengthening.

*Reading.* `EconetProofs` also has `ReadHonest` and `UnreadIsReady` (`ReadIsHonest`,
`UnreadStaysReady`), for `Polite` stations only, which send nothing while an earlier frame is
unread, and without monitor mode. The network does not promise that: a frame that arrives
during a read is what can go wrong there (section 4), so these two say
what the driver keeps between such frames and no more. `RInv`: a frame on its way is alone, nobody copies and no port is ready
(`LineQuiet`); a ready port is the buffered frame's, and start and length of the buffer
span what nobody has copied, with the copied part still in front between the `memcpy` and
the update (`BufferInv`); and what the read has found out about the length stays true,
because no frame can replace the buffer meanwhile (`ReadInv`). In monitor mode reads never
get ahead of the handler's count (`mon.last <= mon.frames`).

*Flash.* `View` is the buffered sector where there is one and the chip elsewhere. That
erasing and programming are invisible needs that the buffer is a whole sector of the
chip at a sector's start (`BlockInv`); that in the middle of a write-back the pages below
`write_blk_offset` are written and the others erased (`ProgramInv`), so that dropping the
buffer after the last page changes nothing; and what each step relies on for the buffer and
the file pointer when it is reached, through a write-back too (`CallInv`). One lemma per action shows
the step or the stutter of `FlashStore`.

*Descriptors.* Calls nest, so each has a lemma about the tables it leaves (`KInv`, the
slots' agreement; `FlashOf`, the volume's; `Grown`, that a call that came half way leaves
at most its own descriptor and the disc layer's). For the properties of careful programs,
`CInv` adds that the disc layer's descriptor is no program's and none of `lost`, which are
consoles.

*Programs.* `HeapInv`: the minimum of the break is behind every segment, because the last
header of a proper image is the highest one; grants lie between the two; the library's
`memptr` is the kernel's break; and nothing is granted before the first allocation, which
may lower the break (`USER_SP - DefaultGap` can be below it). `FailedRunSpares` is about
files that are missing and headers that do not pass; a run given up for start address 0 spares
nothing (section 4). For the image, the recursion over the headers is first shown
to have a solution, and then that after `k` headers the first `k` segments are in place and
all else is as it was. For the arguments, the same for the calls of `strtok`: after `k` of
them the tokens are where the first `k` fields of the line begin, each is followed by
a terminator, and the pointer that `strtok` keeps is behind the `k`-th, or null when there is
nothing more. So the block that `setup_stack_args` leaves is `ArgsLaid`, and loading keeps
that, since it clears and loads below the stack pointer only. All of these are inductions,
written as: the least counterexample, which exists because the naturals are well-founded
(`LeastExists`), is none.

*Console.* `FifoInv` relates the history of bytes to the ring, slot by slot modulo its size,
and has one fact that is about the terminal: a byte in the register and one on the wire
never meet a full FIFO. `PollInv` says of a poll between two descriptors that what
it has marked is still there, since only the caller takes bytes. `LineEdited` defines what
is left of the keys without a stack: the characters that no later erase takes back. `LineOK`
says that the buffer is that of the keys so far, and how far each of its characters is from
being taken back: behind it there are as many more characters than erases as are left
behind it (`Depth`). So the next erase takes back the last one and no other. For the screen, everything behind the cursor is blank
(`Clean`), and the columns from where the line began are the buffer (`Shown`).

*File server.* From `read` to the end of the handler the buffer holds the request that was
read last up to the terminator that `main.c` puts behind it (`HandledInv`); what a longer
message left begins after that. Then the first word `strtok` finds in the buffer is
the first word of the request, and replies go with the requests taken, in order and
each at most once (`RepliesInv`).

*Monitor and init.* The history has the acknowledgements that came; as long as no frame came
before the one ahead of it was read (`missed`), the shown one and its repeats are the last of
them, also before there is a repeat, and in any case there were as many frames as are counted
(`MonInv`). The divider of three bits never reaches the enable
bits of the register, and the descriptors are stdio, the volume's, the script's and the one
left behind (`IInv` of `InitProgramProofs`). While the script is read, what was done are its
commands before the next line, counted, and none of them was a program, since that would
have replaced `init` (`OrderInv`).

*XMODEM.* Acknowledgements are counted: those the sender has taken, `sender.next - 1`, and those
on their way to it (`Promised`) are no more than the packets in the file and the one
in `resp` that is to be written next (`Held`), unless the disc is full or an EOT was answered,
which adds one (`XmodemInv`). A round of the loop adds one of each or none, whatever bytes arrive,
because a repeated packet is not acknowledged, and the write takes the packet from
`resp` to the file. An EOT that was sent as one is on the line only when the sender has taken the
acknowledgement of every packet (`RolesAt`), and then the file is complete.

*Only model-checked*:

- Liveness (`WriteReturns`, `WaitDataEnds`, `CallReturns`, `PollReturns`, `TransferEnds`):
  fairness and `ENABLED` are outside the prover.
- `FatFiles` and `FatDir`: they use recursive operators and `Bitwise`, with which the
  prover loses its arithmetic, and operators that take the rest of a call as a parameter.
- `Tlsf`: lists and blocks inside memory, whose invariants are about what can be
  reached from a pointer, and sizes in powers of two: inductions over data.
- `FileIsPrefix`: it rests on the checksum, as above.
- `PrintsRight`: it compares digits computed by recursion with a number, for formats of
  bounded size; it is a test of every combination rather than an invariant of steps.

## 6. Not modelled

- Of the C source, `ffunicode.c` is nearly half: tables of code pages that `FF_CODE_PAGE 437`
  leaves out, and a search in one of them. `ff.c` contains what `ffconf.h` disables
  (exFAT, locks, `f_mkfs`, labels, string functions, fast seek, forwarding, expanding,
  `f_chmod`, `f_findfirst`) and functions nothing calls (`f_rename`, `f_truncate`,
  `f_getfree`, `f_utime`, `f_getcwd`). `nanoprintf.h` is mostly floating point and options
  `printk.c` turns off. There is nothing to translate in code that is not compiled.
- The SD card (`sd_io.c`, `sd_ldio.c`, `sd_intr.S`, `sdcard.v`): with `FF_VOLUMES` 1 no
  path of the system reaches it.
- System call entry (`super_trap.s`): saving registers and a table; a model would repeat
  the table.
- The FemtoRV core and the flash mapper are third-party; `toplevel.v` is wiring; `spi.v` and
  `fcs.v` shift bits.
- The transmitter and the receiver bit by bit, and clock domain crossings.
- The boot loader is a straight copy, `simlib` stubs for a host build,
  `init_test` a test; string helpers have no state.
- `fd.c` lets descriptor 16 pass its range test, and `directory.c` handle 8;
  what such a call reads lies outside the tables and the models.
- In `Econet`, whose acknowledgement a six-byte frame is: the handler does not look.
- The branches of `ff.c` for FAT16, FAT32 and FSInfo are compiled, but the one disc that is
  mounted, 256K of flash, is FAT12. A write that fails for want of the flash driver's buffer and is
  reported as done (`flashdisc.c:109`): the errors of `FatVolume` are reported ones.
- What becomes of a volume after it lost a block to a power failure: `FatFiles` and `FatDir` say
  what such a failure may take (`cut`) and make no claims for later calls on what it took.
- Flash addresses outside the chip (`OnChip` is a guard of the model), a hexdump of 2^31 bytes
  or more, whose length is a negative `int` (`hexdump.c:56`), and the wrap of XMODEM's clock
  after 2^32 rounds (`icommands.c:118`).

## 7. Plan

1. The transmitter at bit level (`econet_tx_phy.v`): stuffing against the byte
   request; the receive ring of `econet_rx_buffered.v`.
2. `FileServer` over `Econet` itself instead of what it promises.
3. Proofs: `Tlsf`, with the blocks of the pool as a history variable instead of what can
   be reached; that `mapping_search` rounds up enough.
