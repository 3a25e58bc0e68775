------------------------------ MODULE SpiFlash ------------------------------
(***************************************************************************)
(* The SPI flash device of system/spi_flashdev.c.  The chip erases whole   *)
(* sectors and programs pages, so the driver keeps the one sector that is  *)
(* being written in RAM and writes it back when its end is reached, when   *)
(* another sector is written, and before a read, a sync or a close.        *)
(*                                                                         *)
(* A system call is several actions, since the power may fail before and   *)
(* during any command to the chip; nothing else interrupts it.             *)
(***************************************************************************)
EXTENDS Naturals, Integers, FiniteSets, Functions

CONSTANTS
    Fds,            \* descriptors
    MAX_FLASH_FDS,  \* slots of fd_list
    Sectors,        \* erase sectors of the chip
    Pages,          \* pages of a sector
    PageSize,       \* bytes of a page
    WordBytes,      \* bytes in a word of flash_memcpy
    Bits,           \* bits of a byte
    ReadCounts,     \* sizes programs pass to read()
    WriteCounts,    \* sizes programs pass to write()
    Offsets         \* offsets programs pass to lseek()

ASSUME SizesAssumption == {MAX_FLASH_FDS, Sectors, Pages, PageSize, WordBytes} \subseteq Nat \ {0}
\* spiflash_load_sector relies on it.
ASSUME WordsAssumption == Pages * PageSize >= WordBytes
ASSUME FlashCountsAssumption == ReadCounts \cup WriteCounts \subseteq Nat /\ Offsets \subseteq Int

SectorSize == Pages * PageSize
FlashSize == Sectors * SectorSize
Addrs == 0 .. FlashSize - 1

\* A byte is the set of its one bits.  Erasing sets them all, programming can
\* only clear some.
Bytes == SUBSET Bits
Erased == Bits
Programmed(old, new) == old \cap new

NULL == <<>>

VARIABLES
    flash,    \* the chip
    fileptr,  \* fd_list: the file pointers of the open descriptors
    wb,       \* buf: writebuf; offset, end: write_blk_offset, write_blk_end
    call,     \* the system call in progress
    got       \* the bytes a read stored in the caller's buffer, until the next call

vars == <<flash, fileptr, wb, call, got>>

Steps == {"user", "read", "chunk", "load", "copy", "close", "erase", "program", "overrun"}

\* then: where the call goes on when the buffer is written back.
CallType == [pc : Steps, fd : Fds \cup {0}, count : Nat, byte : Bytes, then : Steps]
Outside == [pc |-> "user", fd |-> 0, count |-> 0, byte |-> {}, then |-> "user"]

\* Types.  A buffered block is a whole erase sector of the chip.
FlashTypeOK ==
    /\ flash \in [Addrs -> Bytes]
    /\ DOMAIN fileptr \subseteq Fds /\ \A f \in DOMAIN fileptr : fileptr[f] \in 0 .. FlashSize
    /\ wb.buf = NULL \/ wb.buf \in [0 .. SectorSize - 1 -> Bytes]
    /\ wb.offset \in 0 .. FlashSize /\ wb.end \in {s * SectorSize : s \in 0 .. Sectors}
    /\ call \in CallType

\* spiflash_init, with anything on the chip.
Init ==
    /\ flash \in [Addrs -> Bytes]
    /\ fileptr = <<>>
    /\ wb = [buf |-> NULL, offset |-> 0, end |-> 0]
    /\ call = Outside
    /\ got = <<>>

-----------------------------------------------------------------------------
At(step) == call.pc = step
Goto(step) == call' = [call EXCEPT !.pc = step]
Return == call' = Outside
Begin(step, f, n, b) ==
    call' = [pc |-> step, fd |-> f, count |-> n, byte |-> b, then |-> "user"]

Ptr == fileptr[call.fd]

\* Go on at a step, after spiflash_writebuffer() if the buffer is in use.
BeginFlushed(step, f) ==
    call' = [Outside EXCEPT !.fd = f, !.pc = IF wb.buf = NULL THEN step ELSE "erase", !.then = step]

\* An assumption about programs: they stay on the chip.  The driver checks no
\* address ("FIXME: bounds check the flash chip").
OnChip(p, n) == p < FlashSize /\ p + n <= FlashSize

\* new_fd; -EMFILE otherwise.
spiflash_open(f) ==
    /\ At("user") /\ f \notin DOMAIN fileptr
    /\ Cardinality(DOMAIN fileptr) < MAX_FLASH_FDS
    /\ fileptr' = [g \in DOMAIN fileptr \cup {f} |-> IF g = f THEN 0 ELSE fileptr[g]]
    /\ got' = <<>>
    /\ UNCHANGED <<flash, wb, call>>

\* The end is the chip's last byte.
SeekBase(f, whence) ==
    CASE whence = "SEEK_SET" -> 0
      [] whence = "SEEK_CUR" -> fileptr[f]
      [] whence = "SEEK_END" -> FlashSize - 1

\* The driver takes any offset: the range is the assumption of OnChip.
spiflash_lseek(f, offset, whence) ==
    /\ At("user") /\ f \in DOMAIN fileptr
    /\ SeekBase(f, whence) + offset \in 0 .. FlashSize
    /\ fileptr' = [fileptr EXCEPT ![f] = SeekBase(f, whence) + offset]
    /\ got' = <<>>
    /\ UNCHANGED <<flash, wb, call>>

spiflash_close(f) ==
    /\ At("user") /\ f \in DOMAIN fileptr
    /\ BeginFlushed("close", f)
    /\ got' = <<>>
    /\ UNCHANGED <<flash, fileptr, wb>>

Closed ==
    /\ At("close")
    /\ fileptr' = Restrict(fileptr, DOMAIN fileptr \ {call.fd})
    /\ Return
    /\ UNCHANGED <<flash, wb, got>>

\* Called by the file system on the flash (intflash_sync).
spiflash_sync ==
    /\ At("user") /\ wb.buf # NULL
    /\ BeginFlushed("user", 0)
    /\ got' = <<>>
    /\ UNCHANGED <<flash, fileptr, wb>>

-----------------------------------------------------------------------------
ReadFlushed(f, n) ==
    call' = [pc |-> IF wb.buf = NULL THEN "read" ELSE "erase", fd |-> f, count |-> n,
             byte |-> {}, then |-> "read"]

spiflash_read(f, n) ==
    /\ At("user") /\ f \in DOMAIN fileptr /\ OnChip(fileptr[f], n)
    /\ ReadFlushed(f, n)
    /\ got' = <<>>
    /\ UNCHANGED <<flash, fileptr, wb>>

\* flash_memcpy moves whole words and then the bytes that remain.  It tests the
\* number of words after it moved one: less than one word is 2^32 of them, all over
\* the memory, and only the power switch ends it.
Overruns(n) == n < WordBytes

ReadCopy ==
    /\ At("read")
    /\ IF Overruns(call.count)
       THEN Goto("overrun") /\ UNCHANGED <<fileptr, got>>
       ELSE /\ got' = [i \in 0 .. call.count - 1 |-> flash[Ptr + i]]
            /\ fileptr' = [fileptr EXCEPT ![call.fd] = @ + call.count]
            /\ Return
    /\ UNCHANGED <<flash, wb>>

-----------------------------------------------------------------------------
(* spiflash_write: chunk after chunk, each by spiflash_write_to_sector. *)

spiflash_write(f, n, b) ==
    /\ At("user") /\ f \in DOMAIN fileptr /\ OnChip(fileptr[f], n)
    /\ Begin("chunk", f, n, b)
    /\ got' = <<>>
    /\ UNCHANGED <<flash, fileptr, wb>>

EndAddr == call.count + Ptr

\* Mutant: a write below the buffered sector is not noticed.
AboveBlock == EndAddr > wb.end

OutsideBlock == EndAddr > wb.end \/ Ptr < wb.offset

WriteTest ==
    /\ At("chunk")
    /\ CASE wb.buf = NULL -> Goto("load")
         [] wb.buf # NULL /\ OutsideBlock -> call' = [call EXCEPT !.pc = "erase", !.then = "load"]
         [] OTHER -> Goto("copy")
    /\ UNCHANGED <<flash, fileptr, wb, got>>

\* & WRITE_OFFSET_MASK
SectorStart(p) == p - (p % SectorSize)

\* spiflash_load_sector
WriteLoad ==
    /\ At("load")
    /\ LET s == SectorStart(Ptr)
       IN  wb' = [buf |-> [i \in 0 .. SectorSize - 1 |-> flash[s + i]],
                  offset |-> s, end |-> s + SectorSize]
    /\ Goto("copy")
    /\ UNCHANGED <<flash, fileptr, got>>

\* kmalloc fails: the write returns -ENOMEM, without the chunks it has not come to.
WriteNoMemory == At("load") /\ Return /\ UNCHANGED <<flash, fileptr, wb, got>>

\* Mutant: the chunk leaves the sector's last byte to the next one.
ChunkBelowEnd == IF EndAddr > wb.end THEN wb.end - Ptr - 1 ELSE call.count

Chunk == IF EndAddr > wb.end THEN wb.end - Ptr ELSE call.count

\* memcpy into the buffer, write it back if its end was reached, and advance the
\* file pointer; go round again while bytes remain, which needs the end reached.
WriteCopy ==
    /\ At("copy")
    /\ LET i == Ptr % SectorSize
           next == IF call.count = Chunk THEN "user" ELSE "chunk"
       IN  /\ wb' = [wb EXCEPT !.buf = [j \in 0 .. SectorSize - 1 |->
                        IF j \in i .. i + Chunk - 1 THEN call.byte ELSE wb.buf[j]]]
           /\ IF EndAddr >= wb.end
              THEN call' = [call EXCEPT !.count = @ - Chunk, !.pc = "erase", !.then = next]
              ELSE Return
    /\ fileptr' = [fileptr EXCEPT ![call.fd] = @ + Chunk]
    /\ UNCHANGED <<flash, got>>

-----------------------------------------------------------------------------
(* spiflash_writebuffer *)

EraseSector ==
    [a \in Addrs |-> IF a \in wb.offset .. wb.offset + SectorSize - 1 THEN Erased ELSE flash[a]]

Erase ==
    /\ At("erase")
    /\ flash' = EraseSector
    /\ Goto("program")
    /\ UNCHANGED <<fileptr, wb, got>>

\* One page.  write_blk_offset moves on with it and is reset with the buffer.
Program ==
    /\ At("program")
    /\ LET o == wb.offset
           page == o .. o + PageSize - 1
           last == o + PageSize = wb.end
       IN  /\ flash' = [a \in Addrs |->
                           IF a \in page
                           THEN Programmed(flash[a], wb.buf[a - (wb.end - SectorSize)])
                           ELSE flash[a]]
           /\ wb' = IF last THEN [wb EXCEPT !.buf = NULL, !.offset = 0]
                            ELSE [wb EXCEPT !.offset = o + PageSize]
           /\ CASE ~last -> UNCHANGED call
                [] last /\ call.then = "user" -> Return
                [] OTHER -> Goto(call.then)
    /\ UNCHANGED <<fileptr, got>>

\* Only what is on the chip is left.  A command that is cut short leaves anything
\* in its sector.
PowerFail ==
    /\ fileptr' = <<>>
    /\ wb' = [buf |-> NULL, offset |-> 0, end |-> 0]
    /\ call' = Outside
    /\ got' = <<>>
    /\ flash' \in [Addrs -> Bytes]
    /\ LET cut == IF At("erase") \/ At("program") THEN wb.end - SectorSize .. wb.end - 1 ELSE {}
       IN  \A a \in Addrs \ cut : flash'[a] = flash[a]

-----------------------------------------------------------------------------
Syscall ==
    \E f \in Fds :
       \/ spiflash_open(f)
       \/ spiflash_close(f)
       \/ \E o \in Offsets, w \in {"SEEK_SET", "SEEK_CUR", "SEEK_END"} : spiflash_lseek(f, o, w)
       \/ \E n \in ReadCounts : spiflash_read(f, n)
       \/ \E n \in WriteCounts, b \in Bytes : spiflash_write(f, n, b)

Step == Closed \/ ReadCopy \/ WriteTest \/ WriteLoad \/ WriteNoMemory \/ WriteCopy \/ Erase \/ Program

Next == Syscall \/ spiflash_sync \/ Step \/ PowerFail

Spec == Init /\ [][Next]_vars

\* The processor goes on, and the chip finishes its commands.
FairSpec == Spec /\ WF_vars(Step)

-----------------------------------------------------------------------------
(* Properties. *)

\* The bytes as the users see them: the buffered sector hides the chip's.
View ==
    [a \in Addrs |-> IF wb.buf # NULL /\ a \in wb.end - SectorSize .. wb.end - 1
                     THEN wb.buf[a - (wb.end - SectorSize)] ELSE flash[a]]

Store == INSTANCE FlashStore WITH data <- View, ptr <- fileptr

\* The driver implements the byte store: whatever sectors the descriptors write
\* and read in turn, a read returns what was written last, a write changes no
\* other byte, and a power failure at any moment damages at most one sector.
ImplementsStore == Store!Spec

\* The call in progress is a read of less than a word (also after its write-back).
ShortRead == call.then = "read" /\ Overruns(call.count)

\* Every system call but a read of less than a word returns: each round of the
\* write loop moves bytes, whatever sectors it crosses and the buffer held before.
CallReturns == ~At("user") /\ ~ShortRead ~> At("user")
=============================================================================
