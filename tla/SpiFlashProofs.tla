--------------------------- MODULE SpiFlashProofs ---------------------------
(***************************************************************************)
(* The proof that SpiFlash implements FlashStore, for any geometry of the  *)
(* chip, any number of descriptors and any sizes.                          *)
(***************************************************************************)
EXTENDS SpiFlash, TLAPS

Blocks == [0 .. SectorSize - 1 -> Bytes]
Base == wb.end - SectorSize      \* of the buffered sector

\* Types: the file pointers stay on the chip.
TypeInv ==
    /\ flash \in [Addrs -> Bytes]
    /\ fileptr \in [DOMAIN fileptr -> 0 .. FlashSize]
    /\ wb \in [buf : Blocks \cup {NULL}, offset : Nat, end : Nat]
    /\ call \in CallType

\* The buffer holds one whole sector of the chip, and write_blk_offset is its
\* start, but while it is being programmed.
BlockInv ==
    wb.buf # NULL =>
       /\ \E s \in 0 .. Sectors - 1 : wb.end = s * SectorSize + SectorSize
       /\ ~At("program") => wb.offset = Base

\* In the middle of a write-back the pages below write_blk_offset are written and
\* the others are erased.
ProgramInv ==
    At("program") =>
       /\ \E q \in 0 .. Pages - 1 : wb.offset = Base + q * PageSize
       /\ \A a \in Base .. wb.end - 1 :
             flash[a] = IF a < wb.offset THEN wb.buf[a - Base] ELSE Erased

\* What a step relies on when it is reached: for the buffer, and for the file
\* pointer of the descriptor the call is on.
BufferReady(step) ==
    /\ step \in {"copy", "erase", "program"} => wb.buf # NULL
    /\ step \in {"read", "load", "close"} => wb.buf = NULL

PointerReady(step) ==
    /\ step \in {"read", "chunk", "load", "copy", "close"} => call.fd \in DOMAIN fileptr
    /\ step \in {"read", "chunk", "load", "copy"} =>
          Ptr < FlashSize /\ Ptr + call.count <= FlashSize
    /\ step = "copy" => wb.offset <= Ptr /\ (Ptr < wb.end \/ Ptr + call.count = wb.end)

Writeback == call.pc \in {"erase", "program"}

CallInv ==
    /\ BufferReady(call.pc) /\ PointerReady(call.pc)
    /\ Writeback => call.then \in {"user", "read", "chunk", "load", "close"} /\ PointerReady(call.then)

FInv == TypeInv /\ BlockInv /\ ProgramInv /\ CallInv

-----------------------------------------------------------------------------
(* Sectors and pages. *)

LEMMA Times == \A m, n \in Nat : m * n \in Nat /\ (m > 0 /\ n > 0 => m * n > 0)
OBVIOUS

LEMMA Monotone == \A m, n, k \in Nat : m <= n => m * k <= n * k
OBVIOUS

LEMMA Distribute == \A m, k \in Int : (m + 1) * k = m * k + k
OBVIOUS

LEMMA Quotient ==
    \A a, d \in Nat : d > 0 => \E q \in Nat : q * d <= a /\ a < q * d + d
<1> SUFFICES ASSUME NEW a \in Nat, NEW d \in Nat, d > 0
             PROVE  \E q \in Nat : q * d <= a /\ a < q * d + d
  OBVIOUS
<1>1. a \div d \in Nat
  OBVIOUS
<1>2. \E q \in Int : q = a \div d /\ q * d <= a /\ a < q * d + d
  OBVIOUS
<1> QED
  BY <1>1, <1>2

LEMMA SectorSizes == SectorSize \in Nat /\ SectorSize > 0 /\ FlashSize \in Nat /\ FlashSize > 0
<1>1. /\ Pages \in Nat /\ Pages > 0 /\ PageSize \in Nat /\ PageSize > 0
      /\ Sectors \in Nat /\ Sectors > 0
  BY SizesAssumption
<1>2. SectorSize \in Nat /\ SectorSize > 0
  BY <1>1, Times DEF SectorSize
<1> QED
  BY <1>1, <1>2, Times DEF FlashSize

\* A sector lies on the chip.
LEMMA SectorOnChip ==
    ASSUME NEW s \in 0 .. Sectors - 1
    PROVE  s * SectorSize \in Nat /\ s * SectorSize + SectorSize <= FlashSize
<1>1. s \in Nat /\ s + 1 \in Nat /\ s + 1 <= Sectors /\ Sectors \in Nat /\ SectorSize \in Nat
  BY SizesAssumption, SectorSizes
<1>2. (s + 1) * SectorSize <= Sectors * SectorSize
  BY <1>1, Monotone
<1>3. (s + 1) * SectorSize = s * SectorSize + SectorSize
  BY <1>1, Distribute
<1>4. s * SectorSize \in Nat
  BY <1>1, Times
<1> QED
  BY <1>2, <1>3, <1>4 DEF FlashSize

\* The addresses between the start of a sector and the next are those of the sector,
\* and the remainder is the offset into it.
LEMMA InSector ==
    ASSUME NEW s \in Nat, NEW a \in Nat, s * SectorSize <= a, a < s * SectorSize + SectorSize
    PROVE  a \div SectorSize = s /\ a % SectorSize = a - s * SectorSize
BY SectorSizes

\* & WRITE_OFFSET_MASK of an address on the chip is the start of its sector.
LEMMA StartOfSector ==
    ASSUME NEW a \in Addrs
    PROVE  \E s \in 0 .. Sectors - 1 :
              SectorStart(a) = s * SectorSize /\ s * SectorSize <= a /\ a < s * SectorSize + SectorSize
<1>1. a \in Nat /\ a < FlashSize /\ SectorSize \in Nat /\ SectorSize > 0 /\ Sectors \in Nat
  BY SectorSizes, SizesAssumption DEF Addrs
<1>2. PICK s \in Nat : s * SectorSize <= a /\ a < s * SectorSize + SectorSize
  BY <1>1, Quotient
<1>3. s * SectorSize \in Nat
  BY <1>1, Times
<1>4. s < Sectors
  <2>1. ASSUME s >= Sectors PROVE FALSE
    <3>1. Sectors * SectorSize <= s * SectorSize
      BY <1>1, <1>2, <2>1, Monotone
    <3> QED
      BY <1>1, <1>2, <1>3, <3>1 DEF FlashSize
  <2> QED
    BY <1>1, <1>2, <2>1
<1>5. a % SectorSize = a - s * SectorSize
  BY <1>1, <1>2, InSector
<1>6. SectorStart(a) = s * SectorSize
  <2>1. \A x \in Nat : a - (a - x) = x
    BY <1>1
  <2> QED
    BY <1>3, <1>5, <2>1 DEF SectorStart
<1>7. s \in 0 .. Sectors - 1
  BY <1>1, <1>4
<1> QED
  BY <1>2, <1>6, <1>7

LEMMA PageInSector ==
    ASSUME NEW q \in 0 .. Pages - 1
    PROVE  /\ q * PageSize \in Nat /\ q * PageSize + PageSize <= SectorSize
           /\ q * PageSize + PageSize # SectorSize =>
                 q + 1 \in 0 .. Pages - 1 /\ (q + 1) * PageSize = q * PageSize + PageSize
<1>1. q \in Nat /\ q + 1 \in Nat /\ q + 1 <= Pages /\ Pages \in Nat /\ PageSize \in Nat
  BY SizesAssumption
<1>2. (q + 1) * PageSize <= Pages * PageSize
  BY <1>1, Monotone
<1>3. (q + 1) * PageSize = q * PageSize + PageSize
  BY <1>1, Distribute
<1>4. q * PageSize \in Nat
  BY <1>1, Times
<1>5. q + 1 = Pages => q * PageSize + PageSize = SectorSize
  BY <1>3 DEF SectorSize
<1> QED
  BY <1>1, <1>2, <1>3, <1>4, <1>5 DEF SectorSize

\* A sector in RAM is not the null pointer.
LEMMA BlockNotNull == \A b \in Blocks : b # NULL
<1>1. 0 \in 0 .. SectorSize - 1
  BY SectorSizes
<1>2. \A b \in Blocks : 0 \in DOMAIN b
  BY <1>1 DEF Blocks
<1>3. 0 \notin DOMAIN NULL
  BY DEF NULL
<1> QED
  BY <1>2, <1>3

\* The sector in the buffer.
LEMMA Buffered ==
    ASSUME TypeInv, BlockInv, wb.buf # NULL
    PROVE  /\ wb.buf \in Blocks /\ Base \in Nat /\ wb.end = Base + SectorSize /\ wb.end <= FlashSize
           /\ \E s \in 0 .. Sectors - 1 : Base = s * SectorSize
<1>1. PICK s \in 0 .. Sectors - 1 : wb.end = s * SectorSize + SectorSize
  BY DEF BlockInv
<1>2. s * SectorSize \in Nat /\ wb.end <= FlashSize
  BY <1>1, SectorOnChip
<1>3. \A x \in Nat : (x + SectorSize) - SectorSize = x
  BY SectorSizes
<1>4. Base = s * SectorSize
  BY <1>1, <1>2, <1>3 DEF Base
<1>5. wb.buf \in Blocks
  BY DEF TypeInv
<1> QED
  BY <1>1, <1>2, <1>4, <1>5

-----------------------------------------------------------------------------
(* The invariant, action by action. *)

\* The program is anywhere but between two pages, and the buffer is as it was.
LEMMA BlockKept ==
    ASSUME FInv, UNCHANGED wb, call.pc # "program", call'.pc # "program"
    PROVE  BlockInv' /\ ProgramInv'
BY DEF FInv, BlockInv, ProgramInv, At, Base

LEMMA CallTypes == Outside \in CallType
BY DEF Outside, CallType, Steps, Bytes

LEMMA FSyscall == FInv /\ (Syscall \/ spiflash_sync) => FInv'
<1> SUFFICES ASSUME FInv, Syscall \/ spiflash_sync PROVE FInv'
  OBVIOUS
<1>0. /\ TypeInv /\ call \in CallType /\ fileptr \in [DOMAIN fileptr -> 0 .. FlashSize]
      /\ FlashSize \in Nat /\ 0 \in 0 .. FlashSize
  BY SectorSizes DEF FInv, TypeInv
<1>1. ASSUME NEW f \in Fds, spiflash_open(f) PROVE FInv'
  <2>1. fileptr' \in [DOMAIN fileptr' -> 0 .. FlashSize]
    BY <1>0, <1>1 DEF spiflash_open
  <2>2. TypeInv' /\ BlockInv' /\ ProgramInv'
    BY <1>0, <1>1, <2>1, BlockKept DEF spiflash_open, At, TypeInv
  <2>3. CallInv'
    BY <1>1 DEF spiflash_open, At, CallInv, BufferReady, PointerReady, Writeback
  <2> QED
    BY <2>2, <2>3 DEF FInv
<1>2. ASSUME NEW f \in Fds, NEW o \in Offsets, NEW w, spiflash_lseek(f, o, w) PROVE FInv'
  <2>1. fileptr' \in [DOMAIN fileptr' -> 0 .. FlashSize]
    BY <1>0, <1>2 DEF spiflash_lseek
  <2>2. TypeInv' /\ BlockInv' /\ ProgramInv'
    BY <1>0, <1>2, <2>1, BlockKept DEF spiflash_lseek, At, TypeInv
  <2>3. CallInv'
    BY <1>2 DEF spiflash_lseek, At, CallInv, BufferReady, PointerReady, Writeback
  <2> QED
    BY <2>2, <2>3 DEF FInv
<1>3. ASSUME NEW f \in Fds \cup {0}, NEW step \in {"user", "close"}, At("user"), BeginFlushed(step, f),
             step = "close" => f \in DOMAIN fileptr, UNCHANGED <<flash, fileptr, wb>>
      PROVE  FInv'
  <2>1. /\ call' \in CallType /\ call'.fd = f /\ call'.then = step
        /\ call'.pc = IF wb.buf = NULL THEN step ELSE "erase"
    BY <1>3 DEF BeginFlushed, Outside, CallType, Steps, Bytes
  <2>2. TypeInv' /\ BlockInv' /\ ProgramInv'
    BY <1>0, <1>3, <2>1, BlockKept DEF At, TypeInv
  <2>3. CallInv'
    BY <1>3, <2>1 DEF CallInv, BufferReady, PointerReady, Writeback
  <2> QED
    BY <2>2, <2>3 DEF FInv
<1>4. ASSUME NEW f \in Fds, spiflash_close(f) PROVE FInv'
  BY <1>3, <1>4 DEF spiflash_close
<1>5. CASE spiflash_sync
  BY <1>3, <1>5 DEF spiflash_sync
<1>6. ASSUME NEW f \in Fds, NEW n \in ReadCounts, spiflash_read(f, n) PROVE FInv'
  <2>1. /\ call' \in CallType /\ call'.fd = f /\ call'.count = n /\ call'.then = "read"
        /\ call'.pc = IF wb.buf = NULL THEN "read" ELSE "erase"
    BY <1>6, FlashCountsAssumption DEF spiflash_read, ReadFlushed, CallType, Steps, Bytes
  <2>2. TypeInv' /\ BlockInv' /\ ProgramInv'
    BY <1>0, <1>6, <2>1, BlockKept DEF spiflash_read, At, TypeInv
  <2>3. CallInv'
    BY <1>6, <2>1 DEF spiflash_read, OnChip, CallInv, BufferReady, PointerReady, Writeback, Ptr
  <2> QED
    BY <2>2, <2>3 DEF FInv
<1>7. ASSUME NEW f \in Fds, NEW n \in WriteCounts, NEW b \in Bytes, spiflash_write(f, n, b) PROVE FInv'
  <2>1. call' \in CallType /\ call'.fd = f /\ call'.count = n /\ call'.pc = "chunk"
    BY <1>7, FlashCountsAssumption DEF spiflash_write, Begin, CallType, Steps
  <2>2. TypeInv' /\ BlockInv' /\ ProgramInv'
    BY <1>0, <1>7, <2>1, BlockKept DEF spiflash_write, At, TypeInv
  <2>3. CallInv'
    BY <1>7, <2>1 DEF spiflash_write, OnChip, CallInv, BufferReady, PointerReady, Writeback, Ptr
  <2> QED
    BY <2>2, <2>3 DEF FInv
<1> QED
  BY <1>1, <1>2, <1>4, <1>5, <1>6, <1>7 DEF Syscall

LEMMA FRead == FInv /\ (Closed \/ ReadCopy) => FInv'
<1> SUFFICES ASSUME FInv, Closed \/ ReadCopy PROVE FInv'
  OBVIOUS
<1>0. /\ TypeInv /\ call \in CallType /\ call.count \in Nat
      /\ fileptr \in [DOMAIN fileptr -> 0 .. FlashSize] /\ FlashSize \in Nat
  BY SectorSizes DEF FInv, TypeInv, CallType
<1>1. CASE Closed
  <2>1. fileptr' \in [DOMAIN fileptr' -> 0 .. FlashSize] /\ call' = Outside
    BY <1>0, <1>1 DEF Closed, Restrict, Return
  <2>2. TypeInv' /\ BlockInv' /\ ProgramInv'
    BY <1>0, <1>1, <2>1, BlockKept, CallTypes DEF Closed, At, TypeInv, Outside
  <2>3. CallInv'
    BY <2>1 DEF Outside, CallInv, BufferReady, PointerReady, Writeback
  <2> QED
    BY <2>2, <2>3 DEF FInv
<1>2. CASE ReadCopy
  <2>1. call.pc = "read" /\ UNCHANGED <<flash, wb>>
    BY <1>2 DEF ReadCopy, At
  <2>2. call' \in CallType /\ call'.pc \in {"user", "overrun"}
    BY <1>0, <1>2, CallTypes DEF ReadCopy, Goto, Return, Outside, CallType, Steps
  <2>3. fileptr' \in [DOMAIN fileptr' -> 0 .. FlashSize]
    <3>1. CASE fileptr' = fileptr
      BY <1>0, <3>1
    <3>2. CASE fileptr' = [fileptr EXCEPT ![call.fd] = @ + call.count]
      <4>1. Ptr + call.count \in 0 .. FlashSize
        BY <1>0, <2>1 DEF FInv, CallInv, PointerReady, Ptr
      <4> QED
        BY <1>0, <3>2, <4>1 DEF Ptr
    <3> QED
      BY <1>2, <3>1, <3>2 DEF ReadCopy
  <2>4. TypeInv' /\ BlockInv' /\ ProgramInv'
    BY <1>0, <2>1, <2>2, <2>3, BlockKept DEF TypeInv
  <2>5. CallInv'
    BY <2>2 DEF CallInv, BufferReady, PointerReady, Writeback
  <2> QED
    BY <2>4, <2>5 DEF FInv
<1> QED
  BY <1>1, <1>2

LEMMA FWrite == FInv /\ (WriteTest \/ WriteLoad \/ WriteNoMemory \/ WriteCopy) => FInv'
<1> SUFFICES ASSUME FInv, WriteTest \/ WriteLoad \/ WriteNoMemory \/ WriteCopy PROVE FInv'
  OBVIOUS
<1>0. /\ TypeInv /\ BlockInv /\ call \in CallType /\ call.count \in Nat
      /\ fileptr \in [DOMAIN fileptr -> 0 .. FlashSize] /\ FlashSize \in Nat
      /\ wb \in [buf : Blocks \cup {NULL}, offset : Nat, end : Nat]
      /\ wb.offset \in Nat /\ wb.end \in Nat
  BY SectorSizes DEF FInv, TypeInv, CallType
<1>1. ASSUME call.pc \in {"chunk", "load", "copy"}
      PROVE  /\ call.fd \in DOMAIN fileptr /\ Ptr \in Nat /\ Ptr \in Addrs
             /\ Ptr + call.count <= FlashSize
  BY <1>0, <1>1 DEF FInv, CallInv, PointerReady, Ptr, Addrs
<1>2. CASE WriteTest
  <2>1. call.pc = "chunk" /\ UNCHANGED <<flash, fileptr, wb>>
    BY <1>2 DEF WriteTest, At
  <2>2. /\ call' \in CallType /\ call'.fd = call.fd /\ call'.count = call.count
        /\ \/ call'.pc = "load" /\ wb.buf = NULL
           \/ call'.pc = "erase" /\ call'.then = "load" /\ wb.buf # NULL
           \/ call'.pc = "copy" /\ wb.buf # NULL /\ ~OutsideBlock
    BY <1>0, <1>2 DEF WriteTest, Goto, CallType, Steps
  <2>3. TypeInv' /\ BlockInv' /\ ProgramInv'
    BY <1>0, <2>1, <2>2, BlockKept DEF TypeInv
  <2>4. Ptr' = Ptr
    BY <2>1, <2>2 DEF Ptr
  <2>5. ~OutsideBlock => wb.offset <= Ptr /\ (Ptr < wb.end \/ Ptr + call.count = wb.end)
    BY <1>0, <1>1, <2>1 DEF OutsideBlock, EndAddr
  <2>6. PointerReady("chunk")
    BY <2>1 DEF FInv, CallInv
  <2>7. CallInv'
    BY <2>1, <2>2, <2>4, <2>5, <2>6 DEF CallInv, BufferReady, PointerReady, Writeback
  <2> QED
    BY <2>3, <2>7 DEF FInv
<1>3. CASE WriteLoad
  <2> DEFINE s == SectorStart(Ptr)
  <2>1. call.pc = "load" /\ UNCHANGED <<flash, fileptr>>
    BY <1>3 DEF WriteLoad, At
  <2>2. call' \in CallType /\ call'.fd = call.fd /\ call'.count = call.count /\ call'.pc = "copy"
    BY <1>0, <1>3 DEF WriteLoad, Goto, CallType, Steps
  <2>3. PICK i \in 0 .. Sectors - 1 :
           s = i * SectorSize /\ i * SectorSize <= Ptr /\ Ptr < i * SectorSize + SectorSize
    BY <1>1, <2>1, StartOfSector
  <2>4. s \in Nat /\ s + SectorSize <= FlashSize /\ s <= Ptr /\ Ptr < s + SectorSize
    BY <2>3, SectorOnChip
  <2>5. wb' = [buf |-> [j \in 0 .. SectorSize - 1 |-> flash[s + j]],
               offset |-> s, end |-> s + SectorSize]
    BY <1>3 DEF WriteLoad
  <2> HIDE DEF s
  <2>6. \A j \in 0 .. SectorSize - 1 : s + j \in Addrs
    BY <2>4, SectorSizes DEF Addrs
  <2>7. wb'.buf \in Blocks /\ wb'.offset = s /\ wb'.end = s + SectorSize
    BY <1>0, <2>5, <2>6 DEF TypeInv, Blocks
  <2>8. wb' \in [buf : Blocks \cup {NULL}, offset : Nat, end : Nat]
    BY <2>4, <2>5, <2>7, SectorSizes
  <2>9. wb'.buf # NULL
    BY <2>7, BlockNotNull
  <2>10. Base' = s
    BY <2>4, <2>7, SectorSizes DEF Base
  <2>11. TypeInv' /\ BlockInv' /\ ProgramInv'
    BY <1>0, <2>1, <2>2, <2>3, <2>7, <2>8, <2>10 DEF TypeInv, BlockInv, ProgramInv, At
  <2>12. Ptr' = Ptr
    BY <2>1, <2>2 DEF Ptr
  <2>13. CallInv'
    BY <1>1, <2>1, <2>2, <2>4, <2>7, <2>9, <2>12 DEF FInv, CallInv, BufferReady, PointerReady, Writeback
  <2> QED
    BY <2>11, <2>13 DEF FInv
<1>4. CASE WriteNoMemory
  <2>1. call.pc = "load" /\ call' = Outside /\ UNCHANGED <<flash, fileptr, wb>>
    BY <1>4 DEF WriteNoMemory, At, Return
  <2>2. TypeInv' /\ BlockInv' /\ ProgramInv'
    BY <1>0, <2>1, BlockKept, CallTypes DEF TypeInv, Outside
  <2>3. CallInv'
    BY <2>1 DEF Outside, CallInv, BufferReady, PointerReady, Writeback
  <2> QED
    BY <2>2, <2>3 DEF FInv
<1>5. CASE WriteCopy
  <2>1. call.pc = "copy" /\ wb.buf # NULL /\ UNCHANGED flash /\ wb.offset = Base
    BY <1>5 DEF WriteCopy, At, FInv, CallInv, BufferReady, BlockInv
  <2>2. /\ call.fd \in DOMAIN fileptr /\ Ptr \in Nat /\ Ptr < FlashSize
        /\ Ptr + call.count <= FlashSize /\ Base <= Ptr
        /\ Ptr < wb.end \/ Ptr + call.count = wb.end
    BY <1>0, <1>1, <2>1 DEF FInv, CallInv, PointerReady, Addrs
  <2>3. wb.buf \in Blocks /\ wb.end <= FlashSize
    BY <1>0, <2>1, Buffered
  <2>4. /\ Chunk \in 0 .. call.count /\ Ptr + Chunk <= wb.end
        /\ Chunk # call.count => Ptr + Chunk = wb.end
    BY <1>0, <2>2 DEF Chunk, EndAddr
  <2>5. /\ wb'.buf \in Blocks /\ wb'.offset = wb.offset /\ wb'.end = wb.end
        /\ wb' \in [buf : Blocks \cup {NULL}, offset : Nat, end : Nat]
    BY <1>0, <1>5, <2>3 DEF WriteCopy, Blocks, CallType
  <2>6. fileptr' = [fileptr EXCEPT ![call.fd] = Ptr + Chunk]
    BY <1>5 DEF WriteCopy, Ptr
  <2>7. fileptr' \in [DOMAIN fileptr' -> 0 .. FlashSize] /\ DOMAIN fileptr' = DOMAIN fileptr
        /\ fileptr'[call.fd] = Ptr + Chunk
    BY <1>0, <2>2, <2>3, <2>4, <2>6
  <2>8. \/ call' = Outside
        \/ /\ call'.pc = "erase" /\ call'.fd = call.fd /\ call'.count = call.count - Chunk
           /\ call' \in CallType
           /\ call'.then = IF call.count = Chunk THEN "user" ELSE "chunk"
    <3> DEFINE then == IF call.count = Chunk THEN "user" ELSE "chunk"
    <3>1. \/ call' = Outside
          \/ call' = [call EXCEPT !.count = call.count - Chunk, !.pc = "erase", !.then = then]
      BY <1>5 DEF WriteCopy, Return
    <3>2. call.count - Chunk \in Nat /\ then \in Steps
      BY <1>0, <2>4 DEF Steps
    <3> HIDE DEF then
    <3>3. CASE call' = [call EXCEPT !.count = call.count - Chunk, !.pc = "erase", !.then = then]
      BY <1>0, <3>2, <3>3 DEF CallType, Steps, then
    <3> QED
      BY <3>1, <3>3
  <2>9. TypeInv'
    BY <1>0, <2>1, <2>5, <2>7, <2>8, CallTypes DEF TypeInv
  <2>10. BlockInv' /\ ProgramInv'
    BY <1>0, <2>1, <2>5, <2>8 DEF BlockInv, ProgramInv, At, Base, Outside
  <2>11. wb'.buf # NULL
    BY <2>5, BlockNotNull
  <2>12. Chunk # call.count =>
            Ptr + Chunk < FlashSize /\ (Ptr + Chunk) + (call.count - Chunk) <= FlashSize
    BY <1>0, <2>2, <2>4
  <2>13. CallInv'
    BY <2>2, <2>7, <2>8, <2>11, <2>12
       DEF CallInv, BufferReady, PointerReady, Writeback, Outside, Ptr
  <2> QED
    BY <2>9, <2>10, <2>13 DEF FInv
<1> QED
  BY <1>2, <1>3, <1>4, <1>5

LEMMA ErasedByte == Erased \in Bytes /\ \A b \in Bytes : Programmed(Erased, b) = b
BY DEF Erased, Bytes, Programmed

LEMMA FErase == FInv /\ Erase => FInv'
<1> SUFFICES ASSUME FInv, Erase PROVE FInv'
  OBVIOUS
<1>1. call.pc = "erase" /\ wb.buf # NULL /\ wb.offset = Base /\ UNCHANGED <<fileptr, wb>>
  BY DEF Erase, At, FInv, CallInv, BufferReady, BlockInv
<1>2. Base \in Nat /\ wb.end = Base + SectorSize /\ wb.end <= FlashSize
  BY <1>1, Buffered DEF FInv
<1>3. call' = [call EXCEPT !.pc = "program"] /\ flash' = EraseSector
  BY DEF Erase, Goto
<1>4. /\ call' \in CallType /\ call'.pc = "program" /\ call'.fd = call.fd
      /\ call'.count = call.count /\ call'.then = call.then
  BY <1>3 DEF FInv, TypeInv, CallType, Steps
<1>5. flash' \in [Addrs -> Bytes]
  BY <1>3, ErasedByte DEF EraseSector, FInv, TypeInv
<1>6. \A a \in Base .. wb.end - 1 : flash'[a] = Erased /\ ~(a < wb.offset)
  BY <1>1, <1>2, <1>3, SectorSizes DEF EraseSector, Addrs
<1>7. TypeInv'
  BY <1>1, <1>4, <1>5 DEF FInv, TypeInv
<1>8. BlockInv'
  BY <1>1, <1>4 DEF FInv, BlockInv, At
<1>9. wb.offset = Base + 0 * PageSize /\ 0 \in 0 .. Pages - 1
  BY <1>1, <1>2, SizesAssumption
<1>10. ProgramInv'
  BY <1>1, <1>6, <1>9 DEF ProgramInv, Base
<1>11. CallInv'
  BY <1>1, <1>4 DEF FInv, CallInv, BufferReady, PointerReady, Writeback, Ptr
<1> QED
  BY <1>7, <1>8, <1>10, <1>11 DEF FInv

\* The page that Program writes lies in the buffered sector, and then the chip holds
\* what the buffer does up to its end.
LEMMA PageWritten ==
    ASSUME FInv, Program
    PROVE  /\ wb.offset \in Nat /\ Base <= wb.offset /\ wb.offset + PageSize <= wb.end
           /\ flash' \in [Addrs -> Bytes]
           /\ \A a \in Addrs : a \notin Base .. wb.end - 1 => flash'[a] = flash[a]
           /\ \A a \in Base .. wb.end - 1 :
                 flash'[a] = IF a < wb.offset + PageSize THEN wb.buf[a - Base] ELSE Erased
<1>1. call.pc = "program" /\ wb.buf # NULL
  BY DEF Program, At, FInv, CallInv, BufferReady
<1>2. Base \in Nat /\ wb.end = Base + SectorSize /\ wb.end <= FlashSize /\ wb.buf \in Blocks
  BY <1>1, Buffered DEF FInv
<1>3. PICK q \in 0 .. Pages - 1 : wb.offset = Base + q * PageSize
  BY <1>1 DEF FInv, ProgramInv, At
<1>4. q * PageSize \in Nat /\ q * PageSize + PageSize <= SectorSize /\ PageSize \in Nat /\ PageSize > 0
  BY PageInSector, SizesAssumption
<1>5. wb.offset \in Nat /\ Base <= wb.offset /\ wb.offset + PageSize <= wb.end
  BY <1>2, <1>3, <1>4, SectorSizes
<1>6. flash' = [a \in Addrs |-> IF a \in wb.offset .. wb.offset + PageSize - 1
                                THEN Programmed(flash[a], wb.buf[a - Base]) ELSE flash[a]]
  BY DEF Program, Base
<1>7. \A a \in Base .. wb.end - 1 :
         /\ a \in Addrs /\ a - Base \in 0 .. SectorSize - 1 /\ wb.buf[a - Base] \in Bytes
         /\ flash[a] = IF a < wb.offset THEN wb.buf[a - Base] ELSE Erased
  <2>1. \A a \in Base .. wb.end - 1 : a \in Addrs /\ a - Base \in 0 .. SectorSize - 1
    BY <1>2, SectorSizes DEF Addrs
  <2>2. \A i \in 0 .. SectorSize - 1 : wb.buf[i] \in Bytes
    BY <1>2 DEF Blocks
  <2> QED
    BY <1>1, <2>1, <2>2 DEF FInv, ProgramInv, At
<1>8. \A a \in wb.offset .. wb.offset + PageSize - 1 : a \in Base .. wb.end - 1 /\ ~(a < wb.offset)
  BY <1>2, <1>4, <1>5, SectorSizes
<1>9. \A a \in wb.offset .. wb.offset + PageSize - 1 : Programmed(flash[a], wb.buf[a - Base]) = wb.buf[a - Base]
  BY <1>7, <1>8, ErasedByte
<1>10. flash' \in [Addrs -> Bytes]
  BY <1>6, <1>7, <1>8, <1>9 DEF FInv, TypeInv
<1>11. \A a \in Addrs : a \notin Base .. wb.end - 1 => flash'[a] = flash[a]
  BY <1>6, <1>8
<1>12. ASSUME NEW a \in Base .. wb.end - 1
       PROVE  flash'[a] = IF a < wb.offset + PageSize THEN wb.buf[a - Base] ELSE Erased
  <2>1. CASE a < wb.offset
    <3>1. a \notin wb.offset .. wb.offset + PageSize - 1 /\ a < wb.offset + PageSize
      BY <1>2, <1>4, <1>5, <2>1
    <3> QED
      BY <1>6, <1>7, <2>1, <3>1
  <2>2. CASE a \in wb.offset .. wb.offset + PageSize - 1
    <3>1. a < wb.offset + PageSize
      BY <1>4, <1>5, <2>2
    <3> QED
      BY <1>6, <1>7, <1>9, <2>2, <3>1
  <2>3. CASE ~(a < wb.offset) /\ ~(a < wb.offset + PageSize)
    BY <1>4, <1>5, <1>6, <1>7, <2>3
  <2> QED
    BY <1>2, <1>4, <1>5, <2>1, <2>2, <2>3
<1> QED
  BY <1>5, <1>10, <1>11, <1>12

LEMMA FProgram == FInv /\ Program => FInv'
<1> SUFFICES ASSUME FInv, Program PROVE FInv'
  OBVIOUS
<1> DEFINE last == wb.offset + PageSize = wb.end
<1>1. /\ call.pc = "program" /\ wb.buf # NULL /\ UNCHANGED fileptr /\ call \in CallType
      /\ wb \in [buf : Blocks \cup {NULL}, offset : Nat, end : Nat]
  BY DEF Program, At, FInv, CallInv, BufferReady, TypeInv
<1>2. Base \in Nat /\ wb.end = Base + SectorSize
  BY <1>1, Buffered DEF FInv
<1>3. PICK q \in 0 .. Pages - 1 : wb.offset = Base + q * PageSize
  BY <1>1 DEF FInv, ProgramInv, At
<1>4. /\ call.then \in {"user", "read", "chunk", "load", "close"} /\ PointerReady(call.then)
  BY <1>1 DEF FInv, CallInv, Writeback
<1>5. CASE ~last
  <2>1. wb' = [wb EXCEPT !.offset = wb.offset + PageSize] /\ call' = call
    BY <1>5 DEF Program
  <2>2. wb'.buf = wb.buf /\ wb'.end = wb.end /\ wb'.offset = wb.offset + PageSize
        /\ wb' \in [buf : Blocks \cup {NULL}, offset : Nat, end : Nat] /\ Base' = Base
    BY <1>1, <2>1, SizesAssumption DEF Base
  <2>3. q * PageSize \in Nat /\ PageSize \in Nat /\ q * PageSize + PageSize # SectorSize
    <3>1. q * PageSize \in Nat /\ PageSize \in Nat
      BY PageInSector, SizesAssumption
    <3>2. \A x \in Nat : (Base + x) + PageSize # Base + SectorSize => x + PageSize # SectorSize
      BY <1>2, <3>1, SectorSizes
    <3> QED
      BY <1>2, <1>3, <1>5, <3>1, <3>2
  <2>4. q + 1 \in 0 .. Pages - 1 /\ (q + 1) * PageSize = q * PageSize + PageSize
    BY <2>3, PageInSector
  <2>5. wb'.offset = Base + (q + 1) * PageSize
    BY <1>2, <1>3, <2>2, <2>3, <2>4
  <2>6. TypeInv'
    BY <1>1, <2>1, <2>2, PageWritten DEF FInv, TypeInv
  <2>7. BlockInv'
    BY <1>1, <2>1, <2>2 DEF FInv, BlockInv, At
  <2>8. ProgramInv'
    BY <2>2, <2>4, <2>5, PageWritten DEF ProgramInv
  <2>9. CallInv'
    BY <1>1, <2>1, <2>2, <1>4 DEF CallInv, BufferReady, PointerReady, Writeback, Ptr
  <2> QED
    BY <2>6, <2>7, <2>8, <2>9 DEF FInv
<1>6. CASE last
  <2>1. wb' = [wb EXCEPT !.buf = NULL, !.offset = 0]
    BY <1>6 DEF Program
  <2>2. wb'.buf = NULL /\ wb' \in [buf : Blocks \cup {NULL}, offset : Nat, end : Nat]
    BY <1>1, <2>1
  <2>3. \/ call.then = "user" /\ call' = Outside
        \/ call.then # "user" /\ call' = [call EXCEPT !.pc = call.then]
    BY <1>6 DEF Program, Return, Goto
  <2>4. /\ call' \in CallType /\ call'.pc = call.then
        /\ call.then # "user" => call'.fd = call.fd /\ call'.count = call.count
    BY <1>1, <2>3, CallTypes DEF Outside, CallType
  <2>5. TypeInv'
    BY <1>1, <2>2, <2>4, PageWritten DEF FInv, TypeInv
  <2>6. BlockInv' /\ ProgramInv'
    BY <1>4, <2>2, <2>4 DEF BlockInv, ProgramInv, At
  <2>7. CallInv'
    BY <1>1, <1>4, <2>2, <2>4 DEF CallInv, BufferReady, PointerReady, Writeback, Ptr
  <2> QED
    BY <2>5, <2>6, <2>7 DEF FInv
<1> QED
  BY <1>5, <1>6

LEMMA FPowerFail == PowerFail => FInv'
<1> SUFFICES ASSUME PowerFail PROVE FInv'
  OBVIOUS
<1>1. /\ fileptr' = <<>> /\ wb' = [buf |-> NULL, offset |-> 0, end |-> 0] /\ call' = Outside
      /\ flash' \in [Addrs -> Bytes]
  BY DEF PowerFail
<1>2. fileptr' \in [DOMAIN fileptr' -> 0 .. FlashSize]
  BY <1>1
<1>3. wb' \in [buf : Blocks \cup {NULL}, offset : Nat, end : Nat]
  BY <1>1
<1> QED
  BY <1>1, <1>2, <1>3, CallTypes
     DEF FInv, TypeInv, BlockInv, ProgramInv, CallInv, BufferReady, PointerReady, Writeback, Outside, At

LEMMA FInit == Init => FInv
<1> SUFFICES ASSUME Init PROVE FInv
  OBVIOUS
<1>1. fileptr \in [DOMAIN fileptr -> 0 .. FlashSize]
  BY DEF Init
<1>2. wb \in [buf : Blocks \cup {NULL}, offset : Nat, end : Nat]
  BY DEF Init
<1> QED
  BY <1>1, <1>2, CallTypes
     DEF Init, FInv, TypeInv, BlockInv, ProgramInv, CallInv, BufferReady, PointerReady, Writeback,
         Outside, At

LEMMA FStep == FInv /\ [Next]_vars => FInv'
<1> SUFFICES ASSUME FInv, [Next]_vars PROVE FInv'
  OBVIOUS
<1>1. CASE UNCHANGED vars
  BY <1>1 DEF vars, FInv, TypeInv, BlockInv, ProgramInv, CallInv, BufferReady, PointerReady,
     Writeback, At, Base, Ptr
<1> QED
  BY <1>1, FSyscall, FRead, FWrite, FErase, FProgram, FPowerFail DEF Next, Step

LEMMA FInvariant == Spec => []FInv
BY FInit, FStep, PTL DEF Spec

-----------------------------------------------------------------------------
(* The refinement: each step of the driver is one of the store, or none that the *)
(* users see.                                                                    *)

svars == <<View, fileptr, got>>

LEMMA ViewUnchanged == UNCHANGED <<flash, wb>> => View' = View
BY DEF View

\* With no sector in the buffer the users see the chip.
LEMMA ViewOfChip == FInv /\ wb.buf = NULL => View = flash
BY DEF View, FInv, TypeInv

LEMMA ViewOfBuffer ==
    ASSUME FInv, wb.buf # NULL
    PROVE  /\ \A a \in Base .. wb.end - 1 : a \in Addrs /\ View[a] = wb.buf[a - Base]
           /\ \A a \in Addrs : a \notin Base .. wb.end - 1 => View[a] = flash[a]
<1>1. Base \in Nat /\ wb.end = Base + SectorSize /\ wb.end <= FlashSize
  BY Buffered DEF FInv
<1>2. \A a \in Base .. wb.end - 1 : a \in Addrs
  BY <1>1, SectorSizes DEF Addrs
<1> QED
  BY <1>2 DEF View, Base

\* The calls that enter the driver, and those that are over at once.
LEMMA RefineSyscall == ASSUME FInv, Syscall \/ spiflash_sync PROVE Store!Next
<1>1. ASSUME NEW f \in Fds, spiflash_open(f) PROVE Store!Next
  <2>1. Store!Open(f)
    BY <1>1, ViewUnchanged DEF spiflash_open, Store!Open
  <2> QED
    BY <2>1 DEF Store!Next
<1>2. ASSUME NEW f \in Fds, NEW o \in Offsets, NEW w, spiflash_lseek(f, o, w) PROVE Store!Next
  <2>1. f \in DOMAIN fileptr /\ Store!Seek(f, SeekBase(f, w) + o) /\ SeekBase(f, w) + o \in 0 .. FlashSize
    BY <1>2, ViewUnchanged DEF spiflash_lseek, Store!Seek
  <2> QED
    BY <2>1 DEF Store!Next
<1>3. ASSUME got' = <<>>, UNCHANGED <<flash, fileptr, wb>> PROVE Store!Next
  BY <1>3, ViewUnchanged DEF Store!Next, Store!Enter
<1>4. ASSUME NEW f \in Fds, spiflash_close(f) PROVE Store!Next
  BY <1>3, <1>4 DEF spiflash_close
<1>5. ASSUME NEW f \in Fds, NEW n \in ReadCounts, spiflash_read(f, n) PROVE Store!Next
  BY <1>3, <1>5 DEF spiflash_read
<1>6. ASSUME NEW f \in Fds, NEW n \in WriteCounts, NEW b \in Bytes, spiflash_write(f, n, b)
      PROVE  Store!Next
  BY <1>3, <1>6 DEF spiflash_write
<1>7. CASE spiflash_sync
  BY <1>3, <1>7 DEF spiflash_sync
<1>8. CASE Syscall
  BY <1>1, <1>2, <1>4, <1>5, <1>6, <1>8 DEF Syscall
<1> QED
  BY <1>7, <1>8

LEMMA RefineClose == ASSUME FInv, Closed PROVE Store!Next
<1>1. call.fd \in DOMAIN fileptr
  BY DEF Closed, At, FInv, CallInv, PointerReady
<1>2. Store!Close(call.fd)
  BY ViewUnchanged DEF Closed, Store!Close, Restrict, Store!Restrict
<1> QED
  BY <1>1, <1>2 DEF Store!Next

LEMMA RefineRead == ASSUME FInv, ReadCopy PROVE Store!Next \/ UNCHANGED svars
<1>1. /\ call.pc = "read" /\ wb.buf = NULL /\ UNCHANGED <<flash, wb>> /\ call.fd \in DOMAIN fileptr
      /\ Ptr < FlashSize /\ Ptr + call.count <= FlashSize
  BY DEF ReadCopy, At, FInv, CallInv, BufferReady, PointerReady
<1>2. View = flash /\ View' = View
  BY <1>1, ViewOfChip, ViewUnchanged
<1>3. CASE Overruns(call.count)
  BY <1>2, <1>3 DEF ReadCopy, svars
<1>4. CASE ~Overruns(call.count)
  <2>1. Store!Read(call.fd, call.count)
    BY <1>2, <1>4 DEF ReadCopy, Store!Read, Ptr
  <2>2. call.count \in Nat /\ Ptr \in Nat
    BY <1>1 DEF FInv, TypeInv, CallType, Ptr
  <2>3. call.count \in 0 .. FlashSize - fileptr[call.fd]
    BY <1>1, <2>2, SectorSizes DEF Ptr
  <2> QED
    BY <1>1, <2>1, <2>3 DEF Store!Next
<1> QED
  BY <1>3, <1>4

LEMMA RefineLoad == ASSUME FInv, WriteTest \/ WriteLoad \/ WriteNoMemory PROVE UNCHANGED svars
<1>1. CASE WriteTest \/ WriteNoMemory
  BY <1>1, ViewUnchanged DEF WriteTest, WriteNoMemory, svars
<1>2. CASE WriteLoad
  <2> DEFINE s == SectorStart(Ptr)
  <2>1. wb.buf = NULL /\ UNCHANGED <<flash, fileptr, got>>
    BY <1>2 DEF WriteLoad, At, FInv, CallInv, BufferReady
  <2>2. FInv'
    BY <1>2, FWrite
  <2>3. wb' = [buf |-> [j \in 0 .. SectorSize - 1 |-> flash[s + j]],
               offset |-> s, end |-> s + SectorSize]
    BY <1>2 DEF WriteLoad
  <2>4. Ptr \in Addrs
    <3>1. call.fd \in DOMAIN fileptr /\ Ptr < FlashSize
      BY <1>2 DEF WriteLoad, At, FInv, CallInv, PointerReady
    <3>2. Ptr \in 0 .. FlashSize
      BY <3>1 DEF FInv, TypeInv, Ptr
    <3> QED
      BY <3>1, <3>2, SectorSizes DEF Addrs
  <2>5. s \in Nat
    BY <2>4, StartOfSector, SectorOnChip
  <2> HIDE DEF s
  <2>6. wb'.buf = [j \in 0 .. SectorSize - 1 |-> flash[s + j]] /\ wb'.end = s + SectorSize
    BY <2>3
  <2>7. (s + SectorSize) - SectorSize = s
    BY <2>5, SectorSizes
  <2>8. \A a \in s .. s + SectorSize - 1 : a - s \in 0 .. SectorSize - 1 /\ s + (a - s) = a
    BY <2>5, SectorSizes
  <2>9. \A a \in s .. s + SectorSize - 1 : wb'.buf[a - s] = flash[a]
    BY <2>6, <2>8
  <2>10. View' = [a \in Addrs |-> flash[a]]
    <3>1. wb'.end - SectorSize = s /\ wb'.end - 1 = s + SectorSize - 1
      BY <2>5, <2>6, <2>7, SectorSizes
    <3>2. View' = [a \in Addrs |-> IF wb'.buf # NULL /\ a \in s .. s + SectorSize - 1
                                   THEN wb'.buf[a - s] ELSE flash[a]]
      BY <2>1, <3>1 DEF View
    <3> QED
      BY <2>9, <3>2
  <2>11. View = [a \in Addrs |-> flash[a]]
    BY <2>1 DEF View
  <2> QED
    BY <2>1, <2>10, <2>11 DEF svars
<1> QED
  BY <1>1, <1>2

\* A chunk is one write of the store.
LEMMA RefineCopy == ASSUME FInv, WriteCopy PROVE Store!Next
<1>1. call.pc = "copy" /\ wb.buf # NULL /\ UNCHANGED <<flash, got>> /\ wb.offset = Base
  BY DEF WriteCopy, At, FInv, CallInv, BufferReady, BlockInv
<1>2. PICK s \in 0 .. Sectors - 1 : Base = s * SectorSize
  BY <1>1, Buffered DEF FInv
<1>3. /\ Base \in Nat /\ wb.end = Base + SectorSize /\ wb.end <= FlashSize /\ wb.end \in Nat
      /\ SectorSize \in Nat /\ SectorSize > 0 /\ FlashSize \in Nat
  BY <1>1, Buffered, SectorSizes DEF FInv
<1>4. call.fd \in DOMAIN fileptr /\ call.count \in Nat /\ call.byte \in Bytes
  BY <1>1 DEF FInv, CallInv, PointerReady, TypeInv, CallType
<1>5. Ptr \in 0 .. FlashSize
  BY <1>4 DEF FInv, TypeInv, Ptr
<1>6. /\ Base <= Ptr /\ Ptr + call.count <= FlashSize
      /\ Ptr < wb.end \/ Ptr + call.count = wb.end
  BY <1>1 DEF FInv, CallInv, PointerReady
<1>7. Chunk \in 0 .. call.count /\ Ptr + Chunk <= wb.end
  BY <1>3, <1>4, <1>5, <1>6 DEF Chunk, EndAddr
<1>8. Chunk \in 0 .. FlashSize - fileptr[call.fd]
  BY <1>3, <1>4, <1>5, <1>7 DEF Ptr
<1> DEFINE i == Ptr % SectorSize
<1>9. i \in Nat /\ (Chunk > 0 => i = Ptr - Base)
  <2>1. i \in Nat
    BY <1>3, <1>5
  <2>2. ASSUME Chunk > 0 PROVE i = Ptr - Base
    <3>1. Ptr \in Nat /\ Base <= Ptr /\ Ptr < Base + SectorSize
      BY <1>3, <1>5, <1>6, <1>7, <2>2
    <3> QED
      BY <1>2, <3>1, InSector
  <2> QED
    BY <2>1, <2>2
<1>10. wb' = [wb EXCEPT !.buf = [j \in 0 .. SectorSize - 1 |->
                 IF j \in i .. i + Chunk - 1 THEN call.byte ELSE wb.buf[j]]]
  BY DEF WriteCopy
<1> HIDE DEF i
<1>11. /\ wb'.buf = [j \in 0 .. SectorSize - 1 |->
                 IF j \in i .. i + Chunk - 1 THEN call.byte ELSE wb.buf[j]]
       /\ wb'.end = wb.end
  BY <1>10 DEF FInv, TypeInv
<1>12. wb'.buf # NULL
  <2>1. 0 \in DOMAIN wb'.buf /\ 0 \notin DOMAIN NULL
    BY <1>3, <1>11 DEF NULL
  <2> QED
    BY <2>1
<1>13. \A a \in Base .. wb.end - 1 :
          wb'.buf[a - Base] = IF a \in Ptr .. Ptr + Chunk - 1 THEN call.byte ELSE wb.buf[a - Base]
  <2> SUFFICES ASSUME NEW a \in Base .. wb.end - 1
               PROVE  wb'.buf[a - Base] =
                         IF a \in Ptr .. Ptr + Chunk - 1 THEN call.byte ELSE wb.buf[a - Base]
    OBVIOUS
  <2>1. a - Base \in 0 .. SectorSize - 1
    BY <1>3
  <2>2. a - Base \in i .. i + Chunk - 1 <=> a \in Ptr .. Ptr + Chunk - 1
    BY <1>3, <1>4, <1>5, <1>7, <1>9
  <2> QED
    BY <1>11, <2>1, <2>2
<1>14. \A a \in Ptr .. Ptr + Chunk - 1 : a \in Base .. wb.end - 1
  BY <1>3, <1>4, <1>5, <1>6, <1>7
<1>15. View' = [a \in Addrs |-> IF a \in Base .. wb.end - 1 THEN wb'.buf[a - Base] ELSE flash[a]]
  BY <1>1, <1>11, <1>12 DEF View, Base
<1>16. View = [a \in Addrs |-> IF a \in Base .. wb.end - 1 THEN wb.buf[a - Base] ELSE flash[a]]
  BY <1>1 DEF View, Base
<1>17. View' = [a \in Addrs |-> IF a \in Ptr .. Ptr + Chunk - 1 THEN call.byte ELSE View[a]]
  BY <1>13, <1>14, <1>15, <1>16
<1>18. Store!Write(call.fd, Chunk, call.byte)
  BY <1>1, <1>17 DEF WriteCopy, Store!Write, Store!Addrs, Addrs, Ptr
<1> QED
  BY <1>4, <1>8, <1>18 DEF Store!Next

\* The users do not see the sector being written back.
LEMMA RefineErase == ASSUME FInv, Erase PROVE UNCHANGED svars
<1>1. call.pc = "erase" /\ wb.buf # NULL /\ wb.offset = Base /\ UNCHANGED <<fileptr, wb, got>>
  BY DEF Erase, At, FInv, CallInv, BufferReady, BlockInv
<1>2. Base \in Nat /\ wb.end = Base + SectorSize
  BY <1>1, Buffered DEF FInv
<1>3. \A a \in Addrs : a \notin Base .. wb.end - 1 => flash'[a] = flash[a]
  <2>1. flash' = [a \in Addrs |-> IF a \in wb.offset .. wb.offset + SectorSize - 1
                                  THEN Erased ELSE flash[a]]
    BY DEF Erase, EraseSector
  <2>2. wb.offset .. wb.offset + SectorSize - 1 = Base .. wb.end - 1
    BY <1>1, <1>2, SectorSizes
  <2> QED
    BY <2>1, <2>2
<1>4. View' = [a \in Addrs |-> IF a \in Base .. wb.end - 1 THEN wb.buf[a - Base] ELSE flash'[a]]
  BY <1>1 DEF View, Base
<1>5. View = [a \in Addrs |-> IF a \in Base .. wb.end - 1 THEN wb.buf[a - Base] ELSE flash[a]]
  BY <1>1 DEF View, Base
<1> QED
  BY <1>1, <1>3, <1>4, <1>5 DEF svars

LEMMA RefineProgram == ASSUME FInv, Program PROVE UNCHANGED svars
<1>1. call.pc = "program" /\ wb.buf # NULL /\ UNCHANGED <<fileptr, got>>
  BY DEF Program, At, FInv, CallInv, BufferReady
<1>2. Base \in Nat /\ wb.end = Base + SectorSize /\ wb.end \in Nat /\ SectorSize \in Nat
  BY <1>1, Buffered, SectorSizes DEF FInv
<1>3. View = [a \in Addrs |-> IF a \in Base .. wb.end - 1 THEN wb.buf[a - Base] ELSE flash[a]]
  BY <1>1 DEF View, Base
<1>4. \A a \in Addrs : a \notin Base .. wb.end - 1 => flash'[a] = flash[a]
  BY PageWritten
<1>5. CASE wb.offset + PageSize # wb.end
  <2>1. wb' = [wb EXCEPT !.offset = wb.offset + PageSize]
    BY <1>5 DEF Program
  <2>2. wb'.buf = wb.buf /\ wb'.end = wb.end
    BY <2>1 DEF FInv, TypeInv
  <2>3. View' = [a \in Addrs |-> IF a \in Base .. wb.end - 1 THEN wb.buf[a - Base] ELSE flash'[a]]
    BY <1>1, <2>2 DEF View, Base
  <2> QED
    BY <1>1, <1>3, <1>4, <2>3 DEF svars
<1>6. CASE wb.offset + PageSize = wb.end
  <2>1. wb' = [wb EXCEPT !.buf = NULL, !.offset = 0]
    BY <1>6 DEF Program
  <2>2. wb'.buf = NULL
    BY <2>1 DEF FInv, TypeInv
  <2>3. View' = [a \in Addrs |-> flash'[a]]
    BY <2>2 DEF View
  <2>4. \A a \in Base .. wb.end - 1 : a < wb.offset + PageSize
    BY <1>2, <1>6
  <2>5. \A a \in Base .. wb.end - 1 : flash'[a] = wb.buf[a - Base]
    BY <2>4, PageWritten
  <2> QED
    BY <1>1, <1>3, <1>4, <2>3, <2>5 DEF svars
<1> QED
  BY <1>5, <1>6

\* Power fails: the buffer is lost, and what an erase or program command was about
\* to change.  Both are in the buffered sector.
LEMMA RefinePowerFail == ASSUME FInv, PowerFail PROVE Store!Next
<1>1. /\ fileptr' = <<>> /\ got' = <<>> /\ flash' \in [Addrs -> Bytes] /\ wb'.buf = NULL
  BY DEF PowerFail
<1>2. View' = flash'
  BY <1>1 DEF View
<1>3. \E a \in Addrs : \A b \in Addrs : ~Store!SameSector(a, b) => View'[b] = View[b]
  <2>1. CASE wb.buf = NULL
    <3>1. View = flash /\ ~At("erase") /\ ~At("program")
      BY <2>1, ViewOfChip DEF FInv, CallInv, BufferReady, At
    <3>2. \A b \in Addrs : flash'[b] = flash[b]
      BY <3>1 DEF PowerFail
    <3>3. 0 \in Addrs
      BY SectorSizes DEF Addrs
    <3> QED
      BY <1>2, <3>1, <3>2, <3>3
  <2>2. CASE wb.buf # NULL
    <3>1. PICK s \in 0 .. Sectors - 1 : Base = s * SectorSize
      BY <2>2, Buffered DEF FInv
    <3>2. Base \in Nat /\ wb.end = Base + SectorSize /\ wb.end <= FlashSize
      BY <2>2, Buffered DEF FInv
    <3>3. s \in Nat /\ SectorSize \in Nat /\ SectorSize > 0 /\ FlashSize \in Nat
      BY SectorSizes, SizesAssumption
    <3>4. \A b \in Base .. wb.end - 1 : b \in Nat /\ s * SectorSize <= b /\ b < s * SectorSize + SectorSize
      BY <3>1, <3>2, <3>3
    <3>5. \A b \in Base .. wb.end - 1 : b \div SectorSize = s
      BY <3>3, <3>4, InSector
    <3>6. Base \in Base .. wb.end - 1 /\ Base \in Addrs
      BY <3>2, <3>3 DEF Addrs
    <3>7. \A b \in Addrs : ~Store!SameSector(Base, b) => b \notin Base .. wb.end - 1
      BY <3>5, <3>6 DEF Store!SameSector
    <3>8. \A b \in Addrs : b \notin Base .. wb.end - 1 => flash'[b] = flash[b]
      BY DEF PowerFail, Base
    <3>9. \A b \in Addrs : b \notin Base .. wb.end - 1 => View[b] = flash[b]
      BY <2>2, ViewOfBuffer
    <3> QED
      BY <1>2, <3>6, <3>7, <3>8, <3>9
  <2> QED
    BY <2>1, <2>2
<1>4. Store!PowerFail
  BY <1>1, <1>2, <1>3 DEF Store!PowerFail, Store!Addrs, Addrs
<1> QED
  BY <1>4 DEF Store!Next

LEMMA RefineInit == Init => Store!Init
<1> SUFFICES ASSUME Init PROVE Store!Init
  OBVIOUS
<1>1. wb.buf = NULL /\ flash \in [Addrs -> Bytes] /\ fileptr = <<>> /\ got = <<>>
  BY DEF Init
<1>2. View = flash
  BY <1>1 DEF View
<1> QED
  BY <1>1, <1>2 DEF Store!Init, Store!Addrs, Addrs

LEMMA RefineStep == FInv /\ [Next]_vars => [Store!Next]_svars
<1> SUFFICES ASSUME FInv, [Next]_vars PROVE Store!Next \/ UNCHANGED svars
  OBVIOUS
<1>1. CASE UNCHANGED vars
  BY <1>1, ViewUnchanged DEF vars, svars
<1> QED
  BY <1>1, RefineSyscall, RefineClose, RefineRead, RefineLoad, RefineCopy, RefineErase, RefineProgram,
     RefinePowerFail DEF Next, Step

\* The driver of spi_flashdev.c implements the byte store for every geometry of the
\* chip and every sequence of calls: reads return what was written last through any
\* descriptor, the write-back of a sector changes nothing that the users see, and a
\* power failure damages at most one sector.
THEOREM DriverImplementsStore == Spec => ImplementsStore
<1>1. Init => Store!Init
  BY RefineInit
<1>2. FInv /\ [Next]_vars => [Store!Next]_<<View, fileptr, got>>
  BY RefineStep DEF svars
<1> QED
  BY <1>1, <1>2, FInvariant, PTL DEF Spec, ImplementsStore, Store!Spec

-----------------------------------------------------------------------------
(* Types. *)

Ends == {s * SectorSize : s \in 0 .. Sectors}

\* What FInv leaves open: the descriptors, and the block while there is none.
RestInv ==
    /\ DOMAIN fileptr \subseteq Fds
    /\ wb.buf = NULL => wb.offset = 0 /\ wb.end \in Ends

LEMMA EndOfBlock == ASSUME FInv, wb.buf # NULL PROVE wb.end \in Ends
<1>1. PICK s \in 0 .. Sectors - 1 : wb.end = s * SectorSize + SectorSize
  BY DEF FInv, BlockInv
<1>2. s + 1 \in 0 .. Sectors /\ (s + 1) * SectorSize = s * SectorSize + SectorSize
  BY SizesAssumption, SectorSizes, Distribute
<1> QED
  BY <1>1, <1>2 DEF Ends

LEMMA RestInit == Init => RestInv
<1> SUFFICES ASSUME Init PROVE RestInv
  OBVIOUS
<1>1. 0 \in 0 .. Sectors /\ 0 * SectorSize = 0
  BY SizesAssumption, SectorSizes
<1> QED
  BY <1>1 DEF Init, RestInv, Ends

LEMMA RestStep == FInv /\ RestInv /\ [Next]_vars => RestInv'
<1> SUFFICES ASSUME FInv, RestInv, [Next]_vars PROVE RestInv'
  OBVIOUS
<1>0. /\ DOMAIN fileptr \subseteq Fds /\ wb \in [buf : Blocks \cup {NULL}, offset : Nat, end : Nat]
      /\ 0 \in Ends
  <2>1. 0 \in 0 .. Sectors /\ 0 * SectorSize = 0
    BY SizesAssumption, SectorSizes
  <2> QED
    BY <2>1 DEF FInv, TypeInv, RestInv, Ends
<1>1. CASE UNCHANGED <<fileptr, wb>>
  BY <1>1 DEF RestInv
<1>2. ASSUME NEW f \in Fds, spiflash_open(f) PROVE RestInv'
  BY <1>0, <1>2 DEF RestInv, spiflash_open
<1>3. ASSUME NEW f \in Fds, NEW o, NEW w, spiflash_lseek(f, o, w) PROVE RestInv'
  BY <1>3 DEF RestInv, spiflash_lseek
<1>4. CASE Syscall \/ spiflash_sync
  BY <1>1, <1>2, <1>3, <1>4 DEF Syscall, spiflash_close, spiflash_read, spiflash_write, spiflash_sync
<1>5. CASE Closed
  BY <1>0, <1>5 DEF RestInv, Closed, Restrict
<1>6. CASE ReadCopy
  BY <1>0, <1>6 DEF RestInv, ReadCopy
<1>7. CASE WriteTest \/ WriteNoMemory \/ Erase
  BY <1>1, <1>7 DEF WriteTest, WriteNoMemory, Erase
<1>8. CASE WriteLoad \/ WriteCopy
  <2>1. DOMAIN wb'.buf = 0 .. SectorSize - 1 /\ DOMAIN fileptr' = DOMAIN fileptr
    <3>1. CASE WriteLoad
      BY <3>1 DEF WriteLoad
    <3>2. CASE WriteCopy
      BY <1>0, <3>2 DEF WriteCopy
    <3> QED
      BY <1>8, <3>1, <3>2
  <2>2. 0 \in DOMAIN wb'.buf /\ 0 \notin DOMAIN NULL
    BY <2>1, SectorSizes DEF NULL
  <2> QED
    BY <1>0, <2>1, <2>2 DEF RestInv
<1>9. CASE Program
  <2>1. wb.buf # NULL /\ UNCHANGED fileptr
    BY <1>9 DEF Program, At, FInv, CallInv, BufferReady
  <2>2. \/ wb' = [wb EXCEPT !.buf = NULL, !.offset = 0]
        \/ wb' = [wb EXCEPT !.offset = wb.offset + PageSize]
    BY <1>9 DEF Program
  <2>3. wb'.end = wb.end /\ (wb'.buf = NULL => wb'.offset = 0)
    BY <1>0, <2>1, <2>2
  <2> QED
    BY <1>0, <2>1, <2>3, EndOfBlock DEF RestInv
<1>10. CASE PowerFail
  <2>1. fileptr' = <<>> /\ wb'.offset = 0 /\ wb'.end = 0
    BY <1>10 DEF PowerFail
  <2> QED
    BY <1>0, <2>1 DEF RestInv
<1>11. CASE UNCHANGED vars
  BY <1>1, <1>11 DEF vars
<1> QED
  BY <1>4, <1>5, <1>6, <1>7, <1>8, <1>9, <1>10, <1>11 DEF Next, Step

LEMMA TypesFollow == FInv /\ RestInv => FlashTypeOK
<1> SUFFICES ASSUME FInv, RestInv PROVE FlashTypeOK
  OBVIOUS
<1>1. flash \in [Addrs -> Bytes] /\ call \in CallType
  BY DEF FInv, TypeInv
<1>2. DOMAIN fileptr \subseteq Fds /\ \A f \in DOMAIN fileptr : fileptr[f] \in 0 .. FlashSize
  BY DEF FInv, TypeInv, RestInv
<1>3. wb.buf = NULL \/ wb.buf \in [0 .. SectorSize - 1 -> Bytes]
  BY DEF FInv, TypeInv, Blocks
<1>4. wb.end \in Ends
  BY EndOfBlock DEF RestInv
<1>5. wb.offset \in 0 .. FlashSize
  <2>1. CASE wb.buf = NULL
    BY <2>1, SectorSizes DEF RestInv
  <2>2. CASE wb.buf # NULL
    <3>1. /\ Base \in Nat /\ wb.end = Base + SectorSize /\ wb.end <= FlashSize
          /\ SectorSize \in Nat /\ FlashSize \in Nat
      BY <2>2, Buffered, SectorSizes DEF FInv
    <3>2. CASE ~At("program")
      BY <2>2, <3>1, <3>2 DEF FInv, BlockInv
    <3>3. CASE At("program")
      <4>1. PICK q \in 0 .. Pages - 1 : wb.offset = Base + q * PageSize
        BY <3>3 DEF FInv, ProgramInv
      <4>2. q * PageSize \in Nat /\ q * PageSize + PageSize <= SectorSize /\ PageSize \in Nat
        BY PageInSector, SizesAssumption
      <4> QED
        BY <3>1, <4>1, <4>2
    <3> QED
      BY <3>2, <3>3
  <2> QED
    BY <2>1, <2>2
<1> QED
  BY <1>1, <1>2, <1>3, <1>4, <1>5 DEF FlashTypeOK, Ends

\* The types of spi_flashdev.c's variables, for every geometry of the chip: the
\* buffered block is a whole erase sector of the chip, for programs that stay on it
\* (OnChip, which the driver does not check).
THEOREM FlashTypes == Spec => []FlashTypeOK
<1>1. RestInv /\ FInv /\ [Next]_vars => RestInv'
  BY RestStep
<1> QED
  BY <1>1, RestInit, TypesFollow, FInvariant, PTL DEF Spec
=============================================================================
