--------------------------- MODULE ConsoleProofs ---------------------------
(***************************************************************************)
(* Proofs about the console: the FIFO of fifo.v loses no byte, for any     *)
(* size; poll.c reports what is there, for any descriptors, timeouts and   *)
(* arrivals; the line editor of console.c edits its buffer as its keys say *)
(* and keeps terminal and buffer the same.                                 *)
(***************************************************************************)
EXTENDS Console, SequenceTheorems, OrderProofs

Pointers == 0 .. FIFO_SIZE - 1
Held == IF held = NoByte THEN 0 ELSE 1
Wired == IF wire = NoByte THEN 0 ELSE 1

\* The slot of the k-th unread byte.
Slot(k) == (fifo_out_ptr + k - 1) % FIFO_SIZE

HardwareTypes ==
    /\ fifo_in_ptr \in Pointers /\ fifo_out_ptr \in Pointers
    /\ fifo_buf \in [Pointers -> Keys \cup {NoByte}]
    /\ held \in Keys \cup {NoByte} /\ wire \in Keys \cup {NoByte}
    /\ queue \in Seq(Keys)

\* NothingLost byte by byte.
QueueInv ==
    /\ Len(queue) = avail + Held + Wired
    /\ \A k \in 1 .. avail : queue[k] = fifo_buf[Slot(k)]
    /\ held # NoByte => queue[avail + 1] = held
    /\ wire # NoByte => queue[avail + Held + 1] = wire

\* The terminal began the byte on the wire when there was room, and the FIFO only
\* fills up by taking the byte in the register: none is overwritten there.
RoomInv == held # NoByte /\ wire # NoByte => ~full

FifoInv == HardwareTypes /\ QueueInv /\ RoomInv

-----------------------------------------------------------------------------
(* The ring. *)

LEMMA Remainder ==
    ASSUME NEW n \in Nat, n > 0, NEW x \in Int
    PROVE  /\ 0 <= x /\ x < n => x % n = x
           /\ n <= x /\ x < n + n => x % n = x - n
           /\ -n <= x /\ x < 0 => x % n = x + n
OBVIOUS

LEMMA Distance ==
    ASSUME NEW i \in Pointers, NEW o \in Pointers
    PROVE  /\ (i - o) % FIFO_SIZE = IF i >= o THEN i - o ELSE (i - o) + FIFO_SIZE
           /\ (i - o) % FIFO_SIZE \in 0 .. FIFO_SIZE - 1
<1>1. FIFO_SIZE \in Nat /\ FIFO_SIZE > 1
  BY ConsoleAssumption
<1>2. (i - o) % FIFO_SIZE = IF i >= o THEN i - o ELSE (i - o) + FIFO_SIZE
  BY <1>1, Remainder DEF Pointers
<1> QED
  BY <1>1, <1>2 DEF Pointers

LEMMA Place ==
    ASSUME NEW o \in Pointers, NEW k \in 1 .. FIFO_SIZE
    PROVE  /\ (o + k - 1) % FIFO_SIZE = IF o + k - 1 < FIFO_SIZE THEN o + k - 1
                                        ELSE (o + k - 1) - FIFO_SIZE
           /\ (o + k - 1) % FIFO_SIZE \in Pointers
<1>1. FIFO_SIZE \in Nat /\ FIFO_SIZE > 1
  BY ConsoleAssumption
<1>2. (o + k - 1) % FIFO_SIZE = IF o + k - 1 < FIFO_SIZE THEN o + k - 1
                                ELSE (o + k - 1) - FIFO_SIZE
  BY <1>1, Remainder DEF Pointers
<1> QED
  BY <1>1, <1>2 DEF Pointers

LEMMA NextPointer ==
    ASSUME NEW p \in Pointers
    PROVE  /\ (p + 1) % FIFO_SIZE \in Pointers
           /\ (p + 1) % FIFO_SIZE = IF p + 1 = FIFO_SIZE THEN 0 ELSE p + 1
<1>1. FIFO_SIZE \in Nat /\ FIFO_SIZE > 1 /\ p \in Int /\ p >= 0 /\ p < FIFO_SIZE
  BY ConsoleAssumption DEF Pointers
<1>2. (p + 1) % FIFO_SIZE = IF p + 1 = FIFO_SIZE THEN 0 ELSE p + 1
  BY <1>1, Remainder
<1> QED
  BY <1>1, <1>2 DEF Pointers

LEMMA Available ==
    ASSUME HardwareTypes
    PROVE  /\ avail \in 0 .. FIFO_SIZE - 1 /\ avail \in Nat /\ (data_ready <=> avail > 0)
           /\ full <=> avail = FIFO_SIZE - 1
<1>1. FIFO_SIZE \in Nat /\ FIFO_SIZE > 1 /\ fifo_in_ptr \in Pointers /\ fifo_out_ptr \in Pointers
  BY ConsoleAssumption DEF HardwareTypes
<1>2. /\ avail = IF fifo_in_ptr >= fifo_out_ptr THEN fifo_in_ptr - fifo_out_ptr
                 ELSE (fifo_in_ptr - fifo_out_ptr) + FIFO_SIZE
      /\ avail \in 0 .. FIFO_SIZE - 1
  BY <1>1, Distance DEF avail
<1> QED
  BY <1>1, <1>2 DEF Pointers, data_ready, full

-----------------------------------------------------------------------------
(* The steps of the hardware. *)

LEMMA SendKeeps == ASSUME FifoInv, NEW b \in Keys, Send(b) PROVE FifoInv'
<1>1. /\ HardwareTypes /\ wire = NoByte /\ ~full /\ wire' = b /\ queue' = Append(queue, b)
      /\ UNCHANGED <<fifo_buf, fifo_in_ptr, fifo_out_ptr, held>>
  BY DEF FifoInv, Send
<1>2. b # NoByte /\ avail \in Nat
  BY <1>1, Available, ConsoleAssumption DEF NoByte
<1>3. avail' = avail /\ Held' = Held /\ Held \in {0, 1} /\ Wired = 0 /\ Wired' = 1
  BY <1>1, <1>2 DEF avail, Held, Wired
<1>4. HardwareTypes'
  BY <1>1 DEF HardwareTypes
<1>5. /\ Len(queue) = avail + Held /\ Len(queue') = Len(queue) + 1
      /\ queue'[Len(queue) + 1] = b
      /\ \A k \in 1 .. Len(queue) : queue'[k] = queue[k]
  BY <1>1, <1>2, <1>3 DEF FifoInv, QueueInv, HardwareTypes
<1>6. QueueInv'
  <2>1. \A k \in 1 .. avail : queue'[k] = fifo_buf'[Slot(k)']
    BY <1>1, <1>2, <1>3, <1>5 DEF FifoInv, QueueInv, Slot
  <2>2. held # NoByte => queue'[avail + 1] = held
    BY <1>2, <1>3, <1>5 DEF FifoInv, QueueInv, Held
  <2> QED
    BY <1>1, <1>2, <1>3, <1>5, <2>1, <2>2 DEF QueueInv
<1>7. RoomInv'
  BY <1>1, <1>3 DEF RoomInv, full
<1> QED
  BY <1>4, <1>6, <1>7 DEF FifoInv

LEMMA ArriveKeeps == ASSUME FifoInv, Arrive PROVE FifoInv'
<1>1. /\ HardwareTypes /\ wire # NoByte /\ held = NoByte /\ held' = wire /\ wire' = NoByte
      /\ UNCHANGED <<fifo_buf, fifo_in_ptr, fifo_out_ptr, queue>>
  BY DEF FifoInv, RoomInv, Arrive
<1>2. avail' = avail /\ avail \in Nat /\ Held = 0 /\ Held' = 1 /\ Wired = 1 /\ Wired' = 0
  BY <1>1, Available DEF avail, Held, Wired
<1>3. HardwareTypes'
  BY <1>1 DEF HardwareTypes
<1>4. QueueInv'
  BY <1>1, <1>2 DEF FifoInv, QueueInv, Slot
<1>5. RoomInv'
  BY <1>1 DEF RoomInv
<1> QED
  BY <1>3, <1>4, <1>5 DEF FifoInv

LEMMA WriteAdds ==
    ASSUME FifoInv, fifo_write
    PROVE  fifo_in_ptr' \in Pointers /\ avail' = avail + 1
<1>1. /\ HardwareTypes /\ ~full /\ fifo_in_ptr' = (fifo_in_ptr + 1) % FIFO_SIZE /\ UNCHANGED fifo_out_ptr
  BY DEF FifoInv, fifo_write
<1>2. /\ FIFO_SIZE \in Nat /\ FIFO_SIZE > 1 /\ fifo_in_ptr \in Pointers /\ fifo_out_ptr \in Pointers
      /\ avail \in Nat /\ avail < FIFO_SIZE - 1
  BY <1>1, Available, ConsoleAssumption DEF HardwareTypes
<1>3. /\ fifo_in_ptr' \in Pointers
      /\ fifo_in_ptr' = IF fifo_in_ptr + 1 = FIFO_SIZE THEN 0 ELSE fifo_in_ptr + 1
  BY <1>1, <1>2, NextPointer
<1>4. avail = IF fifo_in_ptr >= fifo_out_ptr THEN fifo_in_ptr - fifo_out_ptr
              ELSE (fifo_in_ptr - fifo_out_ptr) + FIFO_SIZE
  BY <1>2, Distance DEF avail
<1>5. avail' = IF fifo_in_ptr' >= fifo_out_ptr THEN fifo_in_ptr' - fifo_out_ptr
               ELSE (fifo_in_ptr' - fifo_out_ptr) + FIFO_SIZE
  BY <1>1, <1>2, <1>3, Distance DEF avail
<1> QED
  BY <1>2, <1>3, <1>4, <1>5 DEF Pointers

LEMMA WriteKeeps == ASSUME FifoInv, fifo_write PROVE FifoInv'
<1>1. /\ HardwareTypes /\ held # NoByte /\ ~full /\ held' = NoByte
      /\ fifo_buf' = [fifo_buf EXCEPT ![fifo_in_ptr] = held]
      /\ UNCHANGED <<fifo_out_ptr, wire, queue>>
  BY DEF FifoInv, fifo_write
<1>2. /\ FIFO_SIZE \in Nat /\ FIFO_SIZE > 1 /\ fifo_in_ptr \in Pointers /\ fifo_out_ptr \in Pointers
      /\ avail \in Nat /\ avail < FIFO_SIZE - 1
  BY <1>1, Available, ConsoleAssumption DEF HardwareTypes
<1>3. fifo_in_ptr' \in Pointers
  BY WriteAdds
<1>4. avail = IF fifo_in_ptr >= fifo_out_ptr THEN fifo_in_ptr - fifo_out_ptr
              ELSE (fifo_in_ptr - fifo_out_ptr) + FIFO_SIZE
  BY <1>2, Distance DEF avail
<1>5. avail' = avail + 1
  BY WriteAdds
<1>6. Held = 1 /\ Held' = 0 /\ Wired' = Wired /\ Wired \in {0, 1}
  BY <1>1 DEF Held, Wired
<1>7. HardwareTypes'
  BY <1>1, <1>3 DEF HardwareTypes
<1>8. \A k \in 1 .. FIFO_SIZE : Slot(k)' = Slot(k)
  BY <1>1 DEF Slot
<1>9. Slot(avail + 1) = fifo_in_ptr
  <2>1. Slot(avail + 1) = IF fifo_out_ptr + (avail + 1) - 1 < FIFO_SIZE THEN fifo_out_ptr + (avail + 1) - 1
                          ELSE (fifo_out_ptr + (avail + 1) - 1) - FIFO_SIZE
    BY <1>2, Place, SMTT(30) DEF Slot
  <2> QED
    BY <1>2, <1>4, <2>1 DEF Pointers
<1>10. \A k \in 1 .. avail : Slot(k) # fifo_in_ptr /\ Slot(k) \in Pointers
  <2> SUFFICES ASSUME NEW k \in 1 .. avail PROVE Slot(k) # fifo_in_ptr /\ Slot(k) \in Pointers
    OBVIOUS
  <2>1. /\ Slot(k) = IF fifo_out_ptr + k - 1 < FIFO_SIZE THEN fifo_out_ptr + k - 1
                     ELSE (fifo_out_ptr + k - 1) - FIFO_SIZE
        /\ Slot(k) \in Pointers
    BY <1>2, Place DEF Slot
  <2> QED
    BY <1>2, <1>4, <2>1 DEF Pointers
<1>11. fifo_buf'[fifo_in_ptr] = held /\ \A k \in 1 .. avail : fifo_buf'[Slot(k)] = fifo_buf[Slot(k)]
  BY <1>1, <1>2, <1>10 DEF HardwareTypes
<1>12. \A k \in 1 .. avail + 1 : queue[k] = fifo_buf'[Slot(k)]
  <2>1. queue[avail + 1] = fifo_buf'[Slot(avail + 1)]
    BY <1>1, <1>9, <1>11 DEF FifoInv, QueueInv
  <2>2. \A k \in 1 .. avail : queue[k] = fifo_buf'[Slot(k)]
    BY <1>11 DEF FifoInv, QueueInv
  <2>3. \A k \in 1 .. avail + 1 : k = avail + 1 \/ k \in 1 .. avail
    BY <1>2
  <2> QED
    BY <2>1, <2>2, <2>3
<1>13. \A k \in 1 .. avail' : queue'[k] = fifo_buf'[Slot(k)']
  BY <1>1, <1>2, <1>5, <1>8, <1>12
<1>14. Len(queue') = avail' + Held' + Wired' /\ (wire # NoByte => queue[avail' + Held' + 1] = wire)
  BY <1>1, <1>2, <1>5, <1>6 DEF FifoInv, QueueInv
<1>15. QueueInv'
  BY <1>1, <1>13, <1>14 DEF QueueInv
<1>16. RoomInv'
  BY <1>1 DEF RoomInv
<1> QED
  BY <1>7, <1>15, <1>16 DEF FifoInv

LEMMA ReadKeeps == ASSUME FifoInv, fifo_read PROVE FifoInv'
<1>1. /\ HardwareTypes /\ data_ready /\ fifo_out_ptr' = (fifo_out_ptr + 1) % FIFO_SIZE
      /\ queue' = Tail(queue) /\ UNCHANGED <<fifo_buf, fifo_in_ptr, held, wire>>
  BY DEF FifoInv, fifo_read
<1>2. /\ FIFO_SIZE \in Nat /\ FIFO_SIZE > 1 /\ fifo_in_ptr \in Pointers /\ fifo_out_ptr \in Pointers
      /\ avail \in Nat /\ avail > 0 /\ avail < FIFO_SIZE
  BY <1>1, Available, ConsoleAssumption DEF HardwareTypes
<1>3. /\ fifo_out_ptr' \in Pointers
      /\ fifo_out_ptr' = IF fifo_out_ptr + 1 = FIFO_SIZE THEN 0 ELSE fifo_out_ptr + 1
  BY <1>1, <1>2, NextPointer
<1>4. avail = IF fifo_in_ptr >= fifo_out_ptr THEN fifo_in_ptr - fifo_out_ptr
              ELSE (fifo_in_ptr - fifo_out_ptr) + FIFO_SIZE
  BY <1>2, Distance DEF avail
<1>5. avail' = IF fifo_in_ptr >= fifo_out_ptr' THEN fifo_in_ptr - fifo_out_ptr'
               ELSE (fifo_in_ptr - fifo_out_ptr') + FIFO_SIZE
  BY <1>1, <1>2, <1>3, Distance DEF avail
<1>6. avail' = avail - 1
  BY <1>2, <1>3, <1>4, <1>5 DEF Pointers
<1>7. Held' = Held /\ Held \in {0, 1} /\ Wired' = Wired /\ Wired \in {0, 1}
  BY <1>1 DEF Held, Wired
<1>8. Len(queue) = avail + Held + Wired /\ Len(queue) > 0 /\ queue \in Seq(Keys)
  BY <1>1, <1>2, <1>7 DEF FifoInv, QueueInv, HardwareTypes
<1>9. /\ queue' \in Seq(Keys) /\ Len(queue') = Len(queue) - 1
      /\ \A k \in 1 .. Len(queue) - 1 : queue'[k] = queue[k + 1]
  BY <1>1, <1>8
<1>10. HardwareTypes'
  BY <1>1, <1>3, <1>9 DEF HardwareTypes
<1>11. \A k \in 1 .. avail - 1 : Slot(k)' = Slot(k + 1)
  <2> SUFFICES ASSUME NEW k \in 1 .. avail - 1 PROVE Slot(k)' = Slot(k + 1)
    OBVIOUS
  <2>1. k \in 1 .. FIFO_SIZE /\ k + 1 \in 1 .. FIFO_SIZE
    BY <1>2
  <2>2. Slot(k)' = (fifo_out_ptr' + k - 1) % FIFO_SIZE
    BY DEF Slot
  <2>3. Slot(k)' = IF fifo_out_ptr' + k - 1 < FIFO_SIZE THEN fifo_out_ptr' + k - 1
                   ELSE (fifo_out_ptr' + k - 1) - FIFO_SIZE
    BY <1>3, <2>1, <2>2, Place
  <2>4. Slot(k + 1) = IF fifo_out_ptr + (k + 1) - 1 < FIFO_SIZE THEN fifo_out_ptr + (k + 1) - 1
                      ELSE (fifo_out_ptr + (k + 1) - 1) - FIFO_SIZE
    BY <1>2, <2>1, Place DEF Slot
  <2> QED
    BY <1>2, <1>3, <2>3, <2>4 DEF Pointers
<1>12. \A k \in 1 .. avail' : queue'[k] = fifo_buf'[Slot(k)']
  <2> SUFFICES ASSUME NEW k \in 1 .. avail - 1 PROVE queue'[k] = fifo_buf[Slot(k)']
    BY <1>1, <1>6
  <2>1. k + 1 \in 1 .. avail /\ k \in 1 .. Len(queue) - 1
    BY <1>2, <1>7, <1>8
  <2>2. queue[k + 1] = fifo_buf[Slot(k + 1)]
    BY <2>1 DEF FifoInv, QueueInv
  <2> QED
    BY <1>9, <1>11, <2>1, <2>2
<1>13. held # NoByte => queue'[avail' + 1] = held
  <2> SUFFICES ASSUME held # NoByte PROVE queue'[avail' + 1] = held
    OBVIOUS
  <2>1. queue[avail + 1] = held /\ Held = 1
    BY DEF FifoInv, QueueInv, Held
  <2>2. avail' + 1 \in 1 .. Len(queue) - 1 /\ (avail' + 1) + 1 = avail + 1
    BY <1>2, <1>6, <1>7, <1>8, <2>1
  <2> QED
    BY <1>9, <2>1, <2>2
<1>14. wire # NoByte => queue'[avail' + Held' + 1] = wire
  <2> SUFFICES ASSUME wire # NoByte PROVE queue'[avail' + Held + 1] = wire
    BY <1>7
  <2>1. queue[avail + Held + 1] = wire /\ Wired = 1
    BY DEF FifoInv, QueueInv, Wired
  <2>2. avail' + Held + 1 \in 1 .. Len(queue) - 1 /\ (avail' + Held + 1) + 1 = avail + Held + 1
    BY <1>2, <1>6, <1>7, <1>8, <2>1
  <2> QED
    BY <1>9, <2>1, <2>2
<1>15. Len(queue') = avail' + Held' + Wired'
  BY <1>2, <1>6, <1>7, <1>8, <1>9
<1>16. QueueInv'
  BY <1>1, <1>12, <1>13, <1>14, <1>15 DEF QueueInv
<1>17. RoomInv'
  BY <1>1, <1>2, <1>6 DEF RoomInv, full
<1> QED
  BY <1>10, <1>16, <1>17 DEF FifoInv

LEMMA FifoKept == FifoInv /\ UNCHANGED <<hardware, queue>> => FifoInv'
BY DEF hardware, FifoInv, HardwareTypes, QueueInv, RoomInv, avail, full, Held, Wired, Slot

LEMMA FifoInit == ConsoleInit => FifoInv
<1> SUFFICES ASSUME ConsoleInit PROVE FifoInv
  OBVIOUS
<1>1. /\ FIFO_SIZE \in Nat /\ FIFO_SIZE > 1 /\ 0 \in Pointers
  BY ConsoleAssumption DEF Pointers
<1>2. /\ fifo_buf = [k \in Pointers |-> NoByte] /\ fifo_in_ptr = 0 /\ fifo_out_ptr = 0
      /\ held = NoByte /\ wire = NoByte /\ queue = <<>>
  BY DEF ConsoleInit, Pointers
<1>3. HardwareTypes
  BY <1>1, <1>2 DEF HardwareTypes
<1>4. avail = 0 /\ Held = 0 /\ Wired = 0
  <2>1. 0 - 0 = 0 /\ 0 % FIFO_SIZE = 0
    BY <1>1
  <2> QED
    BY <1>2, <2>1 DEF avail, Held, Wired
<1>5. QueueInv
  BY <1>2, <1>4 DEF QueueInv
<1> QED
  BY <1>2, <1>3, <1>5 DEF FifoInv, RoomInv

LEMMA FifoStep == FifoInv /\ [ConsoleNext]_consvars => FifoInv'
<1> SUFFICES ASSUME FifoInv, [ConsoleNext]_consvars PROVE FifoInv'
  OBVIOUS
<1>1. CASE Terminal
  BY <1>1, SendKeeps, ArriveKeeps, WriteKeeps DEF Terminal
<1>2. CASE console_read_raw \/ console_read_interactive
  BY <1>2, ReadKeeps DEF console_read_raw, console_read_interactive
<1>3. CASE Forget \/ PollOne \/ PollRound
  BY <1>3, FifoKept DEF Forget, PollOne, PollRound
<1>4. CASE Program
  BY <1>4, FifoKept DEF Program, console_read, console_write, console_ioctl, SYS_poll
<1>5. CASE Tick
  BY <1>5, FifoKept DEF Tick
<1>6. CASE UNCHANGED consvars
  BY <1>6, FifoKept DEF consvars
<1> QED
  BY <1>1, <1>2, <1>3, <1>4, <1>5, <1>6 DEF ConsoleNext, Kernel

LEMMA FifoInvariant == ConsoleSpec => []FifoInv
BY FifoInit, FifoStep, PTL DEF ConsoleSpec

LEMMA OneByte ==
    ASSUME NEW b \in Keys \cup {NoByte}
    PROVE  /\ Byte(b) \in Seq(Keys) /\ Len(Byte(b)) = IF b = NoByte THEN 0 ELSE 1
           /\ b # NoByte => Byte(b)[1] = b
<1>1. CASE b = NoByte
  BY <1>1 DEF Byte
<1>2. CASE b # NoByte
  BY <1>2 DEF Byte
<1> QED
  BY <1>1, <1>2

LEMMA InOrder == FifoInv => NothingLost
<1> SUFFICES ASSUME FifoInv PROVE NothingLost
  OBVIOUS
<1>1. /\ HardwareTypes /\ QueueInv /\ avail \in Nat
  BY Available DEF FifoInv
<1> DEFINE h == Byte(held)
           w == Byte(wire)
           fh == InFifo \o h
           all == fh \o w
<1>2. /\ queue \in Seq(Keys) /\ Len(queue) = avail + Held + Wired
      /\ Held \in {0, 1} /\ Wired \in {0, 1}
  BY <1>1 DEF HardwareTypes, QueueInv, Held, Wired
<1>3. \A k \in 1 .. avail : queue[k] \in Keys
  BY <1>1, <1>2
<1>4. InFifo = [k \in 1 .. avail |-> queue[k]]
  BY <1>1 DEF InFifo, QueueInv, Slot
<1>5. InFifo \in Seq(Keys) /\ Len(InFifo) = avail /\ \A k \in 1 .. avail : InFifo[k] = queue[k]
  <2>1. InFifo \in [1 .. avail -> Keys]
    BY <1>3, <1>4
  <2>2. InFifo \in Seq(Keys)
    BY <1>1, <2>1, SeqDef
  <2>3. Len(InFifo) = avail
    BY <1>1, <2>1, <2>2, LenProperties
  <2> QED
    BY <1>4, <2>2, <2>3
<1>6. h \in Seq(Keys) /\ Len(h) = Held /\ (held # NoByte => h[1] = held)
  BY <1>1, OneByte DEF HardwareTypes, Held
<1>7. w \in Seq(Keys) /\ Len(w) = Wired /\ (wire # NoByte => w[1] = wire)
  BY <1>1, OneByte DEF HardwareTypes, Wired
<1> HIDE DEF h, w
<1>8. /\ fh \in Seq(Keys) /\ Len(fh) = avail + Held
      /\ \A k \in 1 .. avail + Held : fh[k] = IF k <= avail THEN InFifo[k] ELSE h[k - avail]
  BY <1>5, <1>6, ConcatProperties
<1>9. \A k \in 1 .. avail + Held : fh[k] = queue[k]
  <2> SUFFICES ASSUME NEW k \in 1 .. avail + Held PROVE fh[k] = queue[k]
    OBVIOUS
  <2>1. CASE k <= avail
    BY <1>1, <1>2, <1>5, <1>8, <2>1
  <2>2. CASE ~(k <= avail)
    <3>1. k = avail + 1 /\ Held = 1 /\ k - avail = 1
      BY <1>1, <1>2, <2>2
    <3>2. held # NoByte
      BY <3>1 DEF Held
    <3> HIDE DEF fh
    <3>3. fh[k] = h[k - avail]
      BY <1>8, <2>2
    <3> QED
      BY <1>1, <1>6, <3>1, <3>2, <3>3 DEF QueueInv
  <2> QED
    BY <2>1, <2>2
<1> HIDE DEF fh
<1>10. /\ all \in Seq(Keys) /\ Len(all) = (avail + Held) + Wired
       /\ \A k \in 1 .. (avail + Held) + Wired :
             all[k] = IF k <= avail + Held THEN fh[k] ELSE w[k - (avail + Held)]
  <2>1. /\ all \in Seq(Keys) /\ Len(all) = Len(fh) + Len(w)
        /\ \A k \in 1 .. Len(fh) + Len(w) : all[k] = IF k <= Len(fh) THEN fh[k] ELSE w[k - Len(fh)]
    <3>1. fh \in Seq(Keys) /\ w \in Seq(Keys)
      BY <1>7, <1>8
    <3> QED
      BY <3>1, ConcatProperties
  <2> HIDE DEF all
  <2>2. Len(fh) = avail + Held /\ Len(w) = Wired
    BY <1>7, <1>8
  <2> QED
    BY <2>1, <2>2
<1> HIDE DEF all
<1>11. \A k \in 1 .. (avail + Held) + Wired : all[k] = queue[k]
  <2> SUFFICES ASSUME NEW k \in 1 .. (avail + Held) + Wired PROVE all[k] = queue[k]
    OBVIOUS
  <2>1. CASE k <= avail + Held
    BY <1>1, <1>2, <1>9, <1>10, <2>1
  <2>2. CASE ~(k <= avail + Held)
    <3>1. k = avail + Held + 1 /\ Wired = 1 /\ k - (avail + Held) = 1
      BY <1>1, <1>2, <2>2
    <3>2. wire # NoByte
      BY <3>1 DEF Wired
    <3>3. all[k] = w[k - (avail + Held)]
      BY <1>10, <2>2
    <3> QED
      BY <1>1, <1>7, <3>1, <3>2, <3>3 DEF QueueInv
  <2> QED
    BY <2>1, <2>2
<1>12. Len(all) = Len(queue)
  BY <1>1, <1>2, <1>10
<1>13. queue = all
  BY <1>2, <1>10, <1>11, <1>12, SeqEqual
<1> QED
  BY <1>13 DEF NothingLost, all, fh, h, w

\* The UART's FIFO (fifo.v, fifo_uart.v), for every size and every interleaving of the
\* terminal, the hardware and the reads of console.c: each byte that cts allowed is
\* delivered once and in order, also when the FIFO fills up with a byte in the
\* receive register and one on the wire.
THEOREM FifoLosesNothing == ConsoleSpec => []NothingLost
BY FifoInvariant, InOrder, PTL

-----------------------------------------------------------------------------
(* poll.c *)

ReadForm(c) == c = [op |-> c.op, left |-> c.left, buf |-> c.buf, keys |-> c.keys, at |-> c.at]

PollForm(c) ==
    c = [op |-> c.op, fds |-> c.fds, i |-> c.i, timeout |-> c.timeout, since |-> c.since,
         end |-> c.end, revents |-> c.revents, ready |-> c.ready, seen |-> c.seen]

PollTypes(c) ==
    /\ c.fds \in Seq(Int) /\ c.i \in 1 .. Len(c.fds) + 1 /\ c.timeout \in Int /\ c.since \in Nat
    /\ c.revents \in [1 .. Len(c.fds) -> {"", "POLLIN", "POLLERR"}]
    /\ c.ready \in Nat /\ c.seen \in Nat /\ c.end \in Int

\* The descriptors that this round has looked at and reported.
Marked(c) == {k \in 1 .. Len(c.fds) : k < c.i /\ c.fds[k] >= 0 /\ c.revents[k] # ""}

\* What a poll keeps up from round to round, with a bytes in the FIFO at time t.
PollOK(c, a, t) ==
    /\ PollForm(c) /\ PollTypes(c)
    /\ c.ready = Cardinality(Marked(c))
    /\ \A k \in 1 .. Len(c.fds) :
          k < c.i /\ c.fds[k] >= 0 /\ c.revents[k] = "POLLIN" => c.fds[k] = ConsoleFd /\ a > 0
    /\ c.ready = 0 => c.seen = 0
    /\ c.timeout >= 0 => c.end = c.since + c.timeout
    /\ c.op = "polled" => c.i > Len(c.fds)
    /\ c.op = "polled" /\ c.ready = 0 => c.timeout # 0 /\ t >= c.end

ReadOps == {"raw", "line", "done"}
PollOps == {"poll", "polled"}

CallOK ==
    /\ call.op \in {"idle"} \cup ReadOps \cup PollOps
    /\ call.op \in ReadOps => ReadForm(call)
    /\ call.op \in PollOps => PollOK(call, avail, now)

PollInv == FifoInv /\ now \in 0 .. MaxTime /\ CallOK

LEMMA MarkedFinite == ASSUME NEW c, PollTypes(c) PROVE IsFiniteSet(Marked(c))
<1>0. c.fds \in Seq(Int)
  BY DEF PollTypes
<1>1. Len(c.fds) \in Nat
  BY <1>0
<1>2. IsFiniteSet(1 .. Len(c.fds))
  BY <1>1, FS_Interval
<1>3. Marked(c) \subseteq 1 .. Len(c.fds)
  BY DEF Marked
<1> QED
  BY <1>2, <1>3, FS_Subset

\* Bytes arrive while a poll runs; nobody takes any.
LEMMA PollSees ==
    ASSUME NEW c, NEW a \in Nat, NEW a2 \in Nat, NEW t \in Nat, NEW t2 \in Nat,
           PollOK(c, a, t), a <= a2, t <= t2
    PROVE  PollOK(c, a2, t2)
<1>1. c.end \in Int
  BY DEF PollOK, PollTypes
<1>2. \A k \in 1 .. Len(c.fds) :
          k < c.i /\ c.fds[k] >= 0 /\ c.revents[k] = "POLLIN" => c.fds[k] = ConsoleFd /\ a2 > 0
  <2>1. \A k \in 1 .. Len(c.fds) :
          k < c.i /\ c.fds[k] >= 0 /\ c.revents[k] = "POLLIN" => c.fds[k] = ConsoleFd /\ a > 0
    BY DEF PollOK
  <2>2. a > 0 => a2 > 0
    OBVIOUS
  <2> QED
    BY <2>1, <2>2, Zenon
<1>3. c.op = "polled" /\ c.ready = 0 => c.timeout # 0 /\ t2 >= c.end
  BY <1>1 DEF PollOK
<1> QED
  BY <1>2, <1>3 DEF PollOK

LEMMA StartPoll ==
    ASSUME PollInv, NEW fds \in PollLists, NEW timeout \in Timeouts, SYS_poll(fds, timeout)
    PROVE  PollInv'
<1>1. /\ fds \in Seq(Int) /\ timeout \in Int /\ now \in Nat /\ Len(fds) \in Nat
      /\ DOMAIN fds = 1 .. Len(fds)
  BY ConsoleAssumption DEF PollInv
<1> DEFINE end == (now + timeout) % TimeMod
<1>2. PICK revents \in [DOMAIN fds -> Stale] :
      /\ call' = [op |-> "poll", fds |-> fds, i |-> 1, timeout |-> timeout, since |-> now,
                  end |-> end, revents |-> revents, ready |-> 0, seen |-> 0]
      /\ now + timeout <= MaxTime /\ UNCHANGED <<hardware, now, queue>>
  BY DEF SYS_poll
<1>3. end \in Int /\ (timeout >= 0 => end = now + timeout)
  <2>1. TimeMod \in Nat /\ TimeMod > 0 /\ MaxTime < TimeMod /\ MaxTime \in Nat
    BY ConsoleAssumption
  <2>2. now + timeout \in Int
    BY <1>1
  <2>3. timeout >= 0 => 0 <= now + timeout /\ now + timeout < TimeMod
    <3>1. now + timeout <= MaxTime
      BY <1>2
    <3> QED
      BY <1>1, <2>1, <3>1
  <2>4. end \in Int
    BY <2>1, <2>2
  <2> QED
    BY <2>1, <2>2, <2>3, <2>4, Remainder
<1>4. revents \in [1 .. Len(fds) -> {"", "POLLIN", "POLLERR"}] /\ \A k \in 1 .. Len(fds) : ~(k < 1)
  <2>1. DOMAIN fds = 1 .. Len(fds) /\ \A k \in 1 .. Len(fds) : ~(k < 1)
    BY <1>1
  <2>2. revents \in [DOMAIN fds -> {"", "POLLIN", "POLLERR"}]
    BY <1>2, StaleAssumption, Zenon
  <2> QED
    BY <2>1, <2>2, Zenon
<1> HIDE DEF end
<1> DEFINE c == call'
<1>5. /\ c.op = "poll" /\ c.fds = fds /\ c.i = 1 /\ c.timeout = timeout /\ c.since = now
      /\ c.end = end /\ c.revents = revents /\ c.ready = 0 /\ c.seen = 0 /\ PollForm(c)
  BY <1>2 DEF PollForm
<1> HIDE DEF c
<1>6. PollTypes(c)
  <2>1. 1 \in 1 .. Len(fds) + 1 /\ 0 \in Nat
    BY <1>1
  <2> QED
    BY <1>1, <1>3, <1>4, <1>5, <2>1, Zenon DEF PollTypes
<1>7. Cardinality(Marked(c)) = 0
  <2>1. Marked(c) = {}
    BY <1>4, <1>5 DEF Marked
  <2> QED
    BY <2>1, FS_EmptySet
<1>8. PollOK(c, avail', now')
  BY <1>1, <1>3, <1>4, <1>5, <1>6, <1>7 DEF PollOK
<1>9. FifoInv' /\ now' \in 0 .. MaxTime
  BY <1>2, FifoKept DEF PollInv
<1> QED
  BY <1>5, <1>8, <1>9 DEF PollInv, CallOK, PollOps, ReadOps, c

\* One descriptor: marked at most once in a round, POLLIN only with bytes in the FIFO.
LEMMA OnePolled == ASSUME PollInv, PollOne PROVE PollInv'
<1>1. call.op = "poll" /\ call.i <= Len(call.fds) /\ UNCHANGED <<hardware, now, queue>>
  BY DEF PollOne
<1>2. PollForm(call) /\ PollTypes(call) /\ PollOK(call, avail, now)
  BY <1>1 DEF PollInv, CallOK, PollOps, PollOK
<1>3. avail' = avail /\ now' = now /\ avail \in Nat
  BY <1>1, Available DEF hardware, avail, PollInv, FifoInv
<1> DEFINE fd == call.fds[call.i]
           bytes == SYS_peek(fd)
           event == CASE bytes < 0 -> "POLLERR" [] bytes = 0 -> "" [] OTHER -> "POLLIN"
           one == IF event = "" THEN 0 ELSE 1
           c == call'
<1>4. call.i \in 1 .. Len(call.fds) /\ call.i + 1 \in 1 .. Len(call.fds) + 1 /\ fd \in Int
  <2>1. call.fds \in Seq(Int) /\ call.i \in 1 .. Len(call.fds) + 1
    BY <1>2 DEF PollTypes
  <2>2. Len(call.fds) \in Nat
    BY <2>1
  <2>3. call.i \in 1 .. Len(call.fds) /\ call.i + 1 \in 1 .. Len(call.fds) + 1
    BY <1>1, <2>1, <2>2
  <2> QED
    BY <2>1, <2>3
<1>5. /\ event \in {"", "POLLIN", "POLLERR"}
      /\ event = "POLLIN" => fd = ConsoleFd /\ avail > 0
      /\ fd = ConsoleFd => bytes \in Nat /\ (event = "" => bytes = 0)
  <2>1. bytes = IF fd = ConsoleFd THEN avail ELSE -1
    BY DEF SYS_peek, console_peek
  <2> HIDE DEF bytes, fd
  <2> QED
    BY <1>3, <2>1
<1> HIDE DEF event, bytes
<1>6. CASE fd < 0
  <2>1. call' = [call EXCEPT !.i = call.i + 1]
    BY <1>6 DEF PollOne
  <2> DEFINE next == call.i + 1
  <2> HIDE DEF next
  <2>2. call' = [call EXCEPT !.i = next]
    BY <2>1 DEF next
  <2>3. /\ c.op = call.op /\ c.fds = call.fds /\ c.i = next /\ c.timeout = call.timeout
        /\ c.since = call.since /\ c.end = call.end /\ c.revents = call.revents
        /\ c.ready = call.ready /\ c.seen = call.seen /\ PollForm(c)
    BY <1>2, <2>2 DEF PollForm
  <2> HIDE DEF c
  <2>4. PollTypes(c)
    BY <1>2, <1>4, <2>3, Zenon DEF PollTypes, next
  <2>5. \A k \in 1 .. Len(call.fds) : k < next /\ call.fds[k] >= 0 <=> k < call.i /\ call.fds[k] >= 0
    <3> SUFFICES ASSUME NEW k \in 1 .. Len(call.fds), call.fds[k] >= 0 PROVE k < next <=> k < call.i
      OBVIOUS
    <3>1. k # call.i
      BY <1>4, <1>6
    <3> QED
      BY <1>4, <3>1 DEF next
  <2>7. Marked(c) = Marked(call)
    BY <2>3, <2>5, Zenon DEF Marked
  <2>8. \A k \in 1 .. Len(call.fds) : k < next /\ call.fds[k] >= 0 /\ call.revents[k] = "POLLIN"
           => call.fds[k] = ConsoleFd /\ avail > 0
    BY <1>2, <2>5, Zenon DEF PollOK
  <2>6. PollOK(c, avail, now)
    BY <1>1, <1>2, <2>3, <2>4, <2>7, <2>8, Zenon DEF PollOK
  <2> QED
    BY <1>1, <1>3, <2>3, <2>6, FifoKept DEF PollInv, CallOK, PollOps, ReadOps, c
<1>7. CASE ~(fd < 0)
  <2> DEFINE next == call.i + 1
             revents == [call.revents EXCEPT ![call.i] = event]
             ready == call.ready + one
             seen == IF fd = ConsoleFd THEN bytes ELSE call.seen
  <2>1. call' = [call EXCEPT !.i = next, !.revents = revents, !.ready = ready, !.seen = seen]
    <3>1. call' = [call EXCEPT !.i = @ + 1, !.revents[call.i] = event, !.ready = @ + one,
                               !.seen = IF fd = ConsoleFd THEN bytes ELSE @]
      BY <1>7 DEF PollOne, event, bytes
    <3> HIDE DEF one, fd
    <3> QED
      BY <1>2, <3>1 DEF PollForm
  <2>2. /\ ready \in Nat /\ seen \in Nat /\ (ready = 0 => event = "" /\ call.ready = 0)
    <3>1. call.ready \in Nat /\ call.seen \in Nat
      BY <1>2 DEF PollTypes
    <3>2. one \in {0, 1} /\ (one = 0 => event = "")
      <4>1. event = "" => one = 0
        OBVIOUS
      <4>2. event # "" => one = 1
        OBVIOUS
      <4> HIDE DEF one
      <4>3. one \in {0, 1}
        BY <4>1, <4>2, Zenon
      <4>4. one = 1 => one # 0
        OBVIOUS
      <4> QED
        BY <4>2, <4>3, <4>4, Zenon
    <3>3. seen \in Nat
      BY <1>5, <3>1
    <3> HIDE DEF one
    <3>4. ready \in Nat /\ (ready = 0 => one = 0 /\ call.ready = 0)
      <4>1. \A x \in Nat, y \in {0, 1} : x + y \in Nat /\ (x + y = 0 => y = 0 /\ x = 0)
        OBVIOUS
      <4> QED
        BY <3>1, <3>2, <4>1, Zenon
    <3> QED
      BY <3>2, <3>3, <3>4
  <2>3. /\ revents \in [1 .. Len(call.fds) -> {"", "POLLIN", "POLLERR"}] /\ revents[call.i] = event
        /\ \A k \in 1 .. Len(call.fds) : k # call.i => revents[k] = call.revents[k]
    BY <1>2, <1>4, <1>5 DEF PollTypes
  <2>4. ready = 0 => seen = 0
    <3>1. call.ready = 0 => call.seen = 0
      BY <1>2 DEF PollOK
    <3> QED
      BY <1>5, <2>2, <3>1
  <2> HIDE DEF next, revents, ready, seen
  <2>5. /\ c.op = call.op /\ c.fds = call.fds /\ c.i = next /\ c.timeout = call.timeout
        /\ c.since = call.since /\ c.end = call.end /\ c.revents = revents
        /\ c.ready = ready /\ c.seen = seen /\ PollForm(c)
    BY <1>2, <2>1 DEF PollForm
  <2> HIDE DEF c
  <2>6. PollTypes(c)
    BY <1>2, <1>4, <2>2, <2>3, <2>5, Zenon DEF PollTypes, next
  <2>7. \A k \in 1 .. Len(call.fds) : k < next <=> k < call.i \/ k = call.i
    BY <1>4 DEF next
  <2>8. call.fds[call.i] >= 0 /\ ~(call.i < call.i)
    BY <1>4, <1>7
  <2>10. ready = Cardinality(Marked(c))
    <3>1. call.ready = Cardinality(Marked(call)) /\ IsFiniteSet(Marked(call)) /\ call.ready \in Nat
      BY <1>2, MarkedFinite DEF PollOK, PollTypes
    <3>2. call.i \notin Marked(call)
      BY <2>8, Zenon DEF Marked
    <3>3. CASE event = ""
      <4>1. Marked(c) = Marked(call)
        <5>1. ASSUME NEW k \in 1 .. Len(call.fds)
              PROVE  k < next /\ call.fds[k] >= 0 /\ revents[k] # ""
                       <=> k < call.i /\ call.fds[k] >= 0 /\ call.revents[k] # ""
          BY <2>3, <2>7, <2>8, <3>3, Zenon
        <5> QED
          BY <2>5, <5>1, Zenon DEF Marked
      <4>2. ready = call.ready
        <5>1. one = 0
          BY <3>3
        <5> HIDE DEF one
        <5> QED
          BY <3>1, <5>1 DEF ready
      <4> QED
        BY <3>1, <4>1, <4>2
    <3>4. CASE event # ""
      <4>1. Marked(c) = Marked(call) \cup {call.i}
        <5>1. ASSUME NEW k \in 1 .. Len(call.fds)
              PROVE  k < next /\ call.fds[k] >= 0 /\ revents[k] # ""
                       <=> k = call.i \/ (k < call.i /\ call.fds[k] >= 0 /\ call.revents[k] # "")
          BY <2>3, <2>7, <2>8, <3>4, Zenon
        <5> QED
          BY <1>4, <2>5, <5>1, Zenon DEF Marked
      <4>2. ready = call.ready + 1
        BY <3>1, <3>4 DEF ready
      <4>3. Cardinality(Marked(call) \cup {call.i}) = Cardinality(Marked(call)) + 1
        BY <3>1, <3>2, FS_AddElement
      <4> QED
        BY <3>1, <4>1, <4>2, <4>3
    <3> QED
      BY <3>3, <3>4
  <2>11. \A k \in 1 .. Len(call.fds) : k < next /\ call.fds[k] >= 0 /\ revents[k] = "POLLIN"
            => call.fds[k] = ConsoleFd /\ avail > 0
    <3>1. \A k \in 1 .. Len(call.fds) : k < call.i /\ call.fds[k] >= 0 /\ call.revents[k] = "POLLIN"
             => call.fds[k] = ConsoleFd /\ avail > 0
      BY <1>2 DEF PollOK
    <3> QED
      BY <1>5, <2>3, <2>7, <2>8, <3>1, Zenon
  <2>12. PollOK(c, avail, now)
    BY <1>1, <1>2, <2>4, <2>5, <2>6, <2>10, <2>11, Zenon DEF PollOK
  <2> QED
    BY <1>1, <1>3, <2>5, <2>12, FifoKept DEF PollInv, CallOK, PollOps, ReadOps, c
<1> QED
  BY <1>6, <1>7

\* The end of a round: poll goes round again only with nothing marked.
LEMMA RoundPolled == ASSUME PollInv, PollRound PROVE PollInv'
<1>1. call.op = "poll" /\ call.i > Len(call.fds) /\ UNCHANGED <<hardware, now, queue>>
  BY DEF PollRound
<1>2. PollForm(call) /\ PollTypes(call) /\ PollOK(call, avail, now)
  BY <1>1 DEF PollInv, CallOK, PollOps, PollOK
<1>3. avail' = avail /\ now' = now /\ avail \in Nat /\ now \in Nat /\ Len(call.fds) \in Nat
  <2>1. call.fds \in Seq(Int)
    BY <1>2 DEF PollTypes
  <2> QED
    BY <1>1, <2>1, Available, ConsoleAssumption DEF hardware, avail, PollInv, FifoInv
<1> DEFINE c == call'
<1>4. CASE call.ready = 0 /\ GoesOn
  <2>1. call' = [call EXCEPT !.i = 1]
    BY <1>4 DEF PollRound
  <2>2. /\ c.op = call.op /\ c.fds = call.fds /\ c.i = 1 /\ c.timeout = call.timeout
        /\ c.since = call.since /\ c.end = call.end /\ c.revents = call.revents
        /\ c.ready = call.ready /\ c.seen = call.seen /\ PollForm(c)
    BY <1>2, <2>1 DEF PollForm
  <2> HIDE DEF c
  <2>3. 1 \in 1 .. Len(call.fds) + 1
    BY <1>3
  <2>4. PollTypes(c)
    BY <1>2, <2>2, <2>3, Zenon DEF PollTypes
  <2>5. \A k \in 1 .. Len(call.fds) : ~(k < 1)
    BY <1>3
  <2>7. Cardinality(Marked(c)) = 0
    <3>1. Marked(c) = {}
      BY <2>2, <2>5, Zenon DEF Marked
    <3> QED
      BY <3>1, FS_EmptySet
  <2>6. PollOK(c, avail, now)
    BY <1>1, <1>2, <1>4, <2>2, <2>4, <2>5, <2>7, Zenon DEF PollOK
  <2> QED
    BY <1>1, <1>3, <2>2, <2>6, FifoKept DEF PollInv, CallOK, PollOps, ReadOps, c
<1>5. CASE ~(call.ready = 0 /\ GoesOn)
  <2>1. call' = [call EXCEPT !.op = "polled"]
    BY <1>5 DEF PollRound
  <2>2. /\ c.op = "polled" /\ c.fds = call.fds /\ c.i = call.i /\ c.timeout = call.timeout
        /\ c.since = call.since /\ c.end = call.end /\ c.revents = call.revents
        /\ c.ready = call.ready /\ c.seen = call.seen /\ PollForm(c)
    BY <1>2, <2>1 DEF PollForm
  <2> HIDE DEF c
  <2>3. PollTypes(c) /\ Marked(c) = Marked(call)
    BY <1>2, <2>2, Zenon DEF PollTypes, Marked
  <2>4. call.ready = 0 => call.timeout # 0 /\ now >= call.end
    <3>1. call.end \in Int
      BY <1>2 DEF PollTypes
    <3> QED
      BY <1>3, <1>5, <3>1 DEF GoesOn
  <2>5. "polled" # "poll"
    OBVIOUS
  <2>6. PollOK(c, avail, now)
    BY <1>1, <1>2, <2>2, <2>3, <2>4, <2>5, Zenon DEF PollOK
  <2> QED
    BY <1>1, <1>3, <2>2, <2>6, FifoKept DEF PollInv, CallOK, PollOps, ReadOps, c
<1> QED
  BY <1>4, <1>5

\* A read's call stays a read's.
LEMMA Edited ==
    ASSUME NEW c, ReadForm(c), NEW l, NEW b
    PROVE  /\ ReadForm([c EXCEPT !.left = l, !.buf = b])
           /\ [c EXCEPT !.left = l, !.buf = b].op = c.op
<1>0. PICK o, m, x, k, t : c = [op |-> o, left |-> m, buf |-> x, keys |-> k, at |-> t]
  BY DEF ReadForm
<1> DEFINE e == [c EXCEPT !.left = l, !.buf = b]
<1>1. DOMAIN c = {"op", "left", "buf", "keys", "at"}
  BY <1>0
<1>2. DOMAIN e = {"op", "left", "buf", "keys", "at"} /\ e = [f \in DOMAIN e |-> e[f]]
  BY <1>1
<1>3. e.op = c.op /\ e.left = l /\ e.buf = b /\ e.keys = c.keys /\ e.at = c.at
  BY <1>1
<1>4. e = [op |-> c.op, left |-> l, buf |-> b, keys |-> c.keys, at |-> c.at]
  <2> HIDE DEF e
  <2> QED
    BY <1>2, <1>3
<1> QED
  BY <1>3, <1>4 DEF ReadForm

LEMMA Keyed ==
    ASSUME NEW c, ReadForm(c), NEW k
    PROVE  ReadForm([c EXCEPT !.keys = k]) /\ [c EXCEPT !.keys = k].op = c.op
<1>1. [c EXCEPT !.keys = k] = [op |-> c.op, left |-> c.left, buf |-> c.buf, keys |-> k, at |-> c.at]
  BY DEF ReadForm
<1> QED
  BY <1>1 DEF ReadForm

LEMMA Ended == ASSUME NEW c, ReadForm(c) PROVE ReadForm(Returned(c)) /\ Returned(c).op = "done"
<1>1. Returned(c) = [op |-> "done", left |-> c.left, buf |-> c.buf, keys |-> c.keys, at |-> c.at]
  BY DEF ReadForm, Returned
<1> QED
  BY <1>1 DEF ReadForm

LEMMA LineStays ==
    ASSUME NEW c, NEW b, ReadForm(c), c.op = "line"
    PROVE  ReadForm(LineByte(c, b).call) /\ LineByte(c, b).call.op \in {"line", "done"}
<1> DEFINE taken == [c EXCEPT !.left = c.left + 1, !.buf = Front(c.buf)]
           added == [c EXCEPT !.left = c.left - 1, !.buf = Append(c.buf, b)]
<1>1. [c EXCEPT !.buf = Front(@), !.left = @ + 1] = taken
  BY DEF ReadForm
<1>2. [c EXCEPT !.buf = Append(@, b), !.left = @ - 1] = added
  BY DEF ReadForm
<1>3. ReadForm(taken) /\ taken.op = "line" /\ ReadForm(added) /\ added.op = "line"
  <2>1. \A l, x : /\ ReadForm([c EXCEPT !.left = l, !.buf = x])
                  /\ [c EXCEPT !.left = l, !.buf = x].op = "line"
    BY Edited
  <2> QED
    BY <2>1
<1>4. /\ ReadForm(Returned(c)) /\ Returned(c).op = "done"
      /\ ReadForm(Returned(added)) /\ Returned(added).op = "done"
  BY <1>3, Ended
<1>5. LineByte(c, b).call \in {Returned(c), taken, c, Returned(added), added}
  <2> HIDE DEF taken, added
  <2>1. CASE b = CR
    <3>1. LineByte(c, b) = [call |-> Returned(c), echo |-> EchoCR]
      BY <2>1 DEF LineByte, CR, BS, DEL
    <3> QED
      BY <3>1
  <2>2. CASE b # CR /\ b \in {BS, DEL} /\ c.buf # <<>>
    BY <1>1, <2>2 DEF LineByte
  <2>3. CASE b # CR /\ b \in {BS, DEL} /\ c.buf = <<>>
    BY <2>3 DEF LineByte
  <2>4. CASE b # CR /\ b \notin {BS, DEL}
    BY <1>2, <2>4 DEF LineByte
  <2> QED
    BY <2>1, <2>2, <2>3, <2>4
<1> HIDE DEF taken, added
<1> QED
  BY <1>3, <1>4, <1>5

\* With no poll in progress only the form of the call matters.
LEMMA NotPolling ==
    ASSUME PollInv, FifoInv', UNCHANGED now,
           call'.op = "idle" \/ (call'.op \in ReadOps /\ ReadForm(call'))
    PROVE  PollInv'
<1>1. call'.op \notin PollOps
  BY DEF ReadOps, PollOps
<1> QED
  BY <1>1 DEF PollInv, CallOK, ReadOps

\* What the terminal and the clock do beside a call.
LEMMA Meanwhile ==
    ASSUME PollInv, FifoInv', UNCHANGED call, avail' \in Nat, avail <= avail',
           now' \in 0 .. MaxTime, now <= now'
    PROVE  PollInv'
<1>1. avail \in Nat /\ now \in Nat /\ now' \in Nat
  BY Available, ConsoleAssumption DEF PollInv, FifoInv
<1>2. call.op \in PollOps => PollOK(call, avail', now')
  <2>1. call.op \in PollOps => PollOK(call, avail, now)
    BY DEF PollInv, CallOK
  <2> QED
    BY <1>1, <2>1, PollSees
<1> QED
  BY <1>2 DEF PollInv, CallOK

LEMMA PollInit == ConsoleInit => PollInv
<1> SUFFICES ASSUME ConsoleInit PROVE PollInv
  OBVIOUS
<1>1. call.op = "idle" /\ now = 0
  BY DEF ConsoleInit, Idle
<1>2. now \in 0 .. MaxTime
  BY <1>1, ConsoleAssumption
<1> QED
  BY <1>1, <1>2, FifoInit DEF PollInv, CallOK, ReadOps, PollOps

LEMMA PollStep == PollInv /\ [ConsoleNext]_consvars => PollInv'
<1> SUFFICES ASSUME PollInv, [ConsoleNext]_consvars PROVE PollInv'
  OBVIOUS
<1>0. FifoInv /\ FifoInv' /\ avail \in Nat /\ now \in 0 .. MaxTime /\ now \in Nat /\ MaxTime \in Nat
  BY FifoStep, Available, ConsoleAssumption DEF PollInv, FifoInv
<1>1. ASSUME UNCHANGED <<hardware, call, now>> PROVE PollInv'
  <2>1. avail' = avail
    BY <1>1 DEF hardware, avail
  <2> QED
    BY <1>0, <1>1, <2>1, Meanwhile
<1>2. CASE Terminal
  <2>1. UNCHANGED <<call, now>> /\ (fifo_write \/ UNCHANGED <<fifo_in_ptr, fifo_out_ptr>>)
    BY <1>2 DEF Terminal, Send, Arrive, fifo_write
  <2>2. avail' = avail \/ avail' = avail + 1
    BY <1>0, <2>1, WriteAdds DEF avail
  <2>3. avail' \in Nat /\ avail <= avail'
    BY <1>0, <2>2
  <2> QED
    BY <1>0, <2>1, <2>3, Meanwhile
<1>3. CASE Forget
  BY <1>0, <1>3, NotPolling DEF Forget, Idle
<1>4. CASE console_read_raw
  <2> DEFINE left == call.left - 1
             buf == Append(call.buf, uart_byte)
             c == [call EXCEPT !.left = left, !.buf = buf]
  <2>1. call.op = "raw" /\ ReadForm(call)
    BY <1>4 DEF console_read_raw, PollInv, CallOK, ReadOps
  <2>2. [call EXCEPT !.left = @ - 1, !.buf = Append(@, uart_byte)] = c
    BY <2>1 DEF ReadForm
  <2>3. ReadForm(c) /\ c.op = "raw" /\ ReadForm(Returned(c)) /\ Returned(c).op = "done"
    <3> HIDE DEF left, buf
    <3>1. ReadForm(c) /\ c.op = "raw"
      BY <2>1, Edited
    <3> QED
      BY <3>1, Ended
  <2> HIDE DEF c
  <2>4. (call' = c \/ call' = Returned(c)) /\ UNCHANGED now
    BY <1>4, <2>2 DEF console_read_raw
  <2> QED
    BY <1>0, <2>3, <2>4, NotPolling DEF ReadOps
<1>5. CASE console_read_interactive
  <2> DEFINE keys == Append(call.keys, uart_byte)
             c == [call EXCEPT !.keys = keys]
  <2>1. call.op = "line" /\ ReadForm(call)
    BY <1>5 DEF console_read_interactive, PollInv, CallOK, ReadOps
  <2>2. [call EXCEPT !.keys = Append(@, uart_byte)] = c
    BY <2>1 DEF ReadForm
  <2>3. ReadForm(c) /\ c.op = "line"
    <3> HIDE DEF keys
    <3> QED
      BY <2>1, Keyed
  <2> HIDE DEF c
  <2>4. call' = LineByte(c, uart_byte).call /\ UNCHANGED now
    BY <1>5, <2>2 DEF console_read_interactive
  <2>5. ReadForm(call') /\ call'.op \in {"line", "done"}
    BY <2>3, <2>4, LineStays
  <2> QED
    BY <1>0, <2>4, <2>5, NotPolling DEF ReadOps
<1>6. CASE PollOne \/ PollRound
  BY <1>6, OnePolled, RoundPolled
<1>7. ASSUME NEW n \in Counts, console_read(n) PROVE PollInv'
  <2>1. /\ UNCHANGED now
        /\ \/ call' = Idle
           \/ \E op \in {"raw", "line"} :
                 call' = [op |-> op, left |-> n, buf |-> <<>>, keys |-> <<>>, at |-> screen.col]
    BY <1>7 DEF console_read
  <2>2. call'.op = "idle" \/ (call'.op \in ReadOps /\ ReadForm(call'))
    BY <2>1 DEF Idle, ReadOps, ReadForm
  <2> QED
    BY <1>0, <2>1, <2>2, NotPolling
<1>8. ASSUME NEW b, console_write(b) PROVE PollInv'
  BY <1>1, <1>8 DEF console_write
<1>9. ASSUME NEW r, console_ioctl(r) PROVE PollInv'
  BY <1>1, <1>9 DEF console_ioctl
<1>10. ASSUME NEW fds \in PollLists, NEW t \in Timeouts, SYS_poll(fds, t) PROVE PollInv'
  BY <1>10, StartPoll
<1>11. CASE Tick
  <2>1. UNCHANGED <<hardware, call>> /\ now' = now + 1 /\ now < MaxTime
    BY <1>11 DEF Tick
  <2>2. avail' = avail
    BY <2>1 DEF hardware, avail
  <2>3. now' \in 0 .. MaxTime /\ now <= now' /\ avail <= avail'
    BY <1>0, <2>1, <2>2
  <2> QED
    BY <1>0, <2>1, <2>2, <2>3, Meanwhile
<1>12. CASE UNCHANGED consvars
  BY <1>1, <1>12 DEF consvars
<1> QED
  BY <1>2, <1>3, <1>4, <1>5, <1>6, <1>7, <1>8, <1>9, <1>10, <1>11, <1>12
     DEF ConsoleNext, Kernel, Program

LEMMA PollEnds == PollInv => PollHonest
<1> DEFINE asked == {k \in DOMAIN call.fds : call.fds[k] >= 0}
<1> SUFFICES ASSUME PollInv, call.op = "polled", call.timeout >= 0 PROVE
             /\ call.ready = Cardinality({k \in asked : call.revents[k] # ""})
             /\ \A k \in asked :
                   call.revents[k] = "POLLIN" => call.fds[k] = ConsoleFd /\ avail > 0
             /\ call.ready = 0 => /\ call.timeout > 0 /\ now >= call.since + call.timeout
                                  /\ call.seen = 0
  BY DEF PollHonest
<1>1. PollOK(call, avail, now) /\ call.fds \in Seq(Int) /\ call.timeout \in Int /\ PollTypes(call)
  BY DEF PollInv, CallOK, PollOps, PollOK, PollTypes
<1>2. DOMAIN call.fds = 1 .. Len(call.fds) /\ \A k \in 1 .. Len(call.fds) : k < call.i
  <2>1. call.i > Len(call.fds)
    BY <1>1 DEF PollOK
  <2>2. Len(call.fds) \in Nat /\ DOMAIN call.fds = 1 .. Len(call.fds)
    BY <1>1
  <2>3. call.i \in 1 .. Len(call.fds) + 1
    BY <1>1, Zenon DEF PollTypes
  <2> QED
    BY <2>1, <2>2, <2>3
<1>3. call.ready = Cardinality({k \in asked : call.revents[k] # ""})
  <2>1. {k \in asked : call.revents[k] # ""} = Marked(call)
    BY <1>2, Zenon DEF Marked
  <2> QED
    BY <1>1, <2>1 DEF PollOK
<1>4. \A k \in asked :
         call.revents[k] = "POLLIN" => call.fds[k] = ConsoleFd /\ avail > 0
  BY <1>1, <1>2, Zenon DEF PollOK
<1>5. call.ready = 0 => call.timeout # 0 /\ now >= call.end /\ call.seen = 0
  BY <1>1 DEF PollOK
<1>6. call.end = call.since + call.timeout
  BY <1>1 DEF PollOK
<1>7. call.timeout # 0 => call.timeout > 0
  BY <1>1
<1> QED
  BY <1>3, <1>4, <1>5, <1>6, <1>7

\* poll.c for any list of descriptors, any timeout and any arrival of bytes between
\* its looks, whatever revents the caller passes: what it reports as readable of the
\* descriptors that are not negative is there to be read when it returns, it counts
\* each of them once though it goes round many times, and it gives up no sooner than
\* the timeout, its last look at the console having found nothing.
THEOREM PollIsHonest == ConsoleSpec => []PollHonest
BY PollInit, PollStep, PollEnds, PTL DEF ConsoleSpec

-----------------------------------------------------------------------------
(* Line editing: what survives of the keys. *)

\* The i-th character that survives is followed by as many more characters than
\* erases as characters survive behind it.
Depth(keys) ==
    \A i \in Kept(keys) :
        Characters(keys, i, Len(keys)) =
            Erases(keys, i, Len(keys)) + (Cardinality(Kept(keys)) - Rank(Kept(keys), i))

LEMMA PlacesFinite ==
    ASSUME NEW keys \in Seq(Nat)
    PROVE  /\ Len(keys) \in Nat /\ Kept(keys) \in SUBSET (1 .. Len(keys)) /\ Kept(keys) \in SUBSET Nat
           /\ IsFiniteSet(Kept(keys)) /\ Cardinality(Kept(keys)) \in Nat
           /\ \A i \in Nat, j \in Nat : Erases(keys, i, j) \in Nat /\ Characters(keys, i, j) \in Nat
           /\ \A i \in Nat, j \in Nat : /\ IsFiniteSet({k \in i + 1 .. j : Erase(keys[k])})
                                        /\ IsFiniteSet({k \in i + 1 .. j : ~Erase(keys[k])})
<1>1. Len(keys) \in Nat /\ Kept(keys) \in SUBSET (1 .. Len(keys))
  BY DEF Kept
<1>2. Kept(keys) \in SUBSET Nat /\ \A i \in Kept(keys) : i <= Len(keys)
  BY <1>1
<1>3. IsFiniteSet(Kept(keys)) /\ Cardinality(Kept(keys)) \in Nat
  BY <1>1, <1>2, FS_BoundedSetOfNaturals, FS_CardinalityType
<1>4. ASSUME NEW i \in Nat, NEW j \in Nat
      PROVE  /\ IsFiniteSet({k \in i + 1 .. j : Erase(keys[k])})
             /\ IsFiniteSet({k \in i + 1 .. j : ~Erase(keys[k])})
  <2>1. IsFiniteSet(i + 1 .. j)
    BY FS_Interval
  <2>2. /\ {k \in i + 1 .. j : Erase(keys[k])} \in SUBSET (i + 1 .. j)
        /\ {k \in i + 1 .. j : ~Erase(keys[k])} \in SUBSET (i + 1 .. j)
    OBVIOUS
  <2> QED
    BY <2>1, <2>2, FS_Subset
<1>5. \A i \in Nat, j \in Nat : Erases(keys, i, j) \in Nat /\ Characters(keys, i, j) \in Nat
  BY <1>4, FS_CardinalityType DEF Erases, Characters
<1> QED
  BY <1>1, <1>2, <1>3, <1>4, <1>5

\* One key more.
LEMMA OneKeyMore ==
    ASSUME NEW keys \in Seq(Nat), NEW b \in Nat, NEW i \in 1 .. Len(keys)
    PROVE  LET q == Append(keys, b)
               n == Len(keys)
           IN  /\ \A j \in i .. n : Erases(q, i, j) = Erases(keys, i, j) /\ Characters(q, i, j) = Characters(keys, i, j)
               /\ Erases(q, i, n + 1) = Erases(keys, i, n) + (IF Erase(b) THEN 1 ELSE 0)
               /\ Characters(q, i, n + 1) = Characters(keys, i, n) + (IF Erase(b) THEN 0 ELSE 1)
<1> DEFINE q == Append(keys, b)
           n == Len(keys)
           E(s, j) == {k \in i + 1 .. j : Erase(s[k])}
           C(s, j) == {k \in i + 1 .. j : ~Erase(s[k])}
<1>1. n \in Nat /\ i \in Nat /\ q[n + 1] = b /\ \A k \in 1 .. n : q[k] = keys[k]
  OBVIOUS
<1> HIDE DEF q
<1>2. ASSUME NEW j \in i .. n PROVE E(q, j) = E(keys, j) /\ C(q, j) = C(keys, j)
  <2>1. \A k \in i + 1 .. j : k \in 1 .. n
    OBVIOUS
  <2> QED
    BY <1>1, <2>1
<1>3. E(q, n + 1) = IF Erase(b) THEN E(keys, n) \cup {n + 1} ELSE E(keys, n)
  <2>1. \A k : k \in i + 1 .. n + 1 <=> k \in i + 1 .. n \/ k = n + 1
    BY <1>1, SMTT(30)
  <2>2. \A k \in i + 1 .. n : k \in 1 .. n
    BY <1>1
  <2> QED
    BY <1>1, <2>1, <2>2
<1>4. C(q, n + 1) = IF Erase(b) THEN C(keys, n) ELSE C(keys, n) \cup {n + 1}
  <2>1. \A k : k \in i + 1 .. n + 1 <=> k \in i + 1 .. n \/ k = n + 1
    BY <1>1, SMTT(30)
  <2>2. \A k \in i + 1 .. n : k \in 1 .. n
    BY <1>1
  <2> QED
    BY <1>1, <2>1, <2>2
<1>5. /\ IsFiniteSet(E(keys, n)) /\ IsFiniteSet(C(keys, n)) /\ n + 1 \notin E(keys, n) /\ n + 1 \notin C(keys, n)
      /\ Cardinality(E(keys, n)) \in Nat /\ Cardinality(C(keys, n)) \in Nat
  <2>1. IsFiniteSet(E(keys, n)) /\ IsFiniteSet(C(keys, n))
    BY <1>1, PlacesFinite
  <2>2. n + 1 \notin i + 1 .. n
    BY <1>1
  <2> QED
    BY <2>1, <2>2, FS_CardinalityType
<1>6. /\ \A j \in i .. n : Erases(q, i, j) = Erases(keys, i, j) /\ Characters(q, i, j) = Characters(keys, i, j)
  BY <1>2 DEF Erases, Characters
<1>7. /\ Erases(q, i, n + 1) = Cardinality(E(q, n + 1)) /\ Erases(keys, i, n) = Cardinality(E(keys, n))
      /\ Characters(q, i, n + 1) = Cardinality(C(q, n + 1)) /\ Characters(keys, i, n) = Cardinality(C(keys, n))
  BY DEF Erases, Characters
<1> HIDE DEF E, C
<1>8. /\ Cardinality(E(keys, n) \cup {n + 1}) = Cardinality(E(keys, n)) + 1
      /\ Cardinality(C(keys, n) \cup {n + 1}) = Cardinality(C(keys, n)) + 1
  BY <1>5, FS_AddElement
<1>9. Erases(q, i, n + 1) = Erases(keys, i, n) + (IF Erase(b) THEN 1 ELSE 0)
  BY <1>3, <1>5, <1>7, <1>8
<1>10. Characters(q, i, n + 1) = Characters(keys, i, n) + (IF Erase(b) THEN 0 ELSE 1)
  BY <1>4, <1>5, <1>7, <1>8
<1> QED
  BY <1>6, <1>9, <1>10 DEF q

\* A character survives, with all before it; an erase takes back those it outnumbers.
LEMMA KeptThen ==
    ASSUME NEW keys \in Seq(Nat), NEW b \in Nat
    PROVE  LET q == Append(keys, b)
               n == Len(keys)
           IN  /\ ~Erase(b) => Kept(q) = Kept(keys) \cup {n + 1}
               /\ Erase(b) => Kept(q) = {i \in Kept(keys) : Erases(keys, i, n) + 1 <= Characters(keys, i, n)}
<1> DEFINE q == Append(keys, b)
           n == Len(keys)
           Good(s, i, j) == Erases(s, i, j) <= Characters(s, i, j)
<1>1. n \in Nat /\ q \in Seq(Nat) /\ Len(q) = n + 1 /\ q[n + 1] = b /\ \A k \in 1 .. n : q[k] = keys[k]
  OBVIOUS
<1>2. ASSUME NEW i \in 1 .. n
      PROVE  /\ \A j \in i .. n : Good(q, i, j) <=> Good(keys, i, j)
             /\ Good(q, i, n + 1) <=> (IF Erase(b) THEN Erases(keys, i, n) + 1 <= Characters(keys, i, n)
                                                   ELSE Erases(keys, i, n) <= Characters(keys, i, n) + 1)
             /\ Erases(keys, i, n) \in Nat /\ Characters(keys, i, n) \in Nat
  <2>1. Erases(keys, i, n) \in Nat /\ Characters(keys, i, n) \in Nat
    BY PlacesFinite
  <2>2. /\ \A j \in i .. n : Erases(q, i, j) = Erases(keys, i, j) /\ Characters(q, i, j) = Characters(keys, i, j)
        /\ Erases(q, i, n + 1) = Erases(keys, i, n) + (IF Erase(b) THEN 1 ELSE 0)
        /\ Characters(q, i, n + 1) = Characters(keys, i, n) + (IF Erase(b) THEN 0 ELSE 1)
    BY OneKeyMore
  <2> HIDE DEF q
  <2> QED
    BY <2>1, <2>2
<1> HIDE DEF q
<1>3. ASSUME NEW i \in 1 .. n
      PROVE  i \in Kept(q) <=> i \in Kept(keys) /\ Good(q, i, n + 1)
  <2>1. i \in Kept(q) <=> ~Erase(keys[i]) /\ \A j \in i .. n + 1 : Good(q, i, j)
    BY <1>1 DEF Kept
  <2>2. i \in Kept(keys) <=> ~Erase(keys[i]) /\ \A j \in i .. n : Good(keys, i, j)
    BY DEF Kept
  <2>3. \A j \in i .. n + 1 : j \in i .. n \/ j = n + 1
    BY <1>1
  <2>4. n + 1 \in i .. n + 1 /\ \A j \in i .. n : j \in i .. n + 1
    BY <1>1
  <2> HIDE DEF Good
  <2> QED
    BY <1>2, <2>1, <2>2, <2>3, <2>4
<1>4. \A i \in Kept(keys) : i \in 1 .. n /\ Good(keys, i, n)
  <2> TAKE i \in Kept(keys)
  <2>1. i \in 1 .. n
    BY DEF Kept
  <2>2. n \in i .. n
    BY <1>1, <2>1
  <2> QED
    BY <2>1, <2>2 DEF Kept
<1>5. \A i \in Kept(q) : i \in 1 .. n \/ i = n + 1
  BY <1>1 DEF Kept
<1>6. n + 1 \in Kept(q) <=> ~Erase(b)
  <2>1. Good(q, n + 1, n + 1)
    <3>1. n + 1 + 1 .. n + 1 = {}
      BY <1>1
    <3>2. Erases(q, n + 1, n + 1) = 0 /\ Characters(q, n + 1, n + 1) = 0
      BY <3>1, FS_EmptySet DEF Erases, Characters
    <3> QED
      BY <3>2
  <2>2. n + 1 \in DOMAIN q /\ n + 1 .. Len(q) = {n + 1}
    BY <1>1
  <2> QED
    BY <1>1, <2>1, <2>2 DEF Kept
<1>7. ASSUME ~Erase(b) PROVE Kept(q) = Kept(keys) \cup {n + 1}
  <2>1. \A i \in Kept(keys) : Good(q, i, n + 1)
    BY <1>2, <1>4, <1>7
  <2> HIDE DEF Good
  <2> QED
    BY <1>3, <1>4, <1>5, <1>6, <1>7, <2>1
<1>8. ASSUME Erase(b)
      PROVE  Kept(q) = {i \in Kept(keys) : Erases(keys, i, n) + 1 <= Characters(keys, i, n)}
  <2>1. \A i \in 1 .. n : Good(q, i, n + 1) <=> Erases(keys, i, n) + 1 <= Characters(keys, i, n)
    BY <1>2, <1>8
  <2> HIDE DEF Good
  <2> QED
    BY <1>3, <1>4, <1>5, <1>6, <1>8, <2>1
<1> QED
  BY <1>7, <1>8 DEF q

LEMMA NothingSurvives == Surviving(<<>>) = <<>> /\ Depth(<<>>) /\ Kept(<<>>) = {}
<1>1. Kept(<<>>) = {}
  BY DEF Kept
<1>2. Cardinality(Kept(<<>>)) = 0
  BY <1>1, FS_EmptySet
<1> QED
  BY <1>1, <1>2 DEF Surviving, Depth

LEMMA SurvivingForm ==
    ASSUME NEW keys \in Seq(Nat)
    PROVE  /\ Surviving(keys) \in Seq(Nat) /\ Len(Surviving(keys)) = Cardinality(Kept(keys))
           /\ Cardinality(Kept(keys)) \in Nat
           /\ \A k \in 1 .. Cardinality(Kept(keys)) :
                 Nth(Kept(keys), k) \in 1 .. Len(keys) /\ Surviving(keys)[k] = keys[Nth(Kept(keys), k)]
<1> DEFINE K == Kept(keys)
           n == Cardinality(K)
<1>1. K \in SUBSET Nat /\ K \in SUBSET (1 .. Len(keys)) /\ IsFiniteSet(K) /\ n \in Nat
  BY PlacesFinite
<1> HIDE DEF K, n
<1>2. \A k \in 1 .. n : Nth(K, k) \in 1 .. Len(keys)
  BY <1>1, NthIs DEF n
<1>3. Surviving(keys) = [k \in 1 .. n |-> keys[Nth(K, k)]]
  BY DEF Surviving, K, n
<1>4. \A k \in 1 .. n : keys[Nth(K, k)] \in Nat
  BY <1>2
<1>5. Surviving(keys) \in Seq(Nat) /\ Len(Surviving(keys)) = n
  BY <1>1, <1>3, <1>4
<1> QED
  BY <1>1, <1>2, <1>3, <1>5 DEF K, n

\* A character is added to what survives.
LEMMA CharacterSurvives ==
    ASSUME NEW keys \in Seq(Nat), Depth(keys), NEW b \in Nat, ~Erase(b)
    PROVE  /\ Surviving(Append(keys, b)) = Append(Surviving(keys), b)
           /\ Depth(Append(keys, b))
<1> DEFINE q == Append(keys, b)
           n == Len(keys)
           S == Kept(keys)
           c == Cardinality(S)
<1>1. n \in Nat /\ q \in Seq(Nat) /\ Len(q) = n + 1 /\ q[n + 1] = b /\ \A k \in 1 .. n : q[k] = keys[k]
  OBVIOUS
<1>2. S \in SUBSET Nat /\ S \in SUBSET (1 .. n) /\ IsFiniteSet(S) /\ c \in Nat
  BY PlacesFinite
<1>3. Kept(q) = S \cup {n + 1}
  BY KeptThen
<1>4. \A i \in S : i \in 1 .. n /\ i < n + 1
  BY <1>1, <1>2
<1> HIDE DEF S, q
<1>5. /\ Cardinality(S \cup {n + 1}) = c + 1 /\ Nth(S \cup {n + 1}, c + 1) = n + 1
      /\ \A k \in 1 .. c : Nth(S \cup {n + 1}, k) = Nth(S, k)
      /\ Rank(S \cup {n + 1}, n + 1) = c + 1
      /\ \A i \in S : Rank(S \cup {n + 1}, i) = Rank(S, i)
  <2> DEFINE x == n + 1
  <2>1. x \in Nat /\ \A i \in S : i < x
    BY <1>1, <1>4
  <2> HIDE DEF x
  <2>2. /\ Cardinality(S \cup {x}) = c + 1 /\ Nth(S \cup {x}, c + 1) = x
        /\ \A k \in 1 .. c : Nth(S \cup {x}, k) = Nth(S, k)
        /\ Rank(S \cup {x}, x) = c + 1
        /\ \A i \in S : Rank(S \cup {x}, i) = Rank(S, i)
    BY <1>2, <2>1, NthAdd
  <2> QED
    BY <2>2 DEF x
<1>6. Surviving(q) = Append(Surviving(keys), b)
  <2> DEFINE u == Surviving(keys)
             v == Surviving(q)
  <2>1. u \in Seq(Nat) /\ Len(u) = c /\ \A k \in 1 .. c : Nth(S, k) \in 1 .. n /\ u[k] = keys[Nth(S, k)]
    BY SurvivingForm DEF S
  <2>2. v \in Seq(Nat) /\ Len(v) = c + 1 /\ \A k \in 1 .. c + 1 : v[k] = q[Nth(S \cup {n + 1}, k)]
    BY <1>1, <1>3, <1>5, SurvivingForm, ZenonT(60)
  <2> HIDE DEF u, v, c
  <2>3. ASSUME NEW k \in 1 .. c PROVE v[k] = u[k]
    <3>1. k \in 1 .. c + 1
      BY <1>2
    <3>2. v[k] = q[Nth(S, k)]
      BY <1>5, <2>2, <3>1
    <3> QED
      BY <1>1, <2>1, <3>2
  <2>4. v[c + 1] = b
    <3>1. c + 1 \in 1 .. c + 1
      BY <1>2
    <3> DEFINE d == c + 1
               y == Nth(S \cup {n + 1}, d)
    <3>2. v[d] = q[y]
      BY <2>2, <3>1
    <3>3. y = n + 1
      BY <1>5
    <3> HIDE DEF y, d
    <3>4. v[d] = b
      BY <1>1, <3>2, <3>3
    <3> QED
      BY <3>4 DEF d
  <2>5. v = Append(u, b)
    <3> DEFINE w == Append(u, b)
    <3>1. w \in Seq(Nat) /\ Len(w) = c + 1 /\ w[c + 1] = b /\ \A k \in 1 .. c : w[k] = u[k]
      BY <1>2, <2>1
    <3> HIDE DEF w
    <3>2. \A k \in 1 .. c + 1 : v[k] = w[k]
      BY <1>2, <2>3, <2>4, <3>1
    <3>3. v = w
      BY <2>2, <3>1, <3>2, SeqEqual
    <3> QED
      BY <3>3 DEF w
  <2> QED
    BY <2>5 DEF u, v
<1>7. Depth(q)
  <2> SUFFICES ASSUME NEW i \in Kept(q)
               PROVE  Characters(q, i, Len(q)) = Erases(q, i, Len(q)) + (Cardinality(Kept(q)) - Rank(Kept(q), i))
    BY DEF Depth
  <2>1. CASE i \in S
    <3>1. Characters(keys, i, n) = Erases(keys, i, n) + (c - Rank(S, i))
      BY <2>1 DEF Depth, S
    <3>2. Characters(q, i, n + 1) = Characters(keys, i, n) + 1 /\ Erases(q, i, n + 1) = Erases(keys, i, n) + 0
      BY <1>4, <2>1, OneKeyMore DEF q
    <3>3. Erases(keys, i, n) \in Nat /\ Characters(keys, i, n) \in Nat /\ Rank(S, i) \in Nat
      BY <1>2, <1>4, <2>1, PlacesFinite, RankType
    <3>4. Cardinality(Kept(q)) = c + 1 /\ Rank(Kept(q), i) = Rank(S, i)
      BY <1>3, <1>5, <2>1
    <3> HIDE DEF c, n
    <3> QED
      BY <1>1, <1>2, <3>1, <3>2, <3>3, <3>4
  <2>2. CASE i = n + 1
    <3>1. n + 1 + 1 .. n + 1 = {}
      BY <1>1
    <3>2. Erases(q, n + 1, n + 1) = 0 /\ Characters(q, n + 1, n + 1) = 0
      BY <3>1, FS_EmptySet DEF Erases, Characters
    <3>3. Cardinality(Kept(q)) = c + 1 /\ Rank(Kept(q), i) = c + 1
      BY <1>3, <1>5, <2>2
    <3> HIDE DEF c, n
    <3> QED
      BY <1>1, <1>2, <2>2, <3>2, <3>3
  <2> QED
    BY <1>3, <2>1, <2>2
<1> QED
  BY <1>6, <1>7 DEF q

\* An erase takes back the last that survives, if one does.
LEMMA EraseTakesLast ==
    ASSUME NEW keys \in Seq(Nat), Depth(keys), NEW b \in Nat, Erase(b)
    PROVE  /\ Surviving(keys) = <<>> => Surviving(Append(keys, b)) = <<>>
           /\ Surviving(keys) # <<>> => Surviving(Append(keys, b)) = Front(Surviving(keys))
           /\ Depth(Append(keys, b))
<1> DEFINE q == Append(keys, b)
           n == Len(keys)
           S == Kept(keys)
           T == Kept(q)
           c == Cardinality(S)
<1>1. n \in Nat /\ q \in Seq(Nat) /\ Len(q) = n + 1 /\ q[n + 1] = b /\ \A k \in 1 .. n : q[k] = keys[k]
  OBVIOUS
<1>2. S \in SUBSET Nat /\ S \in SUBSET (1 .. n) /\ IsFiniteSet(S) /\ c \in Nat
  BY PlacesFinite
<1>3. T = {i \in S : Erases(keys, i, n) + 1 <= Characters(keys, i, n)}
  BY KeptThen
<1>4. ASSUME NEW i \in S
      PROVE  /\ Characters(keys, i, n) = Erases(keys, i, n) + (c - Rank(S, i))
             /\ Erases(keys, i, n) \in Nat /\ Characters(keys, i, n) \in Nat /\ Rank(S, i) \in 1 .. c
             /\ Characters(q, i, n + 1) = Characters(keys, i, n) + 0 /\ Erases(q, i, n + 1) = Erases(keys, i, n) + 1
  <2>1. Characters(keys, i, n) = Erases(keys, i, n) + (c - Rank(S, i))
    BY DEF Depth
  <2>2. Erases(keys, i, n) \in Nat /\ Characters(keys, i, n) \in Nat
    BY <1>2, PlacesFinite
  <2>3. Rank(S, i) \in 1 .. c
    BY <1>2, RankBound
  <2>4. i \in 1 .. n
    BY <1>2
  <2>5. Characters(q, i, n + 1) = Characters(keys, i, n) + 0 /\ Erases(q, i, n + 1) = Erases(keys, i, n) + 1
    BY <2>4, OneKeyMore
  <2> QED
    BY <2>1, <2>2, <2>3, <2>5
<1> HIDE DEF S, q, T, n
<1>5. T = {i \in S : Rank(S, i) # c}
  <2>1. ASSUME NEW i \in S PROVE Erases(keys, i, n) + 1 <= Characters(keys, i, n) <=> Rank(S, i) # c
    <3> DEFINE r == Rank(S, i)
               e == Erases(keys, i, n)
               h == Characters(keys, i, n)
    <3>1. h = e + (c - r) /\ e \in Nat /\ h \in Nat /\ r \in 1 .. c
      BY <1>4
    <3> HIDE DEF r, e, h, c
    <3>2. e + 1 <= h <=> r # c
      BY <1>2, <3>1
    <3> QED
      BY <3>2 DEF r, e, h, c
  <2> QED
    BY <1>3, <2>1
<1> DEFINE u == Surviving(keys)
           v == Surviving(q)
           d == Cardinality(T)
<1>6. u \in Seq(Nat) /\ Len(u) = c /\ \A k \in 1 .. c : Nth(S, k) \in 1 .. n /\ u[k] = keys[Nth(S, k)]
  BY SurvivingForm DEF S, n
<1>7. v \in Seq(Nat) /\ Len(v) = d /\ d \in Nat /\ \A k \in 1 .. d : v[k] = q[Nth(T, k)]
  BY <1>1, SurvivingForm DEF T
<1>8. CASE S = {}
  <2>1. c = 0 /\ T = {}
    BY <1>5, <1>8, FS_EmptySet
  <2>2. d = 0
    BY <2>1, FS_EmptySet
  <2> HIDE DEF u, v, c, d
  <2>3. u = <<>> /\ v = <<>>
    BY <1>6, <1>7, <2>1, <2>2
  <2>4. Depth(q)
    BY <2>1 DEF Depth, T
  <2> QED
    BY <2>3, <2>4 DEF u, v, q
<1>9. CASE S # {}
  <2>1. /\ c = d + 1 /\ d \in Nat /\ \A k \in 1 .. d : Nth(T, k) = Nth(S, k)
        /\ \A i \in T : Rank(T, i) = Rank(S, i)
    BY <1>2, <1>5, <1>9, NthRemove
  <2>2. Depth(q)
    <3> SUFFICES ASSUME NEW i \in T
                 PROVE  Characters(q, i, n + 1) = Erases(q, i, n + 1) + (d - Rank(T, i))
      BY <1>1 DEF Depth, T
    <3>1. i \in S
      BY <1>5
    <3> DEFINE r == Rank(S, i)
               e == Erases(keys, i, n)
               h == Characters(keys, i, n)
    <3>2. /\ h = e + (c - r) /\ e \in Nat /\ h \in Nat /\ r \in 1 .. c
          /\ Characters(q, i, n + 1) = h + 0 /\ Erases(q, i, n + 1) = e + 1 /\ Rank(T, i) = r
      BY <1>4, <2>1, <3>1
    <3> HIDE DEF r, e, h, c, d
    <3> QED
      BY <1>2, <2>1, <3>2
  <2> HIDE DEF u, v, c, d
  <2>3. u # <<>>
    BY <1>6, <2>1
  <2>4. v = Front(u)
    <3>1. Front(u) \in Seq(Nat) /\ Len(Front(u)) = d /\ \A k \in 1 .. d : Front(u)[k] = u[k]
      BY <1>6, <2>1 DEF Front
    <3>2. ASSUME NEW k \in 1 .. d PROVE v[k] = u[k]
      <4>1. k \in 1 .. c
        BY <2>1
      <4> QED
        BY <1>1, <1>6, <1>7, <2>1, <4>1
    <3>3. \A k \in 1 .. d : v[k] = Front(u)[k]
      BY <3>1, <3>2
    <3> QED
      BY <1>7, <3>1, <3>3, SeqEqual
  <2> QED
    BY <2>2, <2>3, <2>4 DEF u, v, q
<1> QED
  BY <1>8, <1>9

-----------------------------------------------------------------------------
(* The interactive read *)

Reading(o, l, u, q, a) == [op |-> o, left |-> l, buf |-> u, keys |-> q, at |-> a]

EditsTo(o, l, u, q, a, m, v) ==
    [Reading(o, l, u, q, a) EXCEPT !.left = m, !.buf = v] = Reading(o, m, v, q, a)

LEMMA EditedTo ==
    ASSUME NEW o, NEW l, NEW u, NEW q, NEW a, NEW m, NEW v
    PROVE  EditsTo(o, l, u, q, a, m, v)
<1> DEFINE c == Reading(o, l, u, q, a)
           e == [c EXCEPT !.left = m, !.buf = v]
<1>1. DOMAIN c = {"op", "left", "buf", "keys", "at"} /\ c.op = o /\ c.keys = q /\ c.at = a
  BY DEF Reading
<1>2. DOMAIN e = {"op", "left", "buf", "keys", "at"} /\ e = [f \in DOMAIN e |-> e[f]]
  BY <1>1
<1>3. e.op = o /\ e.left = m /\ e.buf = v /\ e.keys = q /\ e.at = a
  BY <1>1
<1> HIDE DEF e
<1>4. e = [op |-> o, left |-> m, buf |-> v, keys |-> q, at |-> a]
  BY <1>2, <1>3
<1> QED
  BY <1>4 DEF e, Reading, EditsTo

Typing(l, u, q, a, b) == LineByte(Reading("line", l, u, q, a), b)

Outcome(l, u, q, a, b) ==
    CASE b = CR -> [call |-> Reading("done", l, u, q, a), echo |-> EchoCR]
      [] b # CR /\ Erase(b) /\ Len(u) # 0 ->
            [call |-> Reading("line", l + 1, Front(u), q, a), echo |-> EchoBS]
      [] b # CR /\ Erase(b) /\ Len(u) = 0 ->
            [call |-> Reading("line", l, u, q, a), echo |-> serial_putc(BEL)]
      [] OTHER -> [call |-> Reading(IF l - 1 = 0 THEN "done" ELSE "line", l - 1, Append(u, b), q, a),
                   echo |-> serial_putc(b)]

\* LineByte case by case.
LEMMA LineByteIs ==
    ASSUME NEW l \in Nat, NEW u \in Seq(Nat), NEW q, NEW a, NEW b
    PROVE  Typing(l, u, q, a, b) = Outcome(l, u, q, a, b)
<1> DEFINE c == Reading("line", l, u, q, a)
           fr == Front(u)
           ap == Append(u, b)
<1>1. c.buf = u /\ c.left = l
  BY DEF Reading
<1>2. Returned(c) = Reading("done", l, u, q, a)
  BY DEF Returned, Reading
<1>3. [c EXCEPT !.buf = Front(@), !.left = @ + 1] = Reading("line", l + 1, fr, q, a)
  <2> DEFINE m == l + 1
  <2>1. [c EXCEPT !.buf = Front(@), !.left = @ + 1] = [c EXCEPT !.left = m, !.buf = fr]
    BY <1>1 DEF Reading
  <2> HIDE DEF m, fr
  <2>2. EditsTo("line", l, u, q, a, m, fr)
    BY EditedTo, Zenon
  <2> QED
    BY <2>1, <2>2 DEF m, EditsTo
<1>4. [c EXCEPT !.buf = Append(@, b), !.left = @ - 1] = Reading("line", l - 1, ap, q, a)
  <2> DEFINE m == l - 1
  <2>1. [c EXCEPT !.buf = Append(@, b), !.left = @ - 1] = [c EXCEPT !.left = m, !.buf = ap]
    BY <1>1 DEF Reading
  <2> HIDE DEF m, ap
  <2>2. EditsTo("line", l, u, q, a, m, ap)
    BY EditedTo, Zenon
  <2> QED
    BY <2>1, <2>2 DEF m, EditsTo
<1> DEFINE k == Reading("line", l - 1, ap, q, a)
<1>5. Returned(k) = Reading("done", l - 1, ap, q, a) /\ k.left = l - 1
  <2> HIDE DEF ap
  <2> QED
    BY DEF Returned, Reading
<1> HIDE DEF c, k, fr, ap
<1>6. ASSUME b = CR PROVE LineByte(c, b) = [call |-> Reading("done", l, u, q, a), echo |-> EchoCR]
  BY <1>2, <1>6 DEF LineByte, CR, BS, DEL
<1>7. ASSUME b # CR, Erase(b), u # <<>>
      PROVE  LineByte(c, b) = [call |-> Reading("line", l + 1, fr, q, a), echo |-> EchoBS]
  BY <1>1, <1>3, <1>7 DEF LineByte, Erase
<1>8. ASSUME b # CR, Erase(b), Len(u) = 0
      PROVE  LineByte(c, b) = [call |-> Reading("line", l, u, q, a), echo |-> serial_putc(BEL)]
  <2>1. u = <<>>
    BY <1>8
  <2>2. LineByte(c, b) = [call |-> c, echo |-> serial_putc(BEL)]
    BY <1>1, <1>8, <2>1 DEF LineByte, Erase
  <2> QED
    BY <2>2 DEF c
<1>9. ASSUME b # CR, ~Erase(b)
      PROVE  LineByte(c, b) = [call |-> Reading(IF l - 1 = 0 THEN "done" ELSE "line", l - 1, ap, q, a),
                               echo |-> serial_putc(b)]
  <2>1. LineByte(c, b) = [call |-> IF k.left = 0 THEN Returned(k) ELSE k, echo |-> serial_putc(b)]
    BY <1>4, <1>9 DEF LineByte, Erase, k
  <2>2. (IF k.left = 0 THEN Returned(k) ELSE k) =
           Reading(IF l - 1 = 0 THEN "done" ELSE "line", l - 1, ap, q, a)
    BY <1>5 DEF k
  <2> QED
    BY <2>1, <2>2
<1>10. Len(u) # 0 => u # <<>>
  OBVIOUS
<1>11. Typing(l, u, q, a, b) = LineByte(c, b)
  BY DEF Typing, c
<1> QED
  BY <1>6, <1>7, <1>8, <1>9, <1>10, <1>11 DEF fr, ap, Outcome

\* A read in progress holds what survives of its keys; how much room it has left and
\* how much it holds make up the length it was called with.
LineOK(c) ==
    /\ c.op \in {"line", "raw", "done"} => ReadForm(c)
    /\ c.op = "raw" => c.keys = <<>>
    /\ c.op = "line" =>
          /\ c.keys \in Seq(Nat) /\ c.buf = Surviving(c.keys) /\ Depth(c.keys)
          /\ c.left \in Nat \ {0} /\ c.left + Len(c.buf) \in Counts
    /\ c.op = "done" /\ c.keys # <<>> =>
          LET cr == Last(c.keys) = CR
          IN  /\ c.buf = Surviving(IF cr THEN Front(c.keys) ELSE c.keys)
              /\ cr \/ \E n \in Counts : n > 0 /\ Len(c.buf) = n

LEMMA FrontOf ==
    ASSUME NEW u \in Seq(Nat), u # <<>>
    PROVE  /\ Front(u) \in Seq(Nat) /\ Len(u) \in Nat /\ Len(u) > 0 /\ Len(Front(u)) = Len(u) - 1
           /\ \A k \in 1 .. Len(u) - 1 : Front(u)[k] = u[k]
<1>1. Len(u) \in Nat /\ Len(u) > 0
  OBVIOUS
<1> DEFINE d == Len(u) - 1
<1>2. d \in Nat /\ Len(u) = d + 1
  BY <1>1
<1> HIDE DEF d
<1>3. Front(u) = SubSeq(u, 1, d)
  BY DEF Front, d
<1>4. Front(u) \in Seq(Nat) /\ Len(Front(u)) = d /\ \A k \in 1 .. d : Front(u)[k] = u[k]
  BY <1>2, <1>3
<1> QED
  BY <1>1, <1>4 DEF d

\* One key keeps that up.
LEMMA KeyKeepsLine ==
    ASSUME NEW c, LineOK(c), c.op = "line", NEW b \in Nat \ {0}
    PROVE  LineOK(LineByte([c EXCEPT !.keys = Append(@, b)], b).call)
<1> DEFINE l == c.left
           u == c.buf
           o == c.keys
           q == Append(o, b)
           a == c.at
           e == Typing(l, u, q, a, b).call
<1>1. c = Reading("line", l, u, o, a)
  BY DEF LineOK, ReadForm, Reading
<1>2. [c EXCEPT !.keys = Append(@, b)] = Reading("line", l, u, q, a)
  <2> HIDE DEF q
  <2>1. [c EXCEPT !.keys = q] = Reading("line", l, u, q, a)
    BY <1>1 DEF Reading
  <2> QED
    BY <1>1, <2>1 DEF q, Reading
<1>3. o \in Seq(Nat) /\ u = Surviving(o) /\ Depth(o) /\ l \in Nat \ {0} /\ l + Len(u) \in Counts
  BY DEF LineOK
<1>4. u \in Seq(Nat) /\ Len(u) \in Nat
  BY <1>3, SurvivingForm
<1>5. q \in Seq(Nat) /\ q # <<>> /\ Last(q) = b /\ Front(q) = o
  <2>1. Len(q) = Len(o) + 1 /\ q \in Seq(Nat) /\ q[Len(o) + 1] = b /\ Len(o) \in Nat
    BY <1>3
  <2>2. SubSeq(q, 1, Len(o)) = o
    BY <1>3, <2>1
  <2>3. Len(q) - 1 = Len(o)
    BY <2>1
  <2> QED
    BY <2>1, <2>2, <2>3 DEF Last, Front
<1> HIDE DEF q, l, u, o, a
<1>6. Typing(l, u, q, a, b) = Outcome(l, u, q, a, b)
  BY <1>3, <1>4, LineByteIs
<1>7. CASE b = CR
  <2>1. e = Reading("done", l, u, q, a)
    BY <1>7, <1>6 DEF Outcome
  <2> HIDE DEF e
  <2>2. LineOK(e)
    BY <1>3, <1>5, <1>7, <2>1 DEF LineOK, Reading, ReadForm
  <2> QED
    BY <1>2, <2>2 DEF e, Typing
<1>8. CASE b # CR /\ Erase(b) /\ Len(u) # 0
  <2>1. e = Reading("line", l + 1, Front(u), q, a)
    BY <1>8, <1>6 DEF Outcome
  <2>2. Surviving(q) = Front(u) /\ Depth(q)
    BY <1>3, <1>8, EraseTakesLast DEF q
  <2>3. u # <<>>
    BY <1>8
  <2>4. Len(Front(u)) = Len(u) - 1
    BY <1>4, <2>3, FrontOf
  <2>5. (l + 1) + Len(Front(u)) = l + Len(u) /\ l + 1 \in Nat \ {0}
    BY <1>3, <1>4, <2>4
  <2> DEFINE fr == Front(u)
             m == l + 1
  <2> HIDE DEF e, fr, m
  <2>6. e = Reading("line", m, fr, q, a) /\ fr = Surviving(q) /\ m \in Nat \ {0} /\ m + Len(fr) \in Counts
    BY <1>3, <2>1, <2>2, <2>5 DEF fr, m
  <2>7. e.op = "line" /\ e.buf = fr /\ e.keys = q /\ e.left = m /\ ReadForm(e)
    BY <2>6 DEF Reading, ReadForm
  <2>8. LineOK(e)
    BY <1>5, <2>2, <2>6, <2>7 DEF LineOK
  <2> QED
    BY <1>2, <2>8 DEF e, Typing
<1>9. CASE b # CR /\ Erase(b) /\ Len(u) = 0
  <2>1. e = Reading("line", l, u, q, a)
    BY <1>9, <1>6 DEF Outcome
  <2>2. Surviving(q) = u /\ Depth(q)
    BY <1>3, <1>4, <1>9, EraseTakesLast DEF q
  <2> HIDE DEF e
  <2>3. e.op = "line" /\ e.buf = u /\ e.keys = q /\ e.left = l /\ ReadForm(e)
    BY <2>1 DEF Reading, ReadForm
  <2>4. LineOK(e)
    BY <1>3, <1>5, <2>2, <2>3 DEF LineOK
  <2> QED
    BY <1>2, <2>4 DEF e, Typing
<1>10. CASE b # CR /\ ~Erase(b)
  <2> DEFINE ap == Append(u, b)
             m == l - 1
             p == IF m = 0 THEN "done" ELSE "line"
  <2>1. e = Reading(p, m, ap, q, a)
    BY <1>10, <1>6 DEF Outcome
  <2>2. Surviving(q) = ap /\ Depth(q)
    BY <1>3, <1>10, CharacterSurvives DEF q
  <2>3. Len(ap) = Len(u) + 1 /\ m + Len(ap) = l + Len(u) /\ m \in Nat
    BY <1>3, <1>4
  <2>4. m + Len(ap) \in Counts /\ Len(ap) > 0 /\ Len(ap) \in Nat
    BY <1>3, <1>4, <2>3
  <2> HIDE DEF e, ap, m
  <2>5. CASE m = 0
    <3>1. Len(ap) \in Counts
      BY <2>4, <2>5
    <3>2. e = Reading("done", m, ap, q, a)
      BY <2>1, <2>5
    <3>3. e.op = "done" /\ e.buf = ap /\ e.keys = q /\ ReadForm(e)
      BY <3>2 DEF Reading, ReadForm
    <3> QED
      BY <1>2, <1>5, <1>10, <2>2, <2>4, <3>1, <3>3 DEF LineOK, e, Typing
  <2>6. CASE m # 0
    <3>1. e = Reading("line", m, ap, q, a)
      BY <2>1, <2>6
    <3>2. e.op = "line" /\ e.buf = ap /\ e.keys = q /\ e.left = m /\ ReadForm(e)
      BY <3>1 DEF Reading, ReadForm
    <3> QED
      BY <1>2, <1>5, <2>2, <2>3, <2>4, <2>6, <3>2 DEF LineOK, e, Typing
  <2> QED
    BY <2>5, <2>6
<1> QED
  BY <1>7, <1>8, <1>9, <1>10

LineInv == PollInv /\ LineOK(call)

LEMMA ByteRead == ASSUME FifoInv, data_ready PROVE uart_byte \in Keys
<1>1. HardwareTypes /\ QueueInv /\ FIFO_SIZE \in Nat /\ FIFO_SIZE > 1
  BY ConsoleAssumption DEF FifoInv
<1>2. avail \in Nat /\ avail > 0 /\ fifo_out_ptr \in Pointers
  BY <1>1, Available DEF HardwareTypes
<1>3. Slot(1) = fifo_out_ptr
  <2>1. (fifo_out_ptr + 1) - 1 = fifo_out_ptr /\ fifo_out_ptr \in Int /\ 0 <= fifo_out_ptr /\ fifo_out_ptr < FIFO_SIZE
    BY <1>1, <1>2 DEF Pointers
  <2> QED
    BY <1>1, <2>1, Remainder DEF Slot
<1>4. 1 \in 1 .. avail /\ Held \in Nat /\ Wired \in Nat
  BY <1>2 DEF Held, Wired
<1>5. 1 \in 1 .. Len(queue) /\ queue \in Seq(Keys)
  BY <1>1, <1>2, <1>4 DEF QueueInv, HardwareTypes
<1>6. queue[1] \in Keys
  BY <1>5
<1>7. queue[1] = fifo_buf[fifo_out_ptr]
  BY <1>1, <1>3, <1>4 DEF QueueInv
<1> QED
  BY <1>6, <1>7 DEF uart_byte

\* A call that is not a read is no concern of this.
LEMMA NotReading == ASSUME NEW c, c.op \notin ReadOps PROVE LineOK(c)
BY DEF LineOK, ReadOps

LEMMA PollGoesOn ==
    ASSUME PollInv, PollOne \/ PollRound \/ \E fds \in PollLists, t \in Timeouts : SYS_poll(fds, t)
    PROVE  call'.op \in PollOps
<1>1. CASE PollOne \/ PollRound
  <2>1. call.op = "poll" /\ PollForm(call)
    BY <1>1 DEF PollOne, PollRound, PollInv, CallOK, PollOps, PollOK
  <2>2. CASE PollRound
    BY <2>1, <2>2 DEF PollRound, PollForm, PollOps
  <2>3. CASE PollOne
    BY <2>1, <2>3 DEF PollOne, PollForm, PollOps
  <2> QED
    BY <1>1, <2>2, <2>3
<1>2. CASE \E fds \in PollLists, t \in Timeouts : SYS_poll(fds, t)
  <2>1. PICK fds \in PollLists, t \in Timeouts : SYS_poll(fds, t)
    BY <1>2
  <2>2. PICK f, i, e, r, y, s :
           call' = [op |-> "poll", fds |-> fds, i |-> i, timeout |-> t, since |-> f,
                    end |-> e, revents |-> r, ready |-> y, seen |-> s]
    BY <2>1 DEF SYS_poll
  <2> QED
    BY <2>2 DEF PollOps
<1> QED
  BY <1>1, <1>2

LEMMA LineInit == ConsoleInit => LineInv
<1> SUFFICES ASSUME ConsoleInit PROVE LineInv
  OBVIOUS
<1>1. call.op \notin ReadOps
  BY DEF ConsoleInit, Idle, ReadOps
<1> QED
  BY <1>1, PollInit, NotReading DEF LineInv

LEMMA LineStep == LineInv /\ [ConsoleNext]_consvars => LineInv'
<1> SUFFICES ASSUME LineInv, [ConsoleNext]_consvars PROVE LineOK(call')
  BY PollStep DEF LineInv
<1>0. PollInv /\ PollInv' /\ FifoInv /\ LineOK(call)
  BY PollStep DEF LineInv, PollInv
<1>1. ASSUME UNCHANGED call PROVE LineOK(call')
  BY <1>0, <1>1
<1>2. CASE Terminal \/ Tick \/ UNCHANGED consvars
  BY <1>1, <1>2 DEF Terminal, Send, Arrive, fifo_write, Tick, consvars
<1>3. CASE Forget
  BY <1>3, NotReading DEF Forget, Idle, ReadOps
<1>4. CASE console_read_raw
  <2> DEFINE left == call.left - 1
             buf == Append(call.buf, uart_byte)
  <2>1. call.op = "raw" /\ ReadForm(call) /\ call.keys = <<>>
    BY <1>0, <1>4 DEF console_read_raw, LineOK
  <2>2. call = Reading("raw", call.left, call.buf, <<>>, call.at)
    BY <2>1 DEF ReadForm, Reading
  <2>3. [call EXCEPT !.left = @ - 1, !.buf = Append(@, uart_byte)] = [call EXCEPT !.left = left, !.buf = buf]
    BY <2>1 DEF ReadForm
  <2> HIDE DEF left, buf
  <2> DEFINE l == call.left
             u == call.buf
             a == call.at
             c == Reading("raw", left, buf, <<>>, a)
  <2>4. EditsTo("raw", l, u, <<>>, a, left, buf)
    BY EditedTo, Zenon
  <2>5. [call EXCEPT !.left = left, !.buf = buf] = c
    BY <2>2, <2>4 DEF EditsTo
  <2>6. c.op = "raw" /\ c.keys = <<>> /\ ReadForm(c)
    BY DEF Reading, ReadForm
  <2>7. Returned(c).op = "done" /\ Returned(c).keys = <<>> /\ ReadForm(Returned(c))
    <3>1. Returned(c) = Reading("done", left, buf, <<>>, a)
      BY DEF Returned, Reading
    <3> QED
      BY <3>1 DEF Reading, ReadForm
  <2> HIDE DEF c
  <2>8. call' = c \/ call' = Returned(c)
    BY <1>4, <2>3, <2>5 DEF console_read_raw
  <2> QED
    BY <2>6, <2>7, <2>8 DEF LineOK
<1>5. CASE console_read_interactive
  <2>1. call.op = "line" /\ data_ready
    BY <1>5 DEF console_read_interactive, fifo_read
  <2>2. uart_byte \in Nat \ {0}
    BY <1>0, <2>1, ByteRead, ConsoleAssumption
  <2> DEFINE b == uart_byte
  <2>3. call' = LineByte([call EXCEPT !.keys = Append(@, b)], b).call
    BY <1>5 DEF console_read_interactive
  <2> HIDE DEF b
  <2>4. b \in Nat \ {0}
    BY <2>2 DEF b
  <2> QED
    BY <1>0, <2>1, <2>3, <2>4, KeyKeepsLine
<1>6. CASE PollOne \/ PollRound \/ \E fds \in PollLists, t \in Timeouts : SYS_poll(fds, t)
  <2>1. call'.op \in PollOps
    BY <1>0, <1>6, PollGoesOn
  <2>2. call'.op \notin ReadOps
    BY <2>1 DEF ReadOps, PollOps
  <2> QED
    BY <2>2, NotReading
<1>7. ASSUME NEW n \in Counts, console_read(n) PROVE LineOK(call')
  <2>1. CASE n = 0
    BY <1>7, <2>1, NotReading DEF console_read, Idle, ReadOps
  <2>2. CASE n # 0
    <3>1. PICK o \in {"raw", "line"} :
             call' = [op |-> o, left |-> n, buf |-> <<>>, keys |-> <<>>, at |-> screen.col]
      BY <1>7, <2>2 DEF console_read
    <3>2. /\ call'.op = o /\ call'.left = n /\ call'.buf = <<>> /\ call'.keys = <<>> /\ ReadForm(call')
      BY <3>1 DEF ReadForm
    <3>3. n \in Nat \ {0} /\ n + Len(<<>>) = n /\ <<>> \in Seq(Nat)
      BY <2>2, ConsoleAssumption
    <3>4. call'.keys \in Seq(Nat) /\ call'.buf = Surviving(call'.keys) /\ Depth(call'.keys)
      BY <3>2, <3>3, NothingSurvives
    <3>5. call'.left \in Nat \ {0} /\ call'.left + Len(call'.buf) \in Counts
      BY <3>2, <3>3
    <3>6. call'.op # "done"
      BY <3>2
    <3> QED
      BY <3>2, <3>4, <3>5, <3>6 DEF LineOK
  <2> QED
    BY <2>1, <2>2
<1>8. CASE (\E b \in {SP, LF} : console_write(b)) \/ (\E r \in BOOLEAN : console_ioctl(r))
  BY <1>1, <1>8 DEF console_write, console_ioctl
<1> QED
  BY <1>2, <1>3, <1>4, <1>5, <1>6, <1>7, <1>8 DEF ConsoleNext, Kernel, Program

\* console_read_interactive() for any keys in any order, any arrival of them and any
\* caller's buffer: what the read returns is what is left of the keys when each erase
\* takes back the last character there was, and it returns only at a carriage return
\* or with the buffer full.
THEOREM LineIsEdited == ConsoleSpec => []LineEdited
<1>1. LineInv => LineEdited
  BY DEF LineInv, LineOK, LineEdited
<1> QED
  BY <1>1, LineInit, LineStep, PTL DEF ConsoleSpec

-----------------------------------------------------------------------------
(* The screen *)

\* f holds the screens that bytes make of s one after the other.
InTurn(f, s, bytes) == f = [n \in 0 .. Len(bytes) |-> IF n = 0 THEN s ELSE Show(f[n-1], bytes[n])]

\* ShowAll on as many bytes as one key echoes.
LEMMA ShowInTurn ==
    ASSUME NEW s, NEW bytes, NEW g, InTurn(g, s, bytes)
    PROVE  \E f : InTurn(f, s, bytes) /\ ShowAll(s, bytes) = f[Len(bytes)]
BY Zenon DEF ShowAll, InTurn

LEMMA ShowOne == ASSUME NEW s, NEW b PROVE ShowAll(s, <<b>>) = Show(s, b)
<1> DEFINE bytes == <<b>>
           g == [n \in 0 .. 1 |-> IF n = 0 THEN s ELSE Show(s, b)]
<1>1. Len(bytes) = 1 /\ bytes[1] = b
  OBVIOUS
<1> HIDE DEF bytes
<1>2. g = [n \in 0 .. 1 |-> IF n = 0 THEN s ELSE Show(g[n-1], bytes[n])]
  <2>1. \A n \in 0 .. 1 : g[n] = IF n = 0 THEN s ELSE Show(g[n-1], bytes[n])
    BY <1>1
  <2> HIDE DEF g
  <2>2. g = [n \in 0 .. 1 |-> g[n]]
    BY DEF g
  <2> QED
    BY <2>1, <2>2
<1> HIDE DEF g
<1>3. PICK f : InTurn(f, s, bytes) /\ ShowAll(s, bytes) = f[1]
  <2>1. InTurn(g, s, bytes)
    BY <1>1, <1>2 DEF InTurn
  <2> QED
    BY <1>1, <2>1, ShowInTurn
<1>4. f[0] = s /\ f[1] = Show(f[0], bytes[1])
  BY <1>1, <1>3 DEF InTurn
<1> QED
  BY <1>1, <1>3, <1>4 DEF bytes

LEMMA ShowTwo == ASSUME NEW s, NEW a, NEW b PROVE ShowAll(s, <<a, b>>) = Show(Show(s, a), b)
<1> DEFINE bytes == <<a, b>>
           x == Show(s, a)
           g == [n \in 0 .. 2 |-> IF n = 0 THEN s ELSE IF n = 1 THEN x ELSE Show(x, b)]
<1>1. Len(bytes) = 2 /\ bytes[1] = a /\ bytes[2] = b
  OBVIOUS
<1>2. g[0] = s /\ g[1] = x /\ g[2] = Show(x, b) /\ DOMAIN g = 0 .. 2 /\ g = [n \in 0 .. 2 |-> g[n]]
  <2> HIDE DEF x
  <2> QED
    OBVIOUS
<1> HIDE DEF bytes, g
<1>3. g = [n \in 0 .. 2 |-> IF n = 0 THEN s ELSE Show(g[n-1], bytes[n])]
  <2>1. \A n \in 0 .. 2 : g[n] = IF n = 0 THEN s ELSE Show(g[n-1], bytes[n])
    BY <1>1, <1>2
  <2> QED
    BY <1>2, <2>1
<1>4. PICK f : InTurn(f, s, bytes) /\ ShowAll(s, bytes) = f[2]
  <2>1. InTurn(g, s, bytes)
    BY <1>1, <1>3 DEF InTurn
  <2> QED
    BY <1>1, <2>1, ShowInTurn
<1>5. f[0] = s /\ f[1] = Show(f[0], bytes[1]) /\ f[2] = Show(f[1], bytes[2])
  BY <1>1, <1>4 DEF InTurn
<1> QED
  BY <1>1, <1>4, <1>5 DEF bytes

LEMMA ShowThree ==
    ASSUME NEW s, NEW a, NEW b, NEW c
    PROVE  ShowAll(s, <<a, b, c>>) = Show(Show(Show(s, a), b), c)
<1> DEFINE bytes == <<a, b, c>>
           x == Show(s, a)
           y == Show(x, b)
           g == [n \in 0 .. 3 |-> IF n = 0 THEN s ELSE IF n = 1 THEN x ELSE IF n = 2 THEN y ELSE Show(y, c)]
<1>1. Len(bytes) = 3 /\ bytes[1] = a /\ bytes[2] = b /\ bytes[3] = c
  OBVIOUS
<1>2. /\ g[0] = s /\ g[1] = x /\ g[2] = y /\ g[3] = Show(y, c)
      /\ DOMAIN g = 0 .. 3 /\ g = [n \in 0 .. 3 |-> g[n]]
  <2> HIDE DEF x, y
  <2> QED
    OBVIOUS
<1> HIDE DEF bytes, g
<1>3. g = [n \in 0 .. 3 |-> IF n = 0 THEN s ELSE Show(g[n-1], bytes[n])]
  <2>1. \A n \in 0 .. 3 : g[n] = IF n = 0 THEN s ELSE Show(g[n-1], bytes[n])
    BY <1>1, <1>2
  <2> QED
    BY <1>2, <2>1
<1>4. PICK f : InTurn(f, s, bytes) /\ ShowAll(s, bytes) = f[3]
  <2>1. InTurn(g, s, bytes)
    BY <1>1, <1>3 DEF InTurn
  <2> QED
    BY <1>1, <2>1, ShowInTurn
<1>5. f[0] = s /\ f[1] = Show(f[0], bytes[1]) /\ f[2] = Show(f[1], bytes[2]) /\ f[3] = Show(f[2], bytes[3])
  BY <1>1, <1>4 DEF InTurn
<1> QED
  BY <1>1, <1>4, <1>5 DEF bytes

\* A line with the cursor on it or right behind it; one with blanks only from the
\* cursor on.
OnLine(s) == s = [text |-> s.text, col |-> s.col] /\ s.text \in Seq(Nat) /\ s.col \in 0 .. Len(s.text)
Clean(s) == OnLine(s) /\ \A k \in s.col + 1 .. Len(s.text) : s.text[k] = SP

LEMMA Joined ==
    ASSUME NEW p \in Seq(Nat), NEW r \in Seq(Nat)
    PROVE  /\ p \o r \in Seq(Nat) /\ Len(p \o r) = Len(p) + Len(r)
           /\ \A k \in 1 .. Len(p) : (p \o r)[k] = p[k]
           /\ \A k \in Len(p) + 1 .. Len(p) + Len(r) : (p \o r)[k] = r[k - Len(p)]
OBVIOUS

LEMMA Printed ==
    ASSUME NEW s, OnLine(s), NEW b \in Nat \ {CR, LF, BS, BEL}
    PROVE  LET t == Show(s, b)
           IN  /\ OnLine(t) /\ t.col = s.col + 1 /\ t.text[t.col] = b
               /\ Len(t.text) = IF s.col = Len(s.text) THEN s.col + 1 ELSE Len(s.text)
               /\ \A k \in 1 .. Len(s.text) : k # s.col + 1 => t.text[k] = s.text[k]
<1> DEFINE x == s.text
           c == s.col
           n == Len(x)
           h == SubSeq(x, 1, c)
           r == SubSeq(x, c + 2, n)
           y == h \o <<b>> \o r
           t == Show(s, b)
<1>1. x \in Seq(Nat) /\ n \in Nat /\ c \in 0 .. n /\ b \in Nat
  BY DEF OnLine
<1>2. t = [text |-> y, col |-> c + 1]
  BY DEF Show
<1>3. t.text = y /\ t.col = c + 1
  <2> HIDE DEF y, c, t
  <2> QED
    BY <1>2
<1> HIDE DEF x, c, n, t
<1>4. h \in Seq(Nat) /\ Len(h) = c /\ \A k \in 1 .. c : h[k] = x[k]
  BY <1>1 DEF n
<1>5. CASE c = n
  <2>1. r = <<>>
    BY <1>1, <1>5 DEF n
  <2>2. y = h \o <<b>>
    <3> DEFINE p == h \o <<b>>
    <3>1. p \in Seq(Nat)
      BY <1>1, <1>4
    <3> HIDE DEF p, h, r
    <3>2. p \o r = p
      BY <2>1, <3>1
    <3> QED
      BY <3>2 DEF p
  <2>3. y \in Seq(Nat) /\ Len(y) = c + 1 /\ y[c + 1] = b /\ \A k \in 1 .. c : y[k] = x[k]
    BY <1>1, <1>4, <2>2
  <2> HIDE DEF y
  <2> QED
    BY <1>1, <1>2, <1>3, <1>5, <2>3 DEF OnLine, t, x, c, n
<1>6. CASE c # n
  <2>1. r \in Seq(Nat) /\ Len(r) = n - (c + 1) /\ \A k \in 1 .. n - (c + 1) : r[k] = x[k + (c + 1)]
    BY <1>1, <1>6 DEF n
  <2>2. /\ h \o <<b>> \in Seq(Nat) /\ Len(h \o <<b>>) = c + 1 /\ (h \o <<b>>)[c + 1] = b
        /\ \A k \in 1 .. c : (h \o <<b>>)[k] = x[k]
    BY <1>1, <1>4
  <2> DEFINE p == h \o <<b>>
             d == c + 1
  <2> HIDE DEF h, r, p
  <2>3. /\ y \in Seq(Nat) /\ Len(y) = n /\ y[d] = b /\ \A k \in 1 .. c : y[k] = x[k]
        /\ \A k \in d + 1 .. n : y[k] = x[k]
    <3>1. p \in Seq(Nat) /\ Len(p) = d /\ y = p \o r /\ d \in Nat /\ d <= n
      BY <1>1, <1>6, <2>2 DEF p
    <3> HIDE DEF y, d
    <3>2. /\ y \in Seq(Nat) /\ Len(y) = d + Len(r) /\ (\A k \in 1 .. d : y[k] = p[k])
          /\ \A k \in d + 1 .. d + Len(r) : y[k] = r[k - d]
      BY <2>1, <3>1, Joined
    <3>3. d + Len(r) = n
      BY <1>1, <2>1, <3>1 DEF d
    <3>4. Len(y) = n /\ \A k \in d + 1 .. n : y[k] = r[k - d]
      BY <3>2, <3>3
    <3>5. \A k \in d + 1 .. n : k - d \in 1 .. n - (c + 1) /\ (k - d) + (c + 1) = k
      BY <1>1 DEF d
    <3>6. \A k \in d + 1 .. n : y[k] = x[k]
      BY <2>1, <3>4, <3>5
    <3>7. d \in 1 .. d /\ \A k \in 1 .. c : k \in 1 .. d
      BY <1>1 DEF d
    <3>8. p[d] = b /\ \A k \in 1 .. c : p[k] = x[k]
      BY <2>2 DEF p, d
    <3> QED
      BY <3>2, <3>4, <3>6, <3>7, <3>8
  <2>4. /\ d \in 1 .. n /\ \A k \in 1 .. n : k # d => k \in 1 .. c \/ k \in d + 1 .. n
    BY <1>1, <1>6
  <2> HIDE DEF y
  <2> QED
    BY <1>1, <1>2, <1>3, <1>6, <2>3, <2>4 DEF OnLine, t, x, c, n
<1> QED
  BY <1>5, <1>6

LEMMA Codes ==
    /\ CR # LF /\ CR # BS /\ CR # BEL /\ LF # BS /\ LF # BEL /\ BS # BEL
    /\ SP \in Nat \ {CR, LF, BS, BEL} /\ DEL # CR /\ {CR, LF, BS, SP} \subseteq Nat
BY DEF CR, LF, BS, BEL, SP, DEL

LEMMA Strung ==
    ASSUME NEW a \in Nat, NEW b \in Nat, NEW c \in Nat
    PROVE  <<a>> \o <<b>> \o <<c>> = <<a, b, c>> /\ <<a, b>> \o <<c>> = <<a, b, c>>
<1> DEFINE p == <<a>> \o <<b>>
           q == <<a, b>>
           r == <<c>>
           t == <<a, b, c>>
<1>1. p \in Seq(Nat) /\ Len(p) = 2 /\ p[1] = a /\ p[2] = b
  OBVIOUS
<1>2. q \in Seq(Nat) /\ Len(q) = 2 /\ q[1] = a /\ q[2] = b
  OBVIOUS
<1>3. r \in Seq(Nat) /\ Len(r) = 1 /\ r[1] = c
  OBVIOUS
<1>4. t \in Seq(Nat) /\ Len(t) = 3 /\ t[1] = a /\ t[2] = b /\ t[3] = c
  OBVIOUS
<1> HIDE DEF p, q, r, t
<1>5. ASSUME NEW y \in Seq(Nat), Len(y) = 2, y[1] = a, y[2] = b PROVE y \o r = t
  <2>1. y \o r \in Seq(Nat) /\ Len(y \o r) = 3 /\ (y \o r)[1] = a /\ (y \o r)[2] = b /\ (y \o r)[3] = c
    <3> DEFINE w == y \o r
    <3>0. /\ w \in Seq(Nat) /\ Len(w) = Len(y) + Len(r)
          /\ \A k \in 1 .. Len(y) : w[k] = y[k]
          /\ \A k \in Len(y) + 1 .. Len(y) + Len(r) : w[k] = r[k - Len(y)]
      BY <1>3, Joined
    <3> HIDE DEF w
    <3>1. /\ w \in Seq(Nat) /\ Len(w) = 2 + 1 /\ (\A k \in 1 .. 2 : w[k] = y[k])
          /\ \A k \in 2 + 1 .. 2 + 1 : w[k] = r[k - 2]
      BY <1>3, <1>5, <3>0
    <3>2. 1 \in 1 .. 2 /\ 2 \in 1 .. 2 /\ 3 \in 2 + 1 .. 2 + 1 /\ 3 - 2 = 1
      OBVIOUS
    <3> QED
      BY <1>3, <1>5, <3>1, <3>2 DEF w
  <2> DEFINE z == y \o r
  <2> HIDE DEF z
  <2>2. \A k \in 1 .. 3 : k = 1 \/ k = 2 \/ k = 3
    OBVIOUS
  <2>3. \A k \in 1 .. 3 : z[k] = t[k]
    BY <1>4, <2>1, <2>2 DEF z
  <2>4. z \in Seq(Nat) /\ Len(z) = Len(t) /\ \A k \in 1 .. Len(z) : z[k] = t[k]
    BY <1>4, <2>1, <2>3 DEF z
  <2>5. z = t
    BY <1>4, <2>4, SeqEqual
  <2> QED
    BY <2>5 DEF z
<1> QED
  BY <1>1, <1>2, <1>5 DEF p, q, r, t

LEMMA BackOne ==
    ASSUME NEW s, OnLine(s), s.col # 0
    PROVE  LET t == Show(s, BS) IN OnLine(t) /\ t.text = s.text /\ t.col = s.col - 1
<1> DEFINE x == s.text
           c == s.col
<1>1. s = [text |-> x, col |-> c] /\ x \in Seq(Nat) /\ Len(x) \in Nat /\ c \in 0 .. Len(x)
  BY DEF OnLine
<1>2. Show(s, BS) = [s EXCEPT !.col = IF @ = 0 THEN 0 ELSE @ - 1]
  BY Codes DEF Show
<1>3. [s EXCEPT !.col = IF @ = 0 THEN 0 ELSE @ - 1] = [text |-> x, col |-> c - 1]
  BY <1>1
<1> HIDE DEF x, c
<1>4. c - 1 \in 0 .. Len(x)
  BY <1>1 DEF c
<1> QED
  BY <1>1, <1>2, <1>3, <1>4 DEF OnLine, x, c

\* What an erase echoes: one character less, and blanks behind the rest.
LEMMA ErasedOnScreen ==
    ASSUME NEW s, Clean(s), s.col # 0
    PROVE  LET t == ShowAll(s, EchoBS)
           IN  /\ Clean(t) /\ t.col = s.col - 1
               /\ \A k \in 1 .. s.col - 1 : t.text[k] = s.text[k]
<1> DEFINE p == Show(s, BS)
           q == Show(p, SP)
           t == Show(q, BS)
           n == Len(s.text)
           c == s.col
<1>1. EchoBS = <<BS, SP, BS>>
  <2>1. serial_putc(BS) = <<BS>> /\ serial_putc(SP) = <<SP>>
    BY Codes DEF serial_putc
  <2>2. BS \in Nat /\ SP \in Nat
    BY Codes
  <2>3. <<BS>> \o <<SP>> \o <<BS>> = <<BS, SP, BS>>
    BY <2>2, Strung
  <2> QED
    BY <2>1, <2>3, Zenon DEF EchoBS
<1>2. ShowAll(s, EchoBS) = t
  BY <1>1, ShowThree
<1>3. OnLine(s) /\ s.text \in Seq(Nat) /\ n \in Nat /\ c \in 1 .. n
  BY DEF Clean, OnLine
<1>4. OnLine(p) /\ p.text = s.text /\ p.col = c - 1
  BY <1>3, BackOne
<1>5. SP \in Nat \ {CR, LF, BS, BEL}
  BY DEF SP, CR, LF, BS, BEL
<1> HIDE DEF p
<1>6. /\ OnLine(q) /\ q.col = p.col + 1 /\ q.text[q.col] = SP
      /\ Len(q.text) = IF p.col = Len(p.text) THEN p.col + 1 ELSE Len(p.text)
      /\ \A k \in 1 .. Len(p.text) : k # p.col + 1 => q.text[k] = p.text[k]
  BY <1>4, <1>5, Printed
<1> HIDE DEF q
<1>7. p.col + 1 = c /\ p.col # n
  BY <1>3, <1>4
<1>8. q.col = c /\ q.text[c] = SP /\ Len(q.text) = n /\ \A k \in 1 .. n : k # c => q.text[k] = s.text[k]
  BY <1>4, <1>6, <1>7
<1>9. OnLine(t) /\ t.text = q.text /\ t.col = c - 1
  <2>1. q.col # 0
    BY <1>3, <1>8
  <2> QED
    BY <1>6, <1>8, <2>1, BackOne
<1> HIDE DEF t, c, n
<1>10. \A k \in c + 1 .. n : s.text[k] = SP
  BY DEF Clean, c, n
<1>11. \A k \in (c - 1) + 1 .. n : k = c \/ k \in c + 1 .. n
  BY <1>3
<1>12. \A k \in c + 1 .. n : k \in 1 .. n /\ k # c
  BY <1>3
<1>13. \A k \in (c - 1) + 1 .. n : t.text[k] = SP
  BY <1>8, <1>9, <1>10, <1>11, <1>12
<1>14. \A k \in 1 .. c - 1 : k \in 1 .. n /\ k # c
  BY <1>3
<1>15. \A k \in 1 .. c - 1 : t.text[k] = s.text[k]
  BY <1>8, <1>9, <1>14
<1>16. Clean(t)
  BY <1>8, <1>9, <1>13 DEF Clean
<1> QED
  BY <1>2, <1>9, <1>15, <1>16 DEF c

\* What a character echoes: it stands behind the rest.
LEMMA TypedOnScreen ==
    ASSUME NEW s, Clean(s), NEW b \in Nat \ {CR, LF, BS, BEL}
    PROVE  LET t == ShowAll(s, <<b>>)
           IN  /\ Clean(t) /\ t.col = s.col + 1 /\ t.text[s.col + 1] = b
               /\ \A k \in 1 .. s.col : t.text[k] = s.text[k]
<1> DEFINE t == Show(s, b)
           n == Len(s.text)
           c == s.col
<1>1. ShowAll(s, <<b>>) = t
  BY ShowOne
<1>2. OnLine(s) /\ s.text \in Seq(Nat) /\ n \in Nat /\ c \in 0 .. n
  BY DEF Clean, OnLine
<1>3. /\ OnLine(t) /\ t.col = c + 1 /\ t.text[t.col] = b
      /\ Len(t.text) = IF c = n THEN c + 1 ELSE n
      /\ \A k \in 1 .. n : k # c + 1 => t.text[k] = s.text[k]
  BY <1>2, Printed
<1>4. \A k \in c + 1 .. n : s.text[k] = SP
  BY DEF Clean
<1> HIDE DEF t, c, n
<1>5. \A k \in (c + 1) + 1 .. Len(t.text) : k \in c + 1 .. n /\ k \in 1 .. n /\ k # c + 1
  BY <1>2, <1>3
<1>6. \A k \in 1 .. c : k \in 1 .. n /\ k # c + 1
  BY <1>2
<1>7. \A k \in (c + 1) + 1 .. Len(t.text) : t.text[k] = SP
  BY <1>3, <1>4, <1>5
<1>8. \A k \in 1 .. c : t.text[k] = s.text[k]
  BY <1>3, <1>6
<1>9. Clean(t)
  BY <1>3, <1>7 DEF Clean
<1> QED
  BY <1>1, <1>3, <1>8, <1>9 DEF c

\* A new line is blank up to the cursor and empty behind it.
LEMMA NewLine ==
    ASSUME NEW s, Clean(s)
    PROVE  /\ Clean(Show(s, LF)) /\ Clean(Show(Show(s, CR), LF)) /\ Show(Show(Show(s, CR), LF), CR) = Show(Show(s, CR), LF)
<1> DEFINE x == s.text
           c == s.col
           Blank(n) == [k \in 1 .. n |-> SP]
           At(n) == [text |-> Blank(n), col |-> n]
<1>1. s = [text |-> x, col |-> c] /\ x \in Seq(Nat) /\ c \in Nat
  BY DEF Clean, OnLine
<1> HIDE DEF x, c
<1>2. Show(s, LF) = At(c)
  <2>1. Show(s, LF) = [s EXCEPT !.text = [k \in 1 .. s.col |-> SP]]
    BY Codes DEF Show
  <2> QED
    BY <1>1, <2>1
<1>3. Show(s, CR) = [text |-> x, col |-> 0]
  <2>1. Show(s, CR) = [s EXCEPT !.col = 0]
    BY Codes DEF Show
  <2> QED
    BY <1>1, <2>1
<1>4. Show([text |-> x, col |-> 0], LF) = At(0)
  BY Codes DEF Show
<1>5. Show(At(0), CR) = At(0)
  BY Codes DEF Show
<1>6. ASSUME NEW n \in Nat PROVE Clean(At(n))
  <2>1. Blank(n) \in Seq(Nat) /\ Len(Blank(n)) = n
    BY <1>6 DEF SP
  <2>2. n + 1 .. n = {} /\ n \in 0 .. n
    BY <1>6
  <2> HIDE DEF Blank
  <2> QED
    BY <2>1, <2>2 DEF Clean, OnLine
<1> HIDE DEF At
<1> QED
  BY <1>1, <1>2, <1>3, <1>4, <1>5, <1>6

\* What a program writes between its reads, in either mode, and what ends a line.
LEMMA WrittenOnScreen ==
    ASSUME NEW s, Clean(s)
    PROVE  /\ Clean(ShowAll(s, <<SP>>)) /\ Clean(ShowAll(s, <<LF>>)) /\ Clean(ShowAll(s, <<CR, LF>>))
           /\ Clean(ShowAll(s, EchoCR)) /\ ShowAll(s, <<BEL>>) = s
<1>1. SP \in Nat \ {CR, LF, BS, BEL}
  BY DEF SP, CR, LF, BS, BEL
<1>2. Clean(ShowAll(s, <<SP>>))
  BY <1>1, TypedOnScreen
<1>3. Clean(ShowAll(s, <<LF>>)) /\ Clean(ShowAll(s, <<CR, LF>>))
  BY ShowOne, ShowTwo, NewLine
<1>4. EchoCR = <<CR, LF, CR>>
  <2>1. serial_putc(LF) = <<CR, LF>> /\ serial_putc(CR) = <<CR>>
    BY Codes DEF serial_putc
  <2>2. CR \in Nat /\ LF \in Nat
    BY Codes
  <2>3. <<CR, LF>> \o <<CR>> = <<CR, LF, CR>>
    BY <2>2, Strung
  <2> QED
    BY <2>1, <2>3, Zenon DEF EchoCR
<1>5. Clean(ShowAll(s, EchoCR))
  BY <1>4, ShowThree, NewLine
<1>6. Show(s, BEL) = s
  BY Codes DEF Show
<1> QED
  BY <1>2, <1>3, <1>5, <1>6, ShowOne

\* The buffer of a read in progress stands behind the place where it began.
Shown(s, c) ==
    c.op = "line" => /\ c.at \in Nat /\ s.col = c.at + Len(c.buf)
                     /\ \A k \in 1 .. Len(c.buf) : s.text[c.at + k] = c.buf[k]

LEMMA KeyShows ==
    ASSUME NEW c, LineOK(c), c.op = "line", NEW s, Clean(s), Shown(s, c), NEW b \in Nat \ {0, LF, BEL}
    PROVE  LET r == LineByte([c EXCEPT !.keys = Append(@, b)], b)
           IN  Clean(ShowAll(s, r.echo)) /\ Shown(ShowAll(s, r.echo), r.call)
<1> DEFINE l == c.left
           u == c.buf
           o == c.keys
           q == Append(o, b)
           a == c.at
           r == Typing(l, u, q, a, b)
           t == ShowAll(s, r.echo)
<1>1. c = Reading("line", l, u, o, a)
  BY DEF LineOK, ReadForm, Reading
<1>2. [c EXCEPT !.keys = Append(@, b)] = Reading("line", l, u, q, a)
  <2> HIDE DEF q
  <2>1. [c EXCEPT !.keys = q] = Reading("line", l, u, q, a)
    BY <1>1 DEF Reading
  <2> QED
    BY <1>1, <2>1 DEF q, Reading
<1>3. o \in Seq(Nat) /\ u = Surviving(o) /\ l \in Nat
  BY DEF LineOK
<1>4. u \in Seq(Nat) /\ Len(u) \in Nat
  BY <1>3, SurvivingForm
<1>5. a \in Nat /\ s.col = a + Len(u) /\ \A k \in 1 .. Len(u) : s.text[a + k] = u[k]
  BY DEF Shown
<1> HIDE DEF l, u, o, a, q
<1>6. r = Outcome(l, u, q, a, b)
  BY <1>3, <1>4, LineByteIs
<1> SUFFICES Clean(t) /\ Shown(t, r.call)
  BY <1>2 DEF Typing
<1>7. CASE b = CR
  <2>1. r.echo = EchoCR /\ r.call = Reading("done", l, u, q, a)
    BY <1>6, <1>7 DEF Outcome
  <2>2. r.call.op = "done"
    BY <2>1 DEF Reading
  <2> QED
    BY <2>1, <2>2, WrittenOnScreen DEF Shown
<1>8. CASE b # CR /\ Erase(b) /\ Len(u) # 0
  <2> DEFINE fr == Front(u)
             d == Len(u) - 1
             x == r.call
  <2>1. r.echo = EchoBS /\ x = Reading("line", l + 1, fr, q, a)
    BY <1>6, <1>8 DEF Outcome
  <2>2. u # <<>>
    BY <1>8
  <2>3. Len(fr) = d /\ d \in Nat /\ \A k \in 1 .. d : fr[k] = u[k]
    <3>1. Len(Front(u)) = Len(u) - 1 /\ Len(u) > 0 /\ \A k \in 1 .. Len(u) - 1 : Front(u)[k] = u[k]
      BY <1>4, <2>2, FrontOf
    <3> QED
      BY <1>4, <3>1
  <2> HIDE DEF fr, r
  <2>4. x.op = "line" /\ x.buf = fr /\ x.at = a
    BY <2>1 DEF Reading
  <2>5. s.col # 0 /\ s.col - 1 = a + d /\ s.col \in Nat
    BY <1>4, <1>5, <1>8
  <2>6. Clean(t) /\ t.col = a + d /\ \A k \in 1 .. a + d : t.text[k] = s.text[k]
    BY <2>1, <2>5, ErasedOnScreen
  <2> HIDE DEF t, x, d
  <2>7. ASSUME NEW k \in 1 .. d PROVE t.text[a + k] = fr[k]
    <3>1. a + k \in 1 .. a + d
      BY <1>5, <2>3
    <3>2. k \in 1 .. Len(u)
      BY <1>4, <2>3 DEF d
    <3> QED
      BY <1>5, <2>3, <2>6, <3>1, <3>2
  <2> QED
    BY <1>5, <2>3, <2>4, <2>6, <2>7 DEF Shown, x
<1>9. CASE b # CR /\ Erase(b) /\ Len(u) = 0
  <2>1. r.echo = serial_putc(BEL) /\ r.call = Reading("line", l, u, q, a)
    BY <1>6, <1>9 DEF Outcome
  <2>2. serial_putc(BEL) = <<BEL>>
    BY Codes DEF serial_putc
  <2>3. t = s
    BY <2>1, <2>2, WrittenOnScreen
  <2>4. r.call.op = "line" /\ r.call.buf = u /\ r.call.at = a
    BY <2>1 DEF Reading
  <2> HIDE DEF t, r
  <2> QED
    BY <1>5, <2>3, <2>4 DEF Shown
<1>10. CASE b # CR /\ ~Erase(b)
  <2> DEFINE ap == Append(u, b)
             p == IF l - 1 = 0 THEN "done" ELSE "line"
             x == r.call
             n == Len(u)
  <2>1. r.echo = serial_putc(b) /\ x = Reading(p, l - 1, ap, q, a)
    BY <1>6, <1>10 DEF Outcome
  <2>2. b \in Nat \ {CR, LF, BS, BEL}
    BY <1>10 DEF Erase
  <2>3. serial_putc(b) = <<b>>
    BY <2>2 DEF serial_putc
  <2> HIDE DEF p, r
  <2>4. x.buf = ap /\ x.at = a
    <3> HIDE DEF ap
    <3> QED
      BY <2>1 DEF Reading
  <2>5. Clean(t) /\ t.col = s.col + 1 /\ t.text[s.col + 1] = b /\ \A k \in 1 .. s.col : t.text[k] = s.text[k]
    BY <2>1, <2>2, <2>3, TypedOnScreen
  <2>6. Len(ap) = n + 1 /\ ap[n + 1] = b /\ \A k \in 1 .. n : ap[k] = u[k]
    BY <1>4
  <2> HIDE DEF t, x, ap, n
  <2>7. n \in Nat /\ s.col = a + n /\ \A k \in 1 .. n : s.text[a + k] = u[k]
    BY <1>4, <1>5 DEF n
  <2>8. ASSUME NEW k \in 1 .. n + 1 PROVE t.text[a + k] = ap[k]
    <3>1. CASE k = n + 1
      <4>1. a + k = s.col + 1
        BY <1>5, <2>7, <3>1
      <4> QED
        BY <2>5, <2>6, <3>1, <4>1
    <3>2. CASE k # n + 1
      <4>1. k \in 1 .. n /\ a + k \in 1 .. s.col
        BY <1>5, <2>7, <3>2
      <4> QED
        BY <2>5, <2>6, <2>7, <4>1
    <3> QED
      BY <3>1, <3>2
  <2>9. t.col = a + (n + 1)
    BY <1>5, <2>5, <2>7
  <2> QED
    BY <1>5, <2>4, <2>5, <2>6, <2>8, <2>9 DEF Shown, x
<1> QED
  BY <1>7, <1>8, <1>9, <1>10

ScreenInv == LineInv /\ PlainKeys /\ Clean(screen) /\ Shown(screen, call)

LEMMA ScreenInit == PlainKeys /\ ConsoleInit => ScreenInv
<1> SUFFICES ASSUME PlainKeys, ConsoleInit PROVE ScreenInv
  OBVIOUS
<1>1. screen = [text |-> <<>>, col |-> 0] /\ call.op # "line"
  BY DEF ConsoleInit, Idle
<1>2. Clean(screen)
  BY <1>1 DEF Clean, OnLine
<1> QED
  BY <1>1, <1>2, LineInit DEF ScreenInv, Shown

LEMMA ScreenStep == ScreenInv /\ [ConsoleNext]_consvars => ScreenInv'
<1> SUFFICES ASSUME ScreenInv, [ConsoleNext]_consvars PROVE Clean(screen') /\ Shown(screen', call')
  BY LineStep DEF ScreenInv, PlainKeys
<1>0. LineInv /\ PollInv /\ FifoInv /\ LineOK(call) /\ LineOK(call') /\ Clean(screen) /\ Shown(screen, call)
  BY LineStep DEF ScreenInv, LineInv, PollInv
<1>1. ASSUME UNCHANGED screen, UNCHANGED call \/ call'.op # "line" PROVE Clean(screen') /\ Shown(screen', call')
  BY <1>0, <1>1 DEF Shown
<1>2. CASE Terminal \/ Tick \/ UNCHANGED consvars
  BY <1>1, <1>2 DEF Terminal, Send, Arrive, fifo_write, Tick, consvars
<1>3. CASE Forget
  BY <1>1, <1>3 DEF Forget, Idle
<1>4. CASE console_read_raw
  <2>1. call.op = "raw" /\ ReadForm(call) /\ UNCHANGED screen
    BY <1>0, <1>4 DEF console_read_raw, LineOK
  <2> DEFINE left == call.left - 1
             buf == Append(call.buf, uart_byte)
             c == [call EXCEPT !.left = left, !.buf = buf]
  <2>2. [call EXCEPT !.left = @ - 1, !.buf = Append(@, uart_byte)] = c
    BY <2>1 DEF ReadForm
  <2>3. c.op = "raw" /\ Returned(c).op = "done"
    <3> HIDE DEF left, buf
    <3>1. ReadForm(c) /\ c.op = "raw"
      BY <2>1, Edited
    <3> QED
      BY <3>1, Ended
  <2> HIDE DEF c
  <2>4. call' = c \/ call' = Returned(c)
    BY <1>4, <2>2 DEF console_read_raw
  <2> QED
    BY <1>1, <2>1, <2>3, <2>4
<1>5. CASE console_read_interactive
  <2>1. call.op = "line" /\ data_ready
    BY <1>5 DEF console_read_interactive, fifo_read
  <2>2. uart_byte \in Nat \ {0, LF, BEL}
    <3>1. uart_byte \in Keys
      BY <1>0, <2>1, ByteRead
    <3> QED
      BY <3>1, ConsoleAssumption DEF ScreenInv, PlainKeys
  <2> DEFINE b == uart_byte
             r == LineByte([call EXCEPT !.keys = Append(@, b)], b)
  <2>3. call' = r.call /\ screen' = ShowAll(screen, r.echo)
    BY <1>5 DEF console_read_interactive
  <2> HIDE DEF b
  <2>4. b \in Nat \ {0, LF, BEL}
    BY <2>2 DEF b
  <2>5. Clean(ShowAll(screen, r.echo)) /\ Shown(ShowAll(screen, r.echo), r.call)
    BY <1>0, <2>1, <2>4, KeyShows
  <2> QED
    BY <2>3, <2>5
<1>6. CASE PollOne \/ PollRound \/ \E fds \in PollLists, t \in Timeouts : SYS_poll(fds, t)
  <2>1. UNCHANGED screen
    BY <1>6 DEF PollOne, PollRound, SYS_poll
  <2>2. call'.op \in PollOps
    BY <1>0, <1>6, PollGoesOn
  <2>3. call'.op # "line"
    BY <2>2 DEF PollOps
  <2> QED
    BY <1>1, <2>1, <2>3
<1>7. ASSUME NEW n \in Counts, console_read(n) PROVE Clean(screen') /\ Shown(screen', call')
  <2>1. CASE n = 0
    BY <1>1, <1>7, <2>1 DEF console_read, Idle
  <2>2. CASE n # 0
    <3>1. PICK o : call' = [op |-> o, left |-> n, buf |-> <<>>, keys |-> <<>>, at |-> screen.col]
      BY <1>7, <2>2 DEF console_read
    <3>2. call'.buf = <<>> /\ call'.at = screen.col /\ UNCHANGED screen
      BY <1>7, <3>1 DEF console_read
    <3>3. screen.col \in Nat /\ screen.col = screen.col + Len(<<>>) /\ 1 .. Len(<<>>) = {}
      <4>1. Len(screen.text) \in Nat /\ screen.col \in 0 .. Len(screen.text)
        BY <1>0 DEF Clean, OnLine
      <4> QED
        BY <4>1
    <3> QED
      BY <1>0, <3>2, <3>3 DEF Shown
  <2> QED
    BY <2>1, <2>2
<1>8. ASSUME NEW b \in {SP, LF}, console_write(b) PROVE Clean(screen') /\ Shown(screen', call')
  <2>1. call' = call /\ call.op = "idle" /\ screen' = ShowAll(screen, IF raw THEN <<b>> ELSE serial_putc(b))
    BY <1>8 DEF console_write
  <2>2. serial_putc(SP) = <<SP>> /\ serial_putc(LF) = <<CR, LF>>
    BY Codes DEF serial_putc
  <2>3. Clean(screen')
    BY <1>0, <2>1, <2>2, WrittenOnScreen
  <2> QED
    BY <2>1, <2>3 DEF Shown
<1>9. CASE \E r \in BOOLEAN : console_ioctl(r)
  BY <1>1, <1>9 DEF console_ioctl
<1> QED
  BY <1>2, <1>3, <1>4, <1>5, <1>6, <1>7, <1>8, <1>9 DEF ConsoleNext, Kernel, Program

LEMMA ScreenFollows == ScreenInv => ScreenShowsLine
<1> SUFFICES ASSUME ScreenInv, call.op = "line"
             PROVE  /\ screen.col = call.at + Len(call.buf)
                    /\ SubSeq(screen.text, call.at + 1, screen.col) = call.buf
                    /\ \A k \in screen.col + 1 .. Len(screen.text) : screen.text[k] = SP
  BY DEF ScreenShowsLine
<1> DEFINE x == screen.text
           u == call.buf
           a == call.at
           n == Len(u)
           c == screen.col
           y == SubSeq(x, a + 1, c)
<1>1. u \in Seq(Nat) /\ n \in Nat
  <2>1. call.keys \in Seq(Nat) /\ u = Surviving(call.keys)
    BY DEF ScreenInv, LineInv, LineOK
  <2> QED
    BY <2>1, SurvivingForm
<1>2. /\ x \in Seq(Nat) /\ Len(x) \in Nat /\ c \in 0 .. Len(x) /\ a \in Nat /\ c = a + n
      /\ \A k \in 1 .. n : x[a + k] = u[k]
  BY DEF ScreenInv, Clean, OnLine, Shown
<1>3. \A k \in c + 1 .. Len(x) : x[k] = SP
  BY DEF ScreenInv, Clean
<1> HIDE DEF x, u, a, n, c
<1>4. y \in Seq(Nat) /\ Len(y) = n /\ \A k \in 1 .. n : y[k] = x[a + k]
  <2>1. a + 1 \in Nat /\ c - (a + 1) + 1 = n /\ \A k \in 1 .. n : (a + 1) + k - 1 = a + k
    BY <1>1, <1>2
  <2>2. \A k \in a + 1 .. c : k \in 1 .. Len(x)
    BY <1>1, <1>2
  <2> QED
    BY <1>1, <1>2, <2>1, <2>2
<1> HIDE DEF y
<1>5. y = u
  <2>1. Len(y) = Len(u) /\ \A k \in 1 .. Len(y) : y[k] = u[k]
    BY <1>2, <1>4 DEF n
  <2> QED
    BY <1>1, <1>4, <2>1, SeqEqual
<1> QED
  BY <1>2, <1>3, <1>5 DEF x, u, a, n, c, y

\* console_read_interactive() and its echo for any plain keys (line feed and bell
\* excepted: their echo leaves the line, or no mark on it), any arrival of them and
\* any prompts before: all the while the terminal shows the buffer that the read will
\* return, and the read returns what is left of the keys.
THEOREM LineAndScreenAgree == PlainKeys /\ ConsoleSpec => []LineAgrees
<1>1. ScreenInv => LineAgrees
  BY ScreenFollows DEF ScreenInv, LineInv, LineOK, LineEdited, LineAgrees
<1> QED
  BY <1>1, ScreenInit, ScreenStep, PTL DEF ConsoleSpec
=============================================================================
