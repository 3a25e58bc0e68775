------------------------------- MODULE Console -------------------------------
(***************************************************************************)
(* The serial console with the hardware FIFO: fifo.v and fifo_uart.v       *)
(* between the terminal and the processor, console.c on top of them, and   *)
(* poll.c, which waits for input with a timeout.                           *)
(***************************************************************************)
EXTENDS Ranks, Sequences, FiniteSetsExt, SequencesExt

CONSTANTS
    FIFO_SIZE,      \* slots of the FIFO, of which one stays empty (512)
    Keys,           \* bytes the terminal sends
    Counts,         \* lengths of read calls
    Timeouts,       \* timeouts of poll calls, in ms
    PollLists,      \* descriptors of poll calls, as sequences
    Stale,          \* what the caller's list may have in its revents
    TimeMod,        \* 2^64, what the arithmetic on times wraps at
    MaxKeys,        \* bytes the terminal sends in all
    MaxTime,        \* how far the clock runs
    MaxCalls        \* reads, writes and polls

ASSUME ConsoleAssumption ==
    /\ FIFO_SIZE \in Nat /\ FIFO_SIZE > 1
    /\ MaxTime \in Nat /\ TimeMod \in Nat /\ TimeMod > MaxTime
    /\ Keys \subseteq Nat \ {0} /\ Counts \subseteq Nat
    /\ Timeouts \subseteq Int /\ PollLists \subseteq Seq(Int)

ASSUME StaleAssumption == Stale \subseteq {"", "POLLIN", "POLLERR"}

CR == 13
LF == 10
BS == 8
DEL == 127
BEL == 7
SP == 32
NoByte == 0
ConsoleFd == 0

VARIABLES
    fifo_buf, fifo_in_ptr, fifo_out_ptr,
    held,           \* the byte in the UART's receive register
    wire,           \* the byte that is being sent to the UART
    raw,            \* CONSOLE_RAW of cons_control
    call,           \* the system call in progress
    screen,         \* the terminal's current line and cursor
    now,            \* get_ms()
    queue,          \* history: bytes sent and not yet read
    typed,          \* how many bytes were sent
    calls

hardware == <<fifo_buf, fifo_in_ptr, fifo_out_ptr, held, wire>>
consvars == <<hardware, raw, call, screen, now, queue, typed, calls>>

Idle == [op |-> "idle"]

ConsoleInit ==
    /\ fifo_buf = [k \in 0 .. FIFO_SIZE - 1 |-> NoByte]
    /\ fifo_in_ptr = 0 /\ fifo_out_ptr = 0 /\ held = NoByte /\ wire = NoByte
    /\ raw = FALSE /\ call = Idle /\ screen = [text |-> <<>>, col |-> 0]
    /\ now = 0 /\ queue = <<>> /\ typed = 0 /\ calls = 0

-----------------------------------------------------------------------------
(* fifo.v and fifo_uart.v *)

avail == (fifo_in_ptr - fifo_out_ptr) % FIFO_SIZE
data_ready == fifo_in_ptr # fifo_out_ptr

(* Mutant: a FIFO that is full when all its slots are taken. *)
AllSlots == avail = FIFO_SIZE

full == avail = FIFO_SIZE - 1

(* The terminal begins a byte while cts says there is room. *)
Send(b) ==
    /\ typed < MaxKeys /\ wire = NoByte /\ ~full
    /\ wire' = b /\ queue' = Append(queue, b) /\ typed' = typed + 1
    /\ UNCHANGED <<fifo_buf, fifo_in_ptr, fifo_out_ptr, held, raw, call, screen, now, calls>>

(* A byte is complete.  The FIFO has long taken the one before, if it had  *)
(* room: that takes two clocks.                                            *)
Arrive ==
    /\ wire # NoByte /\ (held = NoByte \/ full)
    /\ held' = wire /\ wire' = NoByte
    /\ UNCHANGED <<fifo_buf, fifo_in_ptr, fifo_out_ptr, raw, call, screen, now, queue, typed, calls>>

fifo_write ==
    /\ held # NoByte /\ ~full
    /\ fifo_buf' = [fifo_buf EXCEPT ![fifo_in_ptr] = held]
    /\ fifo_in_ptr' = (fifo_in_ptr + 1) % FIFO_SIZE
    /\ held' = NoByte
    /\ UNCHANGED <<fifo_out_ptr, wire, raw, call, screen, now, queue, typed, calls>>

(* The processor reads the data register. *)
uart_byte == fifo_buf[fifo_out_ptr]
fifo_read ==
    /\ data_ready
    /\ fifo_out_ptr' = (fifo_out_ptr + 1) % FIFO_SIZE
    /\ queue' = Tail(queue)
    /\ UNCHANGED <<fifo_buf, fifo_in_ptr, held, wire, typed>>

-----------------------------------------------------------------------------
(* Output: what a byte does to the terminal's line, and what serial_putc   *)
(* sends for a byte.                                                       *)

Show(s, b) ==
    CASE b = CR -> [s EXCEPT !.col = 0]
      [] b = LF -> [s EXCEPT !.text = [k \in 1 .. s.col |-> SP]]
      [] b = BS -> [s EXCEPT !.col = IF @ = 0 THEN 0 ELSE @ - 1]
      [] b = BEL -> s
      [] OTHER -> [text |-> SubSeq(s.text, 1, s.col) \o <<b>> \o
                            SubSeq(s.text, s.col + 2, Len(s.text)),
                   col |-> s.col + 1]
ShowAll(s, bytes) ==
    LET shown[n \in 0 .. Len(bytes)] == IF n = 0 THEN s ELSE Show(shown[n - 1], bytes[n])
    IN  shown[Len(bytes)]

serial_putc(b) == IF b = LF THEN <<CR, LF>> ELSE <<b>>
EchoCR == serial_putc(LF) \o serial_putc(CR)

(* Mutant: the cursor goes back but the character stays. *)
BackOnly == serial_putc(BS)

EchoBS == serial_putc(BS) \o serial_putc(SP) \o serial_putc(BS)

-----------------------------------------------------------------------------
(* console.c *)

Counted == calls < MaxCalls /\ calls' = calls + 1

console_read(n) ==
    /\ call.op = "idle" /\ Counted
    /\ call' = IF n = 0 THEN Idle
               ELSE [op |-> IF raw THEN "raw" ELSE "line", left |-> n, buf |-> <<>>,
                     keys |-> <<>>, at |-> screen.col]
    /\ UNCHANGED <<hardware, raw, screen, now, queue, typed>>

(* The read returns: its result is kept for one state. *)
Returned(c) == [c EXCEPT !.op = "done"]

Forget ==
    /\ call.op \in {"done", "polled"} /\ call' = Idle
    /\ UNCHANGED <<hardware, raw, screen, now, queue, typed, calls>>

console_read_raw ==
    /\ call.op = "raw" /\ fifo_read
    /\ LET c == [call EXCEPT !.left = @ - 1, !.buf = Append(@, uart_byte)]
       IN  call' = IF c.left = 0 THEN Returned(c) ELSE c
    /\ UNCHANGED <<raw, screen, now, calls>>

(* Mutant: a character taken back does not make room again. *)
NoRoomAgain(c, b) ==
    CASE b = CR -> [call |-> Returned(c), echo |-> EchoCR]
      [] b \in {BS, DEL} /\ c.buf # <<>> ->
            [call |-> [c EXCEPT !.buf = Front(@)], echo |-> EchoBS]
      [] b \in {BS, DEL} /\ c.buf = <<>> -> [call |-> c, echo |-> serial_putc(BEL)]
      [] OTHER ->
            LET k == [c EXCEPT !.buf = Append(@, b), !.left = @ - 1]
            IN  [call |-> IF k.left = 0 THEN Returned(k) ELSE k, echo |-> serial_putc(b)]

(* One byte of the interactive read: the call afterwards and the echo. *)
LineByte(c, b) ==
    CASE b = CR -> [call |-> Returned(c), echo |-> EchoCR]
      [] b \in {BS, DEL} /\ c.buf # <<>> ->
            [call |-> [c EXCEPT !.buf = Front(@), !.left = @ + 1], echo |-> EchoBS]
      [] b \in {BS, DEL} /\ c.buf = <<>> -> [call |-> c, echo |-> serial_putc(BEL)]
      [] OTHER ->
            LET k == [c EXCEPT !.buf = Append(@, b), !.left = @ - 1]
            IN  [call |-> IF k.left = 0 THEN Returned(k) ELSE k, echo |-> serial_putc(b)]

console_read_interactive ==
    /\ call.op = "line" /\ fifo_read
    /\ LET r == LineByte([call EXCEPT !.keys = Append(@, uart_byte)], uart_byte)
       IN  call' = r.call /\ screen' = ShowAll(screen, r.echo)
    /\ UNCHANGED <<raw, now, calls>>

(* A prompt, or a line feed, which raw mode sends as it is. *)
console_write(b) ==
    /\ call.op = "idle" /\ Counted
    /\ screen' = ShowAll(screen, IF raw THEN <<b>> ELSE serial_putc(b))
    /\ UNCHANGED <<hardware, raw, call, now, queue, typed>>

(* CONSOLE_SET_RAW and CONSOLE_SET_INTERACTIVE; CONSOLE_DISCARD_RXBUF is   *)
(* refused in this build and changes nothing.                              *)
console_ioctl(r) ==
    /\ call.op = "idle" /\ raw # r /\ Counted /\ raw' = r
    /\ UNCHANGED <<hardware, call, screen, now, queue, typed>>

console_peek == avail

-----------------------------------------------------------------------------
(* poll.c *)

Tick ==
    /\ now < MaxTime /\ now' = now + 1
    /\ UNCHANGED <<hardware, raw, call, screen, queue, typed, calls>>

(* Only the console and a descriptor that is not open are polled. *)
SYS_peek(fd) == IF fd = ConsoleFd THEN console_peek ELSE -1

(* The caller's list comes with what is in its revents. *)
SYS_poll(fds, timeout) ==
    /\ call.op = "idle" /\ Counted /\ now + timeout <= MaxTime
    /\ \E old \in [DOMAIN fds -> Stale] :
          call' = [op |-> "poll", fds |-> fds, i |-> 1, timeout |-> timeout, since |-> now,
                   end |-> (now + timeout) % TimeMod, revents |-> old, ready |-> 0, seen |-> 0]
    /\ UNCHANGED <<hardware, raw, screen, now, queue, typed>>

(* Mutant: an event of the caller's list stays when there is none now. *)
EventStays ==
    /\ call.op = "poll" /\ call.i <= Len(call.fds)
    /\ LET fd == call.fds[call.i]
           bytes == SYS_peek(fd)
           event == CASE bytes < 0 -> "POLLERR" [] bytes = 0 -> call.revents[call.i]
                      [] OTHER -> "POLLIN"
       IN  call' = IF fd < 0 THEN [call EXCEPT !.i = @ + 1]
                   ELSE [call EXCEPT !.i = @ + 1, !.revents[call.i] = event,
                                     !.ready = @ + (IF bytes = 0 THEN 0 ELSE 1),
                                     !.seen = IF fd = ConsoleFd THEN bytes ELSE @]
    /\ UNCHANGED <<hardware, raw, screen, now, queue, typed, calls>>

(* One descriptor of the round.  Negative ones are skipped, and their      *)
(* revents stay as the caller left them.  seen counts, for the properties, *)
(* what the console had when it was looked at.                             *)
PollOne ==
    /\ call.op = "poll" /\ call.i <= Len(call.fds)
    /\ LET fd == call.fds[call.i]
           bytes == SYS_peek(fd)
           event == CASE bytes < 0 -> "POLLERR" [] bytes = 0 -> "" [] OTHER -> "POLLIN"
       IN  call' = IF fd < 0 THEN [call EXCEPT !.i = @ + 1]
                   ELSE [call EXCEPT !.i = @ + 1, !.revents[call.i] = event,
                                     !.ready = @ + (IF event = "" THEN 0 ELSE 1),
                                     !.seen = IF fd = ConsoleFd THEN bytes ELSE @]
    /\ UNCHANGED <<hardware, raw, screen, now, queue, typed, calls>>

(* Mutant: the timeout is measured from the end of the last round. *)
EveryRound == call.timeout = 0 \/ now < (now + call.timeout) % TimeMod

(* Mutant: the wait ends a millisecond early. *)
EndsEarly == call.timeout = 0 \/ now + 1 < call.end

GoesOn == call.timeout = 0 \/ now < call.end

PollRound ==
    /\ call.op = "poll" /\ call.i > Len(call.fds)
    /\ call' = IF call.ready = 0 /\ GoesOn THEN [call EXCEPT !.i = 1]
               ELSE [call EXCEPT !.op = "polled"]
    /\ UNCHANGED <<hardware, raw, screen, now, queue, typed, calls>>

Terminal == (\E b \in Keys : Send(b)) \/ Arrive \/ fifo_write
Kernel == Forget \/ console_read_raw \/ console_read_interactive \/ PollOne \/ PollRound
Program ==
    \/ \E n \in Counts : console_read(n)
    \/ \E b \in {SP, LF} : console_write(b)
    \/ \E r \in BOOLEAN : console_ioctl(r)
    \/ \E fds \in PollLists, t \in Timeouts : SYS_poll(fds, t)

ConsoleNext == Terminal \/ Kernel \/ Program \/ Tick

ConsoleSpec == ConsoleInit /\ [][ConsoleNext]_consvars

-----------------------------------------------------------------------------
(* Properties *)

InFifo == [k \in 1 .. avail |-> fifo_buf[(fifo_out_ptr + k - 1) % FIFO_SIZE]]
Byte(b) == IF b = NoByte THEN <<>> ELSE <<b>>

(* Every byte the terminal sent while cts allowed it is read once and in   *)
(* order: the unread ones are in the FIFO, the UART's register and on the  *)
(* wire, also when the FIFO is full.                                       *)
NothingLost == queue = InFifo \o Byte(held) \o Byte(wire)

(* While a line is typed the terminal shows the buffer behind the place    *)
(* where the read began, with the cursor after it and nothing but blanks   *)
(* beyond, whatever was typed and taken back.                              *)
ScreenShowsLine ==
    call.op = "line" =>
        /\ screen.col = call.at + Len(call.buf)
        /\ SubSeq(screen.text, call.at + 1, screen.col) = call.buf
        /\ \A k \in screen.col + 1 .. Len(screen.text) : screen.text[k] = SP

Erase(b) == b \in {BS, DEL}

(* The characters of keys that no later erase takes back: between one and  *)
(* any later place there are no more erases than characters.               *)
Erases(keys, i, j) == Cardinality({k \in i + 1 .. j : Erase(keys[k])})
Characters(keys, i, j) == Cardinality({k \in i + 1 .. j : ~Erase(keys[k])})

Kept(keys) ==
    {i \in DOMAIN keys : /\ ~Erase(keys[i])
                         /\ \A j \in i .. Len(keys) : Erases(keys, i, j) <= Characters(keys, i, j)}

Surviving(keys) == [k \in 1 .. Cardinality(Kept(keys)) |-> keys[Nth(Kept(keys), k)]]

(* An interactive read returns what is left of the keys, and only at a     *)
(* carriage return or when the caller's buffer is full.                    *)
LineEdited ==
    call.op = "done" /\ call.keys # <<>> =>
        LET cr == Last(call.keys) = CR
        IN  /\ call.buf = Surviving(IF cr THEN Front(call.keys) ELSE call.keys)
            /\ cr \/ \E n \in Counts : n > 0 /\ Len(call.buf) = n

(* Keys whose echo neither leaves the line nor stays invisible. *)
PlainKeys == Keys \cap {LF, BEL} = {}

(* Buffer and screen follow the same editing. *)
LineAgrees == LineEdited /\ ScreenShowsLine

(* Of the descriptors that are not negative, poll reports input only for   *)
(* what is there to be read, whatever their revents were before, and       *)
(* counts the ones it reports; it gives up only when the timeout is over   *)
(* and the last look at the console found nothing.                         *)
PollHonest ==
    call.op = "polled" /\ call.timeout >= 0 =>
        LET asked == {k \in DOMAIN call.fds : call.fds[k] >= 0}
        IN  /\ call.ready = Cardinality({k \in asked : call.revents[k] # ""})
            /\ \A k \in asked :
                  call.revents[k] = "POLLIN" => call.fds[k] = ConsoleFd /\ avail > 0
            /\ call.ready = 0 => /\ call.timeout > 0 /\ now >= call.since + call.timeout
                                 /\ call.seen = 0

(* A poll with a timeout returns, whether anything arrives or not. *)
PollReturns == call.op = "poll" /\ call.timeout > 0 ~> call.op = "polled"
=============================================================================
