------------------------------- MODULE Xmodem -------------------------------
(***************************************************************************)
(* init's XMODEM receiver (xmodem_server.c and the loop around it in       *)
(* icommands.c), with a sender and a line that loses and garbles bytes.    *)
(*                                                                         *)
(* Bytes are those of the protocol and the checksum is computed as in the  *)
(* code; a packet has fewer bytes of data.  The receiver's clock counts    *)
(* the rounds of its loop, so that the timeouts are numbers of rounds.     *)
(***************************************************************************)
EXTENDS Integers, Sequences, SequencesExt

CONSTANTS
    Blocks,             \* the data of the sender's packets, a sequence
    ShortSize, LongSize, \* bytes in a packet that begins with SOH or STX (128, 1024)
    FirstNums,          \* values of block_num where the model begins
    Noise,              \* bytes that a byte on the line can turn into
    START_TIMEOUT,      \* 500
    PACKET_TIMEOUT,     \* 1000
    MAX_ERRORS,         \* 100
    Rooms,              \* how many packets the disc may have room for
    MaxFaults,          \* bytes that are lost or garbled
    MaxLine,            \* bytes on the line before the sender adds a packet
    MaxBack             \* answers the sender has not looked at; more are lost

ASSUME XmodemAssumption ==
    /\ \A k \in DOMAIN Blocks : Len(Blocks[k]) \in {ShortSize, LongSize}
    /\ Blocks \in Seq(Seq(Nat)) /\ (FirstNums = {0} \/ Blocks # <<>>) /\ Rooms \subseteq Nat
    /\ START_TIMEOUT < PACKET_TIMEOUT /\ MAX_ERRORS > 0 /\ MaxBack > 0

SOH == 1
STX == 2
EOT == 4

VARIABLES
    xdm,        \* struct xmodem_server
    idle,       \* rounds since last_event_time
    resp,       \* the packet that xmodem_server_process returned, until it is written
    file,       \* the packets written to the file
    room,       \* packets the disc has room for
    receiving,  \* the loop of i_receive_xmodem is running
    line,       \* bytes on their way to the receiver, with what they were sent as
    back,       \* answers on their way to the sender
    sender,     \* next: the packet it sends, first: the number before packet 1
    faults,
    endRole     \* history: what the byte that ended the transfer was sent as

xmvars == <<xdm, idle, resp, file, room, receiving, line, back, sender, faults, endRole>>

-----------------------------------------------------------------------------
(* Checksum *)

(* Exclusive or of two numbers of 16 bits. *)
Xor16(m, n) ==
    LET from[k \in 0 .. 16] ==
            IF k = 16 THEN 0 ELSE 2 * from[k + 1] + (((m \div 2^k) + (n \div 2^k)) % 2)
    IN  from[0]

(* One of the eight rounds that a byte takes. *)
Shifted == [crc \in 0 .. 65535 |->
    LET twice == (2 * crc) % 65536
    IN  IF crc >= 32768 THEN Xor16(twice, 4129) ELSE twice]

xmodem_server_crc(crc, byte) ==
    LET c[i \in 0 .. 8] == IF i = 0 THEN Xor16(crc, 256 * byte) ELSE Shifted[c[i - 1]] IN c[8]

Crc(data) ==
    LET c[i \in 0 .. Len(data)] == IF i = 0 THEN 0 ELSE xmodem_server_crc(c[i - 1], data[i])
    IN  c[Len(data)]

(* The sender's packets. *)
As(role, bytes) == [k \in DOMAIN bytes |-> [byte |-> bytes[k], role |-> role]]
BlockCrc == [k \in DOMAIN Blocks |-> Crc(Blocks[k])]
Packet(k, num) ==
    As("header", <<IF Len(Blocks[k]) = LongSize THEN STX ELSE SOH, num % 256, 255 - (num % 256)>>)
    \o As("data", Blocks[k]) \o As("crc", <<BlockCrc[k] \div 256, BlockCrc[k] % 256>>)

-----------------------------------------------------------------------------
(* xmodem_server_rx_byte: the receiver after a byte and what it answers.   *)

To(x, state) == [x EXCEPT !.state = state]
Quiet(x) == [xdm |-> x, tx |-> <<>>]

Begin(x, byte) ==
    CASE byte = SOH -> Quiet([x EXCEPT !.state = "BLOCK_NUM", !.packet_size = ShortSize])
      [] byte = STX -> Quiet([x EXCEPT !.state = "BLOCK_NUM", !.packet_size = LongSize])
      [] byte = EOT -> [xdm |-> To(x, "SUCCESSFUL"), tx |-> <<"ACK">>]
      [] OTHER -> Quiet(x)

(* Out of step: a byte that could begin a packet does, without its size. *)
Resync(x, byte) == To(x, IF byte \in {SOH, STX} THEN "BLOCK_NUM" ELSE "SOH")

BlockNum(x, byte) ==
    CASE byte = (x.block_num + 1) % 256 -> [x EXCEPT !.state = "BLOCK_NEG", !.repeating = FALSE]
      [] byte = x.block_num % 256 -> [x EXCEPT !.state = "BLOCK_NEG", !.repeating = TRUE]
      [] OTHER -> Resync(x, byte)

BlockNeg(x, byte) ==
    LET num == IF x.repeating THEN x.block_num ELSE x.block_num + 1
    IN  IF byte = 255 - (num % 256) THEN [x EXCEPT !.state = "DATA", !.packet_data = <<>>]
        ELSE Resync(x, byte)

Data(x, byte) ==
    LET y == [x EXCEPT !.packet_data = Append(@, byte)]
    IN  IF Len(y.packet_data) >= x.packet_size THEN To(y, "CRC0") ELSE y

BadPacket(x) == [xdm |-> [x EXCEPT !.error_count = @ + 1, !.state = "SOH"], tx |-> <<"NACK">>]

(* Mutant: a packet that was already taken is taken again. *)
TakesRepeats(x, byte) ==
    IF Crc(x.packet_data) # x.crc + byte THEN BadPacket(x)
    ELSE Quiet(To(x, "PROCESS_PACKET"))

(* Mutant: a packet that was already taken is acknowledged again, as the   *)
(* line the code has commented out would.                                  *)
AcksRepeats(x, byte) ==
    CASE Crc(x.packet_data) # x.crc + byte -> BadPacket(x)
      [] Crc(x.packet_data) = x.crc + byte /\ x.repeating -> [xdm |-> To(x, "SOH"), tx |-> <<"ACK">>]
      [] OTHER -> Quiet(To(x, "PROCESS_PACKET"))

CheckPacket(x, byte) ==
    IF Crc(x.packet_data) # x.crc + byte THEN BadPacket(x)
    ELSE Quiet(To(x, IF x.repeating THEN "SOH" ELSE "PROCESS_PACKET"))

xmodem_server_rx_byte(x, byte) ==
    CASE x.state \in {"START", "SOH"} -> Begin(x, byte)
      [] x.state = "BLOCK_NUM" -> Quiet(BlockNum(x, byte))
      [] x.state = "BLOCK_NEG" -> Quiet(BlockNeg(x, byte))
      [] x.state = "DATA" -> Quiet(Data(x, byte))
      [] x.state = "CRC0" -> Quiet([x EXCEPT !.crc = 256 * byte, !.state = "CRC1"])
      [] x.state = "CRC1" -> CheckPacket(x, byte)
      [] OTHER -> Quiet(x)

(* xmodem_server_process: timeouts, giving up, and a packet for the file.  *)
(* The clock is a count of rounds shifted right by two, in 32 bits, and    *)
(* wraps after 2^32 rounds; here a transfer ends before.                   *)

is_done(x) == x.state \in {"SUCCESSFUL", "FAILURE"}

(* Mutant: a timeout is no error. *)
WaitsAgain(x) == To(x, "SOH")

TimedOut(x) == [x EXCEPT !.state = "SOH", !.error_count = @ + 1]

Timeouts(x, time) ==
    CASE x.state = "START" /\ time > START_TIMEOUT -> [xdm |-> x, idle |-> 0, tx |-> <<"C">>, data |-> <<>>]
      [] x.state # "START" /\ time > PACKET_TIMEOUT ->
            [xdm |-> TimedOut(x), idle |-> 0, tx |-> <<"NACK">>, data |-> <<>>]
      [] OTHER -> [xdm |-> x, idle |-> time, tx |-> <<>>, data |-> <<>>]

GiveUp(p) ==
    IF p.xdm.error_count < MAX_ERRORS THEN p
    ELSE [p EXCEPT !.xdm.state = "FAILURE", !.idle = 0, !.tx = Append(@, "CAN")]

TakePacket(p) ==
    IF p.xdm.state # "PROCESS_PACKET" THEN p
    ELSE [xdm |-> [p.xdm EXCEPT !.block_num = @ + 1, !.state = "SOH"], idle |-> 0,
          tx |-> Append(p.tx, "ACK"), data |-> <<p.xdm.packet_data>>]

xmodem_server_process(x, time) ==
    IF is_done(x) THEN [xdm |-> x, idle |-> time, tx |-> <<>>, data |-> <<>>]
    ELSE TakePacket(GiveUp(Timeouts(x, time)))

-----------------------------------------------------------------------------
(* i_receive_xmodem *)

Answer(tx) == back' = IF Len(back \o tx) <= MaxBack THEN back \o tx ELSE back

(* A round of the loop up to the test of what xmodem_server_process gave:  *)
(* a packet is acknowledged before it is written.                          *)
Process(rx) ==
    \E p \in {xmodem_server_process(rx.xdm, idle)} :
        /\ xdm' = p.xdm /\ idle' = p.idle + 1 /\ resp' = p.data
        /\ Answer(rx.tx \o p.tx)

RoundWithByte ==
    /\ receiving /\ resp = <<>> /\ ~is_done(xdm) /\ line # <<>>
    /\ \E rx \in {xmodem_server_rx_byte(xdm, Head(line).byte)} :
          /\ Process(rx)
          /\ endRole' = IF is_done(rx.xdm) THEN Head(line).role ELSE endRole
    /\ line' = Tail(line)
    /\ UNCHANGED <<file, room, receiving, sender, faults>>

(* Nothing has arrived yet, also when something is on its way. *)
RoundWithout ==
    /\ receiving /\ resp = <<>> /\ ~is_done(xdm) /\ Process(Quiet(xdm))
    /\ UNCHANGED <<file, room, receiving, line, sender, faults, endRole>>

(* Mutant: the last packet that there is room for is not written. *)
RefusesLast == file' = IF Len(file) + 1 < room THEN file \o resp ELSE file

(* write() to the file.  The full disc takes no more than a part of the    *)
(* packet, which does not count here; the result is not looked at.         *)
write == file' = IF Len(file) < room THEN file \o resp ELSE file

(* The rest of the round. *)
WriteFile ==
    /\ receiving /\ resp # <<>>
    /\ write /\ resp' = <<>>
    /\ UNCHANGED <<xdm, idle, room, receiving, line, back, sender, faults, endRole>>

(* The file is closed and the console takes the bytes from now on. *)
EndReceive ==
    /\ receiving /\ resp = <<>> /\ is_done(xdm)
    /\ receiving' = FALSE
    /\ UNCHANGED <<xdm, idle, resp, file, room, line, back, sender, faults, endRole>>

-----------------------------------------------------------------------------
(* The sender: one packet at a time, sent again when anything but an ACK   *)
(* arrives.  A single CAN may or may not stop it.                          *)

Sending(next) == IF next > Len(Blocks) THEN As("eot", <<EOT>>) ELSE Packet(next, sender.first + next)

Emit(next) == line' = line \o Sending(next)

SenderTakes(answer) ==
    /\ back # <<>> /\ Head(back) = answer /\ sender.state \in {"starting", "sending"}
    /\ Len(line) <= MaxLine
    /\ back' = Tail(back)
    /\ UNCHANGED <<xdm, idle, resp, file, room, receiving, faults, endRole>>

SendFirst ==
    /\ sender.state = "starting" /\ SenderTakes("C")
    /\ Emit(1) /\ sender' = [sender EXCEPT !.state = "sending"]

SendNext ==
    /\ sender.state = "sending" /\ SenderTakes("ACK")
    /\ IF sender.next > Len(Blocks)
       THEN sender' = [sender EXCEPT !.state = "sent"] /\ UNCHANGED line
       ELSE sender' = [sender EXCEPT !.next = @ + 1] /\ Emit(sender.next + 1)

SendAgain ==
    /\ sender.state = "sending" /\ (SenderTakes("NACK") \/ SenderTakes("C"))
    /\ Emit(sender.next) /\ UNCHANGED sender

SenderCancelled ==
    /\ SenderTakes("CAN") /\ sender' \in {sender, [sender EXCEPT !.state = "stopped"]}
    /\ UNCHANGED line

(* No answer for long, and none under way. *)
SenderTimeout ==
    /\ sender.state = "sending" /\ back = <<>> /\ line = <<>>
    /\ Emit(sender.next)
    /\ UNCHANGED <<xdm, idle, resp, file, room, receiving, back, sender, faults, endRole>>

-----------------------------------------------------------------------------
(* The line *)

Fault == faults < MaxFaults /\ faults' = faults + 1

LoseByte ==
    /\ receiving /\ line # <<>> /\ Fault /\ line' = Tail(line)
    /\ UNCHANGED <<xdm, idle, resp, file, room, receiving, back, sender, endRole>>

GarbleByte(n) ==
    /\ receiving /\ line # <<>> /\ Head(line).byte # n /\ Fault
    /\ line' = [line EXCEPT ![1] = [byte |-> n, role |-> "noise"]]
    /\ UNCHANGED <<xdm, idle, resp, file, room, receiving, back, sender, endRole>>

LoseAnswer ==
    /\ back # <<>> /\ Fault /\ back' = Tail(back)
    /\ UNCHANGED <<xdm, idle, resp, file, room, receiving, line, sender, endRole>>

-----------------------------------------------------------------------------
(* The transfer from its beginning, or from where the sender has got the   *)
(* answer for packet n and sends the next one.                             *)
XmodemInit ==
    \E n \in FirstNums :
        /\ xdm = [state |-> IF n = 0 THEN "START" ELSE "SOH", packet_data |-> <<>>, crc |-> 0,
                  packet_size |-> 0, repeating |-> FALSE, block_num |-> n, error_count |-> 0]
        /\ sender = [state |-> IF n = 0 THEN "starting" ELSE "sending", next |-> 1, first |-> n]
        /\ back = IF n = 0 THEN <<"C">> ELSE <<>>
        /\ line = IF n = 0 THEN <<>> ELSE Packet(1, n + 1)
        /\ idle = 0 /\ resp = <<>> /\ file = <<>> /\ room \in Rooms /\ receiving = TRUE /\ faults = 0 /\ endRole = "none"

Receiver == RoundWithByte \/ RoundWithout \/ WriteFile \/ EndReceive

XmodemNext ==
    \/ RoundWithByte \/ RoundWithout \/ WriteFile \/ EndReceive
    \/ SendFirst \/ SendNext \/ SendAgain \/ SenderCancelled \/ SenderTimeout
    \/ LoseByte \/ (\E n \in Noise : GarbleByte(n)) \/ LoseAnswer

XmodemSpec == XmodemInit /\ [][XmodemNext]_xmvars

-----------------------------------------------------------------------------
(* Properties *)

(* Whatever is lost, garbled, late or sent again, the file holds the       *)
(* sender's packets in order, each once and undamaged, up to some point.   *)
FileIsPrefix == IsPrefix(file, Blocks)

Full == Len(file) >= room

(* A byte that was not sent as the end of the transmission was taken for   *)
(* it, where a packet could begin, and acknowledged.                       *)
StrayEnd == endRole \notin {"none", "eot"}

(* What the sender was told is received is in the file, about to be        *)
(* written, or the disc is full.  A stray end of transmission adds one     *)
(* packet that was never received, and no more.                            *)
AckedIsWritten ==
    Full \/ sender.next - 1 <= Len(file) + Len(resp) + (IF StrayEnd THEN 1 ELSE 0)

(* When the sender's end of transmission ended the transfer, the file has  *)
(* all its packets, or the disc is full.                                   *)
SuccessIsComplete ==
    xdm.state = "SUCCESSFUL" /\ endRole = "eot" => Full \/ Len(file) >= Len(Blocks)

(* Neither side takes for received what is not in the file or under way to *)
(* it, although packets are acknowledged before they are written.          *)
ReceivedIsWritten == AckedIsWritten /\ SuccessIsComplete

(* A transfer that has begun ends, also when the sender stops: the errors  *)
(* are counted and there is a limit to them.                               *)
TransferEnds == xdm.state # "START" ~> is_done(xdm)
=============================================================================
