------------------------------ MODULE Monitor ------------------------------
(***************************************************************************)
(* The network monitor (monitor.c, decoder.c): frames in monitor mode, the *)
(* loop that reads them and looks for a key, and the decoder that shows a  *)
(* repeated acknowledgement once and counts the others.                    *)
(***************************************************************************)
EXTENDS Integers, Sequences

CONSTANTS
    FrameAddrs,     \* source and destination of a frame
    NoAddress,      \* four zero bytes, which no acknowledgement has
    CountMod,       \* ack_count wraps here (2^16)
    MaxFrames       \* frames on the network

ASSUME MonitorAssumption == NoAddress \notin FrameAddrs /\ CountMod \in Nat /\ CountMod > 1

(* Lengths with the FCS; the shortest frame that is decoded has 6 bytes.   *)
SCOUT_LEN == 8
IMMSCOUT_LEN == 10
ACK_LEN == 6
Lengths == {4, ACK_LEN, SCOUT_LEN, IMMSCOUT_LEN, 100}

VARIABLES
    frame,          \* the driver's buffer: the last frame
    frames,         \* econet_monitor_frames - last_monitor_frames
    total,          \* frames so far
    at,             \* where the loop is: "frame", "read", "key" or "quit"
    key,            \* q was pressed
    lastack, ack_count,
    shown,          \* the last line of the decoder
    acks,           \* history: the acknowledgements that came
    missed          \* history: a frame came before the one ahead of it was read
decoder == <<lastack, ack_count, shown>>
monitorvars == <<frame, frames, total, at, key, decoder, acks, missed>>

Line(kind, addr, n) == [kind |-> kind, addr |-> addr, n |-> n]

(* The length of an earlier frame may still be in the driver's variable.   *)
MonitorInit ==
    /\ frame \in {[addr |-> NoAddress, len |-> n] : n \in {0, SCOUT_LEN}} /\ frames = 0 /\ total = 0
    /\ at = "frame" /\ key = FALSE
    /\ lastack = NoAddress /\ ack_count = 0
    /\ shown = <<>> /\ acks = <<>> /\ missed = FALSE

-----------------------------------------------------------------------------
(* The handler of monitor mode: the buffer is the newest frame's. *)
FrameArrives(a, len) ==
    /\ total < MaxFrames /\ at # "quit" /\ total' = total + 1
    /\ frame' = [addr |-> a, len |-> len] /\ frames' = frames + 1
    /\ acks' = IF len = ACK_LEN THEN Append(acks, a) ELSE acks
    /\ missed' = (missed \/ frames > 0)
    /\ UNCHANGED <<at, key, decoder>>

Press == ~key /\ at # "quit" /\ key' = TRUE
         /\ UNCHANGED <<frame, frames, total, at, decoder, acks, missed>>

(* Repeats that are reported before a frame of another kind. *)
Report == IF ack_count > 1 THEN <<Line("acks", lastack, ack_count)>> ELSE <<>>

(* Mutant: another station's acknowledgement goes on counting. *)
CountGoesOn(a) ==
    IF a = lastack
    THEN ack_count' = (ack_count + 1) % CountMod /\ UNCHANGED lastack /\ shown' = <<>>
    ELSE lastack' = a /\ UNCHANGED ack_count /\ shown' = <<Line("ack", a, 0)>>

DecodeAck(a) ==
    IF a = lastack
    THEN ack_count' = (ack_count + 1) % CountMod /\ UNCHANGED lastack /\ shown' = <<>>
    ELSE lastack' = a /\ ack_count' = 0 /\ shown' = <<Line("ack", a, 0)>>

Kind(len) == CASE len = SCOUT_LEN -> "scout" [] len = IMMSCOUT_LEN -> "immediate" [] OTHER -> "data"

DecodeOther(a, len) ==
    /\ shown' = Report \o <<Line(Kind(len), a, 0)>>
    /\ IF ack_count > 0
       THEN ack_count' = 0 /\ lastack' = NoAddress
       ELSE UNCHANGED <<ack_count, lastack>>

decode_frame(a, len) ==
    IF len = ACK_LEN THEN DecodeAck(a) ELSE DecodeOther(a, len)

(* fd_peek: in monitor mode the length of the buffer, read or not. *)
econet_peek == frame.len

PeekFrame ==
    /\ at = "frame" /\ at' = IF econet_peek > 0 THEN "read" ELSE "key"
    /\ UNCHANGED <<frame, frames, total, key, decoder, acks, missed>>

(* read waits in the kernel for a frame that was not counted, and copies   *)
(* the newest: of two that came since the last read it is read twice.      *)
ReadFrame ==
    /\ at = "read" /\ frames > 0 /\ frames' = frames - 1 /\ at' = "key"
    /\ IF frame.len > 5 THEN decode_frame(frame.addr, frame.len)
                        ELSE shown' = <<>> /\ UNCHANGED <<lastack, ack_count>>
    /\ UNCHANGED <<frame, total, key, acks, missed>>

PeekKey ==
    /\ at = "key" /\ at' = IF key THEN "quit" ELSE "frame"
    /\ UNCHANGED <<frame, frames, total, key, decoder, acks, missed>>

MonitorLoop == PeekFrame \/ ReadFrame \/ PeekKey

MonitorNext ==
    \/ MonitorLoop \/ Press
    \/ \E a \in FrameAddrs, len \in Lengths : FrameArrives(a, len)

MonitorSpec == MonitorInit /\ [][MonitorNext]_monitorvars

-----------------------------------------------------------------------------
(* How many of the acknowledgements that came the decoder was given, when  *)
(* it is given every frame.                                                *)
Decoded == Len(acks) - (IF frames > 0 /\ frame.len = ACK_LEN THEN 1 ELSE 0)

(* What the decoder would report as repeats of an acknowledgement, were    *)
(* the next frame another one: an acknowledgement of that address did      *)
(* come, and there were as many frames as are reported.  If none came      *)
(* before the one ahead of it was read, they are repeats indeed: the last  *)
(* acknowledgements that came, the one shown first and as many more as     *)
(* were counted, are all of that address.                                  *)
CountsRepeats ==
    ack_count > 0 =>
        /\ \E k \in 1 .. Len(acks) : acks[k] = lastack
        /\ ack_count < total - frames
        /\ ~missed => /\ ack_count < Decoded
                      /\ \A k \in 0 .. ack_count : acks[Decoded - k] = lastack
=============================================================================
