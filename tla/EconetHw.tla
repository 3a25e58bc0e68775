------------------------------ MODULE EconetHw ------------------------------
(***************************************************************************)
(* The Econet devices of the FPGA as the driver sees them: the buffered    *)
(* receiver, the buffered transmitter and timer A.  The actions are the    *)
(* steps the hardware takes by itself; the other operators are the effect  *)
(* of a CPU store to a register, used by the driver in module Econet.      *)
(*                                                                         *)
(* Bytes and bit times are abstracted.  A received frame is the fields the *)
(* interrupt handler looks at, a frame to send is what it is meant to be,  *)
(* and either takes an arbitrary time on the wire.                         *)
(***************************************************************************)
EXTENDS Naturals

CONSTANTS
    Ports,      \* Econet ports, 0 included
    Frames      \* the frames other stations may send to this one

\* REG_BYTE_COUNT (11 bits, FCS included) and the bytes of REG_SCOUT_DATA.
FrameLens == 0 .. 2047
FrameType == [len : FrameLens, flag : 0 .. 255, port : Ports]

ASSUME PortsAssumption == Ports \subseteq 0 .. 255 /\ 0 \in Ports
ASSUME FramesAssumption == Frames \subseteq FrameType

VARIABLES rxd, txd, timer
hwVars == <<rxd, txd, timer>>

\* receiving: the line is busy with a frame.  frame_end: its closing flag was
\* seen.  valid: sys_frame_valid, the interrupt request.  frame: the latched
\* registers.  monitor: latch all frames, not only ours.
RxType == [receiving : BOOLEAN, frame_end : BOOLEAN, valid : BOOLEAN,
           frame : FrameType, monitor : BOOLEAN]

\* requested: tx_requested.  state: the machine of econet_tx_buffered, from
\* STATE_TX_START to STATE_TX_END in one.  phy: the machine of econet_tx.
\* idle: idle_counter is at 15.  frame: what the buffer between econet_ctr and
\* buffer_end makes, "garbled" when software changed it at the wrong moment.
FrameKinds == {"ack", "machtype", "scout", "data"}
TxType == [requested : BOOLEAN, state : {"IDLE", "RXWAIT", "TX"},
           phy : {"IDLE", "TRANSMIT", "END_SYNC"}, idle : BOOLEAN,
           turnaround : BOOLEAN, frame : FrameKinds \cup {"none", "garbled"}]

HwTypeOK == rxd \in RxType /\ txd \in TxType /\ timer \in {"off", "running", "expired"}

NoFrame == [len |-> 0, flag |-> 0, port |-> 0]

HwInit ==
    /\ rxd = [receiving |-> FALSE, frame_end |-> FALSE, valid |-> FALSE,
              frame |-> NoFrame, monitor |-> FALSE]
    /\ txd = [requested |-> FALSE, state |-> "IDLE", phy |-> "IDLE", idle |-> FALSE,
              turnaround |-> FALSE, frame |-> "none"]
    /\ timer = "off"

-----------------------------------------------------------------------------
\* Another station starts a frame: the receiver hears it unless it is inhibited
\* by our own transmission, and the transmitter's idle counter restarts.
RxBegin ==
    /\ ~rxd.receiving /\ ~rxd.frame_end /\ txd.phy = "IDLE"
    /\ rxd' = [rxd EXCEPT !.receiving = TRUE]
    /\ txd' = [txd EXCEPT !.idle = FALSE]
    /\ UNCHANGED timer

\* The closing flag of a frame.  phy_state goes back to idle, so "receiving"
\* drops, a clock before the frame shows in the registers.
RxEnd ==
    /\ rxd.receiving
    /\ rxd' = [rxd EXCEPT !.receiving = FALSE, !.frame_end = TRUE]
    /\ UNCHANGED <<txd, timer>>

\* our_frame or monitor_frame: latch the registers, over a frame that software
\* has not looked at yet, and request an interrupt.
RxLatch(f) ==
    /\ rxd.frame_end
    /\ rxd' = [rxd EXCEPT !.frame_end = FALSE, !.valid = TRUE, !.frame = f]
    /\ UNCHANGED <<txd, timer>>

\* valid_rst, by a store to byte 0 of any receiver register.  The latched registers
\* keep their values but are not looked at again before the next frame.
ClearValid == rxd' = [rxd EXCEPT !.valid = FALSE, !.frame = NoFrame]

\* The frame was for another station or its FCS was wrong.
RxDrop ==
    /\ rxd.frame_end
    /\ rxd' = [rxd EXCEPT !.frame_end = FALSE]
    /\ UNCHANGED <<txd, timer>>

-----------------------------------------------------------------------------
line_ready == ~rxd.receiving /\ (txd.idle \/ txd.turnaround)

\* Fifteen bit times without a signal.
TxIdle ==
    /\ ~rxd.receiving /\ ~txd.idle
    /\ txd' = [txd EXCEPT !.idle = TRUE]
    /\ UNCHANGED <<rxd, timer>>

\* start_frame is a pulse of one clock, and the shifter looks at it only in its
\* STATE_IDLE: while the previous frame's closing flag is still going out
\* (STATE_END_SYNC) the pulse is lost.
Started(t) == [t EXCEPT !.state = "TX", !.phy = IF @ = "IDLE" THEN "TRANSMIT" ELSE @]

\* STATE_IDLE: take up a request, start now or wait for the line.
TxTakeRequest ==
    /\ txd.state = "IDLE" /\ txd.requested
    /\ LET t == [txd EXCEPT !.requested = FALSE]
       IN  txd' = IF line_ready THEN Started(t) ELSE [t EXCEPT !.state = "RXWAIT"]
    /\ UNCHANGED <<rxd, timer>>

\* STATE_RXWAIT
TxLineReady ==
    /\ txd.state = "RXWAIT" /\ line_ready
    /\ txd' = Started(txd)
    /\ UNCHANGED <<rxd, timer>>

\* The last byte is handed over; only a shifter that transmits asks for bytes.
\* The buffer side is idle again while the closing flag goes out.
TxLastByte ==
    /\ txd.state = "TX" /\ txd.phy = "TRANSMIT"
    /\ txd' = [txd EXCEPT !.state = "IDLE", !.phy = "END_SYNC", !.frame = "none"]
    /\ UNCHANGED <<rxd, timer>>

TxFlagSent ==
    /\ txd.phy = "END_SYNC"
    /\ txd' = [txd EXCEPT !.phy = "IDLE"]
    /\ UNCHANGED <<rxd, timer>>

\* Stores to REG_STARTADDR and REG_ENDADDR for a frame of kind k.  The second
\* one requests a transmission, but tx_req_reset drops the request when the
\* machine is busy.  One that waits for the line then sends from the start it
\* has loaded to the new end, which is right if both frames start at offset 0.
Transmit(t, k) ==
    [t EXCEPT !.requested = (t.state = "IDLE"),
              !.frame = IF \/ t.state = "IDLE"
                           \/ t.state = "RXWAIT" /\ "data" \notin {k, @}
                        THEN k ELSE "garbled"]

\* Stores to the transmit buffer under a frame that is still to be sent.
Overwrite(t) ==
    [t EXCEPT !.frame = IF t.requested \/ t.state # "IDLE" THEN "garbled" ELSE @]

-----------------------------------------------------------------------------
\* Timer A reaches its programmed value at some time after it was started.
TimerExpire ==
    /\ timer = "running"
    /\ timer' = "expired"
    /\ UNCHANGED <<rxd, txd>>

\* Stores to the timer's REG_STATUS: TIMER_RESET, and TIMER_ENABLE after it.
StopTimer == timer' = "off"
StartTimer == timer' = "running"

Hardware ==
    \/ RxDrop
    \/ TxIdle \/ TxTakeRequest \/ TxLineReady \/ TxLastByte \/ TxFlagSent
    \/ TimerExpire
=============================================================================
