------------------------------- MODULE Econet -------------------------------
(***************************************************************************)
(* The Econet device driver: the system calls of system/raw_econet.c, run  *)
(* by the one program of the machine, and the interrupt handlers of        *)
(* system/econet_rx.S, over the hardware of module EconetHw.               *)
(*                                                                         *)
(* A system call that waits, or that loads a shared variable more than     *)
(* once, is several actions, and call.pc says which one is next.  A        *)
(* handler is one action: interrupts do not nest and the program does not  *)
(* run meanwhile.                                                          *)
(***************************************************************************)
EXTENDS EconetHw, Integers

CONSTANTS
    Fds,          \* descriptors programs open on /dev/econet
    RxPorts,      \* ports programs listen on
    Stations,     \* stations programs send to
    ReadCounts,   \* sizes programs pass to read()
    WriteCounts,  \* sizes programs pass to write()
    MonitorModes, \* values programs pass to ECONET_SET_MONITOR
    MaxMonitor,   \* bound on the frames counted in monitor mode
    WordSize,     \* 2^32, where a size_t wraps
    Polite        \* TRUE: other stations wait until a frame has been read

ASSUME FdsAssumption == Fds \subseteq 3 .. 127
ASSUME RxPortsAssumption == RxPorts \subseteq Ports
ASSUME StationsAssumption == Stations \subseteq Nat \ {0}
ASSUME WordAssumption == WordSize \in Nat /\ WordSize > 2048
ASSUME CountsAssumption == ReadCounts \cup WriteCounts \subseteq 0 .. WordSize - 1
ASSUME MonitorAssumption == MonitorModes \subseteq BOOLEAN /\ MaxMonitor \in Nat
ASSUME PoliteAssumption == Polite \in BOOLEAN

\* econet_handshake_state
WAITSCOUT == 0
WAITDATA  == 1
TXSCOUT   == 2
TXDATA    == 3

\* econet_tx_status
TXDONE   == 1
TXNETERR == 2

TXBUFSZ == 2048
READY   == 128     \* bit 7 of an econet_port_list entry

VARIABLES
    st,         \* econet_state_val, the variables shared with the handlers
    mon,        \* econet_monitor_frames and last_monitor_frames
    port_list,  \* econet_port_list: 0, or the listening descriptor, or'ed READY
    dev,        \* which descriptors are open, fd_rx_portmap, fd_tx_destmap
    call,       \* the system call in progress and its local variables
    hist        \* history: see HistType

drvVars == <<st, mon, port_list, dev, call, hist>>
vars == <<hwVars, drvVars>>

Sizes == 0 .. WordSize - 1     \* size_t

\* rx_buf_start is an offset into the frame that was latched.
HandshakeStates == WAITSCOUT .. TXDATA
TxStatuses == {0, TXDONE, TXNETERR}
StType == [handshake : HandshakeStates, pending_port : Ports,
           rx_buf_start : Nat, rx_buf_len : Sizes,
           tx_status : TxStatuses, timeout_state : HandshakeStates]

Entries == 0 .. 255
DevType == [open : SUBSET Fds, rx_port : [Fds -> Ports], tx_dest : [Fds -> Stations \cup {0}]]

WriteSteps == {"w_poll", "w_state", "w_fill", "w_send", "w_wait"}
ReadSteps == {"r_wait", "r_size", "r_size2", "r_copy", "r_test", "r_part", "r_done"}
Steps == {"user"} \cup WriteSteps \cup ReadSteps
CallType == [pc : Steps, fd : Fds \cup {0},
             port : Ports, count : Sizes, copy_sz : Sizes, got_port : Ports]

\* acks: acknowledgements taken in the current write.  buf_port: the port the
\* buffered data frame was sent to.  next, end: the offset of its first byte no
\* read has copied, and of its end.  (In a call, got_port is the port of the
\* frame it copied from.)
AckCounts == 0 .. 2
HistType == [acks : AckCounts, buf_port : Ports, next : Nat, end : Nat]

\* The types of the hardware's, the handlers' and the program's state.
TypeOK ==
    /\ HwTypeOK
    /\ st \in StType
    /\ mon \in [frames : Nat, last : Nat]
    /\ port_list \in [Ports -> Entries]
    /\ dev \in DevType
    /\ call \in CallType
    /\ hist \in HistType

\* No call in progress, so no local variables.
Outside == [pc |-> "user", fd |-> 0, port |-> 0, count |-> 0, copy_sz |-> 0,
            got_port |-> 0]

\* econet_init, and the data section of econet_rx.S.
Init ==
    /\ HwInit
    /\ st = [handshake |-> WAITSCOUT, pending_port |-> 0, rx_buf_start |-> 0,
             rx_buf_len |-> 0, tx_status |-> 0, timeout_state |-> 0]
    /\ mon = [frames |-> 0, last |-> 0]
    /\ port_list = [p \in Ports |-> 0]
    /\ dev = [open |-> {}, rx_port |-> [f \in Fds |-> 0], tx_dest |-> [f \in Fds |-> 0]]
    /\ call = Outside
    /\ hist = [acks |-> 0, buf_port |-> 0, next |-> 0, end |-> 0]

-----------------------------------------------------------------------------
(***************************************************************************)
(* System calls for which it does not matter where between their stores an *)
(* interrupt falls.                                                        *)
(***************************************************************************)

At(step) == call.pc = step
Goto(step) == call' = [call EXCEPT !.pc = step]
Begin(step, f, n, p) ==
    call' = [pc |-> step, fd |-> f, port |-> p, count |-> n, copy_sz |-> 0, got_port |-> 0]
Return == call' = Outside
Ready(p) == port_list[p] >= READY

econet_open(f) ==
    /\ At("user") /\ f \notin dev.open
    /\ dev' = [dev EXCEPT !.open = @ \cup {f}]
    /\ Return
    /\ UNCHANGED <<hwVars, st, mon, port_list, hist>>

\* What was buffered for port p is given up.
Forget(p) == hist' = [hist EXCEPT !.next = IF hist.buf_port = p THEN hist.end ELSE @]

\* Closes the descriptor's port, whoever else listens to it.
econet_close(f) ==
    /\ At("user") /\ f \in dev.open
    /\ dev' = [dev EXCEPT !.open = @ \ {f}, !.rx_port[f] = 0]
    /\ LET p == dev.rx_port[f]
       IN  IF p # 0 THEN port_list' = [port_list EXCEPT ![p] = 0] /\ Forget(p)
                    ELSE UNCHANGED <<port_list, hist>>
    /\ Return
    /\ UNCHANGED <<hwVars, st, mon>>

\* ECONET_SET_RECV_PORT.  The descriptor's previous port stays listed.
econet_set_rx_port(f, p) ==
    /\ At("user") /\ f \in dev.open
    /\ dev' = [dev EXCEPT !.rx_port[f] = p]
    /\ port_list' = [port_list EXCEPT ![p] = f]
    /\ Forget(p)
    /\ Return
    /\ UNCHANGED <<hwVars, st, mon>>

\* ECONET_SET_SEND_ADDR
econet_set_tx_addr(f, s) ==
    /\ At("user") /\ f \in dev.open
    /\ dev' = [dev EXCEPT !.tx_dest[f] = s]
    /\ Return
    /\ UNCHANGED <<hwVars, st, mon, port_list, hist>>

\* ECONET_SET_ADDR.  A store to the low byte of any register of the receiver
\* asserts valid_rst, so a frame that was latched just before is dropped.
econet_set_addr ==
    /\ At("user") /\ dev.open # {}
    /\ ClearValid
    /\ Return
    /\ UNCHANGED <<txd, timer, st, mon, port_list, dev, hist>>

\* Mutant: the frames that were read stay counted.
ResetFramesOnly == [mon EXCEPT !.frames = 0]

ResetMonitor == [frames |-> 0, last |-> 0]

\* ECONET_SET_MONITOR.  The byte store leaves a latched frame alone.
econet_set_monitor(m) ==
    /\ At("user") /\ dev.open # {}
    /\ mon' = ResetMonitor
    /\ rxd' = [rxd EXCEPT !.monitor = m]
    /\ Return
    /\ UNCHANGED <<txd, timer, st, port_list, dev, hist>>

-----------------------------------------------------------------------------
(***************************************************************************)
(* econet_write: wait for the line, send the scout, and leave the rest of  *)
(* the four-way handshake to the interrupt handlers.                       *)
(***************************************************************************)

\* Mutants: one of the two flags keeps its value from the previous write.
ResetStatusOnly(s) == [s EXCEPT !.tx_status = 0]
ResetTimeoutOnly(s) == [s EXCEPT !.timeout_state = 0]

ResetTxFlags(s) == [s EXCEPT !.tx_status = 0, !.timeout_state = 0]

econet_write(f, n) ==
    /\ At("user") /\ f \in dev.open
    /\ IF n > TXBUFSZ - 8
       THEN Return /\ UNCHANGED <<txd, st>>           \* -EMSGSIZE
       ELSE /\ st' = ResetTxFlags(st)
            /\ txd' = [txd EXCEPT !.turnaround = FALSE]
            /\ IF dev.tx_dest[f] = 0
               THEN Return                          \* -EDESTADDRREQ
               ELSE Begin("w_poll", f, n, 0)
    /\ UNCHANGED <<rxd, timer, mon, port_list, dev, hist>>

\* The idle test loads the status register first, the handshake state second.
WritePoll ==
    /\ At("w_poll")
    /\ ~rxd.receiving /\ ~rxd.valid
    /\ Goto("w_state")
    /\ UNCHANGED <<hwVars, st, mon, port_list, dev, hist>>

WriteState ==
    /\ At("w_state")
    /\ Goto(IF st.handshake > WAITSCOUT THEN "w_poll" ELSE "w_fill")
    /\ UNCHANGED <<hwVars, st, mon, port_list, dev, hist>>

\* DISABLE_INTERRUPTS, fill the transmit buffer, start the timeout.
WriteFill ==
    /\ At("w_fill")
    /\ txd' = Overwrite(txd)
    /\ StartTimer
    /\ st' = [st EXCEPT !.handshake = TXSCOUT]
    /\ Goto("w_send")
    /\ UNCHANGED <<rxd, mon, port_list, dev, hist>>

\* The data frame is at 8 .. 11 + count of the buffer, whose address wraps: a
\* longer one comes round onto the scout frame.
Fits(n) == 12 + n <= TXBUFSZ

\* Start the scout frame, ENABLE_INTERRUPTS.
WriteSend ==
    /\ At("w_send")
    /\ LET t == Transmit(txd, "scout")
       IN  txd' = IF Fits(call.count) THEN t ELSE [t EXCEPT !.frame = "garbled"]
    /\ Goto("w_wait")
    /\ UNCHANGED <<rxd, timer, st, mon, port_list, dev, hist>>

\* The handshake is over: write() returns what it came to.
WriteResult ==
    CASE st.tx_status = TXDONE -> "count"
      [] st.tx_status # TXDONE /\ st.timeout_state = TXSCOUT -> "EHOSTUNREACH"
      [] OTHER -> "ETIMEDOUT"

\* Mutant: the wait loop tests for > STATE_TXSCOUT.
HandshakeBeyondScout == st.handshake <= TXSCOUT

HandshakeOver == st.handshake < TXSCOUT

WriteEnds(r) == At("w_wait") /\ HandshakeOver /\ WriteResult = r

WriteDone ==
    /\ At("w_wait") /\ HandshakeOver
    /\ Return
    /\ hist' = [hist EXCEPT !.acks = 0]
    /\ UNCHANGED <<hwVars, st, mon, port_list, dev>>

-----------------------------------------------------------------------------
(***************************************************************************)
(* econet_read, and econet_monitor, which has the same steps: port 0 marks *)
(* it.  The buffer's start and length are volatile, and every mention of   *)
(* them in the code is a load of its own.                                  *)
(***************************************************************************)

econet_read(f, n) ==
    /\ At("user") /\ f \in dev.open
    /\ LET p == IF rxd.monitor THEN 0 ELSE dev.rx_port[f]
       IN  IF ~rxd.monitor /\ p = 0
           THEN Return                              \* -EINVAL
           ELSE Begin("r_wait", f, n, p)
    /\ UNCHANGED <<hwVars, st, mon, port_list, dev, hist>>

\* The busy wait for a frame.
ReadWait ==
    /\ At("r_wait")
    /\ IF call.port = 0 THEN mon.frames # mon.last ELSE Ready(call.port)
    /\ Goto("r_size")
    /\ UNCHANGED <<hwVars, st, mon, port_list, dev, hist>>

\* copy_sz = econet_buf_len > count ? count : econet_buf_len
ReadSize ==
    /\ At("r_size")
    /\ call' = IF st.rx_buf_len > call.count
               THEN [call EXCEPT !.copy_sz = call.count, !.pc = "r_copy"]
               ELSE [call EXCEPT !.pc = "r_size2"]
    /\ UNCHANGED <<hwVars, st, mon, port_list, dev, hist>>

ReadSize2 ==
    /\ At("r_size2")
    /\ call' = [call EXCEPT !.copy_sz = st.rx_buf_len, !.pc = "r_copy"]
    /\ UNCHANGED <<hwVars, st, mon, port_list, dev, hist>>

\* memcpy from the receive buffer
ReadCopy ==
    /\ At("r_copy")
    /\ hist' = [hist EXCEPT !.next = st.rx_buf_start + call.copy_sz]
    /\ call' = [call EXCEPT !.got_port = hist.buf_port, !.pc = "r_test"]
    /\ UNCHANGED <<hwVars, st, mon, port_list, dev>>

\* Mutant: the flag is reset by a read that fills the caller's buffer.
BufferFilled == call.copy_sz < call.count

BytesRemain == call.copy_sz < st.rx_buf_len

ReadTest ==
    /\ At("r_test")
    /\ Goto(IF BytesRemain THEN "r_part" ELSE "r_done")
    /\ UNCHANGED <<hwVars, st, mon, port_list, dev, hist>>

\* Unsigned subtraction.
Minus(a, b) == IF a >= b THEN a - b ELSE WordSize + a - b

\* Mutant: the start stays where it was.
ShortenOnly(s, n) == [s EXCEPT !.rx_buf_len = Minus(@, n)]

\* Part of the frame is left for the next read.
Consume(s, n) == [s EXCEPT !.rx_buf_len = Minus(@, n), !.rx_buf_start = @ + n]

ReadPart ==
    /\ At("r_part")
    /\ st' = Consume(st, call.copy_sz)
    /\ Return
    /\ UNCHANGED <<hwVars, mon, port_list, dev, hist>>

\* All of it was read: reset the flag, or account for the monitored frame.
ReadDone ==
    /\ At("r_done")
    /\ IF call.port = 0
       THEN mon' = [mon EXCEPT !.last = @ + 1] /\ UNCHANGED port_list
       ELSE port_list' = [port_list EXCEPT ![call.port] = call.fd] /\ UNCHANGED mon
    /\ Return
    /\ UNCHANGED <<hwVars, st, dev, hist>>

-----------------------------------------------------------------------------
(***************************************************************************)
(* The interrupt handlers.  isr_trap serves a received frame before an     *)
(* expired timer; econet_rx first clears the frame's request and stops the *)
(* timer.                                                                  *)
(***************************************************************************)

InterruptsEnabled == ~At("w_send")

econet_rx ==
    /\ InterruptsEnabled
    /\ rxd.valid
    /\ ClearValid
    /\ UNCHANGED <<dev, call>>

\* .econet_monitor
RxMonitor ==
    /\ econet_rx /\ rxd.monitor
    /\ StopTimer
    /\ mon' = [mon EXCEPT !.frames = @ + 1]
    /\ st' = [st EXCEPT !.rx_buf_start = 0, !.rx_buf_len = rxd.frame.len]
    /\ hist' = [hist EXCEPT !.buf_port = 0, !.next = 0, !.end = rxd.frame.len]
    /\ UNCHANGED <<txd, port_list>>

RxInState(s) == econet_rx /\ ~rxd.monitor /\ st.handshake = s /\ UNCHANGED mon

\* .econet_ack and .econet_rx_imm: a frame that need not wait for an idle line.
Reply(k) == txd' = [Transmit(txd, k) EXCEPT !.turnaround = TRUE]

\* Mutant: the acknowledgement is sent and no timeout set up.
AckUntimed == Reply("ack") /\ StopTimer

SendAck == Reply("ack") /\ StartTimer

IsScout(f) == f.len = 8 /\ port_list[f.port] # 0
IsMachineType(f) == f.len = 12 /\ f.flag = 136

\* .scout_ack
RxScout ==
    /\ RxInState(WAITSCOUT) /\ IsScout(rxd.frame)
    /\ st' = [st EXCEPT !.handshake = WAITDATA, !.pending_port = rxd.frame.port]
    /\ SendAck
    /\ UNCHANGED <<port_list, hist>>

\* .econet_rx_imm, the immediate operation "machine type"
RxImmediate ==
    /\ RxInState(WAITSCOUT) /\ IsMachineType(rxd.frame)
    /\ Reply("machtype") /\ StopTimer
    /\ UNCHANGED <<st, port_list, hist>>

\* Any other frame while waiting for a scout.
RxIgnore ==
    /\ RxInState(WAITSCOUT) /\ ~IsScout(rxd.frame) /\ ~IsMachineType(rxd.frame)
    /\ StopTimer
    /\ UNCHANGED <<txd, st, port_list, hist>>

\* Mutant: the flag is added, not or'ed.
AddReady(x) == x + READY

\* x | 0x80
SetReady(x) == IF x >= READY THEN x ELSE x + READY

\* Mutant: the port byte of the frame that just arrived.
PortOfData == rxd.frame.port

PendingPort == st.pending_port

\* .data_ack
RxData ==
    /\ RxInState(WAITDATA)
    /\ port_list' = [port_list EXCEPT ![PendingPort] = SetReady(@)]
    /\ st' = [st EXCEPT !.handshake = WAITSCOUT, !.rx_buf_start = 2,
                        !.rx_buf_len = Minus(rxd.frame.len, 4)]
    /\ hist' = [hist EXCEPT !.buf_port = st.pending_port, !.next = 2,
                             !.end = 2 + Minus(rxd.frame.len, 4)]
    /\ SendAck

\* .rx_scout_ack
RxScoutAck ==
    /\ RxInState(TXSCOUT) /\ rxd.frame.len = 6
    /\ st' = [st EXCEPT !.handshake = TXDATA]
    /\ hist' = [hist EXCEPT !.acks = 1]
    /\ Reply("data") /\ StartTimer
    /\ UNCHANGED port_list

\* .rx_data_ack
RxDataAck ==
    /\ RxInState(TXDATA) /\ rxd.frame.len = 6
    /\ st' = [st EXCEPT !.handshake = WAITSCOUT, !.tx_status = TXDONE]
    /\ hist' = [hist EXCEPT !.acks = 2]
    /\ StopTimer
    /\ UNCHANGED <<txd, port_list>>

\* .tx_error
RxTxError ==
    /\ RxInState(TXSCOUT) \/ RxInState(TXDATA)
    /\ rxd.frame.len # 6
    /\ st' = [st EXCEPT !.handshake = WAITSCOUT, !.tx_status = TXNETERR]
    /\ StopTimer
    /\ UNCHANGED <<txd, port_list, hist>>

\* Mutant: the state is recorded and not reset.
RecordTimeout(s) == [s EXCEPT !.timeout_state = s.handshake]

GiveUp(s) == [s EXCEPT !.timeout_state = s.handshake, !.handshake = WAITSCOUT]

econet_timeout ==
    /\ InterruptsEnabled /\ ~rxd.valid /\ timer = "expired"
    /\ StopTimer
    /\ st' = GiveUp(st)
    /\ UNCHANGED <<rxd, txd, mon, port_list, dev, call, hist>>

-----------------------------------------------------------------------------
\* Polite stations do not start a frame before the last one was served and
\* read; nothing in the driver holds them back.
OthersMaySend ==
    Polite => ~rxd.valid /\ call.pc \notin ReadSteps \ {"r_wait"} /\ \A p \in Ports : ~Ready(p)

NetBegin == OthersMaySend /\ RxBegin /\ UNCHANGED drvVars

NetEnd == RxEnd /\ UNCHANGED drvVars

NetFrame(f) == /\ rxd.monitor => mon.frames < MaxMonitor
               /\ RxLatch(f)
               /\ UNCHANGED drvVars

Call ==
    \/ \E f \in Fds :
          \/ econet_open(f)
          \/ econet_close(f)
          \/ \E p \in RxPorts : econet_set_rx_port(f, p)
          \/ \E s \in Stations : econet_set_tx_addr(f, s)
          \/ \E n \in WriteCounts : econet_write(f, n)
          \/ \E n \in ReadCounts : econet_read(f, n)
    \/ econet_set_addr
    \/ \E m \in MonitorModes : econet_set_monitor(m)

WriteStep == WritePoll \/ WriteState \/ WriteFill \/ WriteSend \/ WriteDone
ReadStep == ReadWait \/ ReadSize \/ ReadSize2 \/ ReadCopy \/ ReadTest \/ ReadPart \/ ReadDone
Isr == \/ RxMonitor \/ RxScout \/ RxImmediate \/ RxIgnore \/ RxData
       \/ RxScoutAck \/ RxDataAck \/ RxTxError \/ econet_timeout

Next == \/ Call \/ WriteStep \/ ReadStep \/ Isr
        \/ NetBegin \/ NetEnd \/ (\E f \in Frames : NetFrame(f))
        \/ Hardware /\ UNCHANGED drvVars

Spec == Init /\ [][Next]_vars

\* The processor runs the program when it is in no handler and takes an
\* interrupt that is requested, and a timer that was started gets to its end.
Fairness ==
    /\ WF_vars(WriteStep)
    /\ WF_vars(ReadStep)
    /\ WF_vars(Isr)
    /\ WF_vars(TimerExpire /\ UNCHANGED drvVars)

FairSpec == Spec /\ Fairness

-----------------------------------------------------------------------------
(***************************************************************************)
(* Properties.                                                             *)
(***************************************************************************)

\* A handshake never waits without a timeout: in every state but WAITSCOUT the
\* timer that resets the state is running or has just expired.  Without it
\* econet_write spins for ever, and no scout is answered again.
HandshakeTimed == st.handshake # WAITSCOUT => timer # "off"

\* write() reports success only if in this very call the scout and then the data
\* frame were acknowledged, however frames, timeouts and earlier calls
\* interleave with the flags it resets.
SentMeansAcked == WriteEnds("count") => hist.acks = 2

\* EHOSTUNREACH from write() means the data frame was never started, so the
\* caller may send it again without it arriving twice.
UnreachableMeansUnsent == WriteEnds("EHOSTUNREACH") => hist.acks = 0

\* What write() returns is what happened on the line in this call.
WriteHonest == SentMeansAcked /\ UnreachableMeansUnsent

\* Only a write in progress owns the transmit half of the handshake, from the
\* store that starts it until a handler ends it.
TransmitOwned == st.handshake >= TXSCOUT => call.pc \in {"w_send", "w_wait"}

\* With polite stations a read copies no more than the caller has room for, from
\* where the last read of the frame stopped, and gives the frame up exactly when
\* all of it was read, though length and start are loaded again and again.
ReadIntact ==
    /\ At("r_copy") => call.copy_sz <= call.count /\ st.rx_buf_start = hist.next
    /\ At("r_part") => call.copy_sz < st.rx_buf_len
    /\ At("r_done") => hist.next = hist.end

\* What a read copies is from a frame that was sent to the port it reads.
ReadOwnPort == call.pc \in {"r_test", "r_part", "r_done"} => call.got_port = call.port

\* A read gets each byte of a frame once, in order, and from its own port.
ReadHonest == ReadIntact /\ ReadOwnPort

\* While a data frame that was acknowledged has bytes nobody read, its port is
\* flagged ready, so that the next read gets them.
UnreadIsReady == hist.next < hist.end /\ hist.buf_port # 0 => Ready(hist.buf_port)

\* A monitor read that left its wait loop has a frame to account for.  The loop
\* tests for inequality: once more frames were read than received, reads would
\* return stale buffers four thousand million times.
MonitorReadHasFrame ==
    call.pc \in ReadSteps \ {"r_wait"} /\ call.port = 0 => mon.last < mon.frames

\* A write that started its handshake returns, whatever the network does.
WriteReturns == At("w_wait") ~> At("user")

\* A scout that was answered does not keep the station from hearing others.
WaitDataEnds == st.handshake = WAITDATA ~> st.handshake # WAITDATA
=============================================================================
