---------------------------- MODULE EconetProofs ----------------------------
(***************************************************************************)
(* Proofs about Econet, for all descriptors, ports, stations, sizes and    *)
(* frames: the handshake and write(); then monitor mode, and read()        *)
(* against the handlers that fill the buffer it copies from.               *)
(***************************************************************************)
EXTENDS Econet, TLAPS

\* What ties the flags write() looks at to the acknowledgements it got: they are
\* clean until its handshake is over, the acknowledgements go with the state,
\* and outside the final wait there are none.
AckInv ==
    /\ call.pc = "w_send" => st.handshake = TXSCOUT
    /\ call.pc \in WriteSteps \ {"w_wait"} \/ st.handshake >= TXSCOUT
          => st.tx_status = 0 /\ st.timeout_state # TXSCOUT
    /\ st.handshake = TXSCOUT => hist.acks = 0
    /\ st.handshake = TXDATA => hist.acks = 1
    /\ hist.acks # 0 => call.pc = "w_wait"
    /\ call.pc = "w_wait" =>
          /\ st.tx_status = TXDONE => hist.acks = 2
          /\ st.timeout_state = TXSCOUT => hist.acks = 0

IInv == TransmitOwned /\ AckInv

-----------------------------------------------------------------------------

\* Unsigned subtraction stays within a size_t.
LEMMA MinusType == ASSUME NEW a \in Sizes, NEW b \in Sizes PROVE Minus(a, b) \in Sizes
BY WordAssumption DEF Minus, Sizes

LEMMA NoFrameType == NoFrame \in FrameType
BY PortsAssumption DEF NoFrame, FrameType, FrameLens

LEMMA StateTypes == /\ WAITSCOUT \in HandshakeStates /\ WAITDATA \in HandshakeStates
                    /\ TXSCOUT \in HandshakeStates /\ TXDATA \in HandshakeStates
                    /\ 0 \in TxStatuses /\ TXDONE \in TxStatuses /\ TXNETERR \in TxStatuses
BY DEF HandshakeStates, TxStatuses, WAITSCOUT, WAITDATA, TXSCOUT, TXDATA, TXDONE, TXNETERR

LEMMA SmallSizes == 0 \in Sizes /\ 4 \in Sizes /\ 0 .. 2047 \subseteq Sizes
BY WordAssumption DEF Sizes

LEMMA StepTypes == "user" \in Steps /\ WriteSteps \subseteq Steps /\ ReadSteps \subseteq Steps
BY DEF Steps

\* A descriptor fits into a table entry, with or without the flag.
LEMMA EntryTypes ==
    /\ 0 \in Entries /\ Fds \cup {0} \subseteq Entries
    /\ \A x \in Entries : SetReady(x) \in Entries
BY FdsAssumption DEF Entries, SetReady, READY

LEMMA LensAreSizes == FrameLens \subseteq Nat /\ FrameLens \subseteq Sizes
BY WordAssumption DEF FrameLens, Sizes

\* The fields of a latched frame.
LEMMA LatchedFrame ==
    HwTypeOK => rxd.frame.len \in Sizes /\ rxd.frame.len \in Nat /\ rxd.frame.port \in Ports
<1> SUFFICES ASSUME HwTypeOK
    PROVE  rxd.frame.len \in Sizes /\ rxd.frame.len \in Nat /\ rxd.frame.port \in Ports
  OBVIOUS
<1>1. rxd.frame \in FrameType
  BY DEF HwTypeOK, RxType
<1>2. rxd.frame.len \in FrameLens /\ rxd.frame.port \in Ports
  BY <1>1 DEF FrameType
<1> QED
  BY <1>2, LensAreSizes

\* What the hardware does by itself keeps the types of its registers.
LEMMA HardwareType ==
    ASSUME HwTypeOK, Hardware \/ RxBegin \/ RxEnd \/ \E f \in Frames : RxLatch(f)
    PROVE  HwTypeOK'
<1> USE DEF HwTypeOK, RxType, TxType
<1>1. CASE RxBegin
  BY <1>1 DEF RxBegin
<1>2. CASE RxEnd
  BY <1>2 DEF RxEnd
<1>3. ASSUME NEW f \in Frames, RxLatch(f) PROVE HwTypeOK'
  BY <1>3, FramesAssumption DEF RxLatch
<1>4. CASE RxDrop
  BY <1>4 DEF RxDrop
<1>5. CASE TxIdle
  BY <1>5 DEF TxIdle
<1>6. CASE TxTakeRequest
  BY <1>6 DEF TxTakeRequest, Started
<1>7. CASE TxLineReady
  BY <1>7 DEF TxLineReady, Started
<1>8. CASE TxLastByte
  BY <1>8 DEF TxLastByte
<1>9. CASE TxFlagSent
  BY <1>9 DEF TxFlagSent
<1>10. CASE TimerExpire
  BY <1>10 DEF TimerExpire
<1> QED
  BY <1>1, <1>2, <1>3, <1>4, <1>5, <1>6, <1>7, <1>8, <1>9, <1>10 DEF Hardware


\* No call in progress is a state of the program.
LEMMA OutsideType == Outside \in CallType
BY SmallSizes, StepTypes, PortsAssumption DEF Outside, CallType

\* The system calls keep the types.
LEMMA CallTypes == TypeOK /\ Call => TypeOK'
<1> SUFFICES ASSUME TypeOK, Call PROVE TypeOK'
  OBVIOUS
<1> USE OutsideType DEF TypeOK, Return, At
<1>1. ASSUME NEW f \in Fds, econet_open(f) PROVE TypeOK'
  BY <1>1 DEF econet_open, hwVars, HwTypeOK, DevType
<1>2. ASSUME NEW p \in Ports, Forget(p) PROVE hist' \in HistType
  BY <1>2 DEF Forget, HistType
<1>3. ASSUME NEW f \in Fds, econet_close(f) PROVE TypeOK'
  <2>1. dev' \in DevType
    BY <1>3, PortsAssumption DEF econet_close, DevType
  <2>2. dev.rx_port[f] \in Ports
    BY DEF DevType
  <2>3. port_list' \in [Ports -> Entries] /\ hist' \in HistType
    BY <1>2, <1>3, <2>2, EntryTypes DEF econet_close
  <2> QED
    BY <1>3, <2>1, <2>3 DEF econet_close, hwVars, HwTypeOK
<1>4. ASSUME NEW f \in Fds, NEW p \in RxPorts, econet_set_rx_port(f, p) PROVE TypeOK'
  <2>1. dev' \in DevType
    BY <1>4, RxPortsAssumption DEF econet_set_rx_port, DevType
  <2>2. port_list' \in [Ports -> Entries]
    BY <1>4, RxPortsAssumption, EntryTypes DEF econet_set_rx_port
  <2> QED
    BY <1>2, <1>4, <2>1, <2>2, RxPortsAssumption DEF econet_set_rx_port, hwVars, HwTypeOK
<1>5. ASSUME NEW f \in Fds, NEW s \in Stations, econet_set_tx_addr(f, s) PROVE TypeOK'
  <2>1. dev' \in DevType
    BY <1>5 DEF econet_set_tx_addr, DevType
  <2> QED
    BY <1>5, <2>1 DEF econet_set_tx_addr, hwVars, HwTypeOK
<1>6. ASSUME NEW f \in Fds, NEW n \in WriteCounts, econet_write(f, n) PROVE TypeOK'
  <2>1. st' \in StType
    BY <1>6, StateTypes DEF econet_write, ResetTxFlags, StType, WAITSCOUT
  <2>2. txd' \in TxType
    BY <1>6 DEF econet_write, HwTypeOK, TxType
  <2>3. call' \in CallType
    BY <1>6, CountsAssumption, StepTypes, SmallSizes, PortsAssumption
       DEF econet_write, Begin, CallType, WriteSteps, Sizes
  <2> QED
    BY <1>6, <2>1, <2>2, <2>3 DEF econet_write, HwTypeOK
<1>7. ASSUME NEW f \in Fds, NEW n \in ReadCounts, econet_read(f, n) PROVE TypeOK'
  <2>1. n \in Sizes /\ dev.rx_port[f] \in Ports
    BY CountsAssumption DEF Sizes, DevType
  <2>2. ASSUME NEW p \in Ports, Begin("r_wait", f, n, p)
        PROVE  call' \in CallType
    BY <2>1, <2>2, StepTypes, SmallSizes, PortsAssumption DEF Begin, CallType, ReadSteps
  <2>3. call' \in CallType
    BY <1>7, <2>1, <2>2, PortsAssumption DEF econet_read
  <2> QED
    BY <1>7, <2>3 DEF econet_read, hwVars, HwTypeOK
<1>8. CASE econet_set_addr
  BY <1>8, NoFrameType DEF econet_set_addr, ClearValid, HwTypeOK, RxType
<1>9. ASSUME NEW m \in MonitorModes, econet_set_monitor(m) PROVE TypeOK'
  BY <1>9, MonitorAssumption DEF econet_set_monitor, ResetMonitor, HwTypeOK, RxType
<1> QED
  BY <1>1, <1>3, <1>4, <1>5, <1>6, <1>7, <1>8, <1>9 DEF Call

\* The steps of write() and read() keep the types.
LEMMA WriteTypes == TypeOK /\ WriteStep => TypeOK'
<1> SUFFICES ASSUME TypeOK, WriteStep PROVE TypeOK'
  OBVIOUS
<1> USE OutsideType, StepTypes DEF TypeOK, Return, Goto, CallType, WriteSteps
<1>1. CASE WritePoll
  BY <1>1 DEF WritePoll, hwVars, HwTypeOK
<1>2. CASE WriteState
  BY <1>2 DEF WriteState, hwVars, HwTypeOK
<1>3. CASE WriteFill
  BY <1>3, StateTypes DEF WriteFill, Overwrite, StartTimer, HwTypeOK, TxType, StType
<1>4. CASE WriteSend
  BY <1>4 DEF WriteSend, Transmit, HwTypeOK, TxType, FrameKinds
<1>5. CASE WriteDone
  BY <1>5 DEF WriteDone, hwVars, HwTypeOK, HistType, AckCounts
<1> QED
  BY <1>1, <1>2, <1>3, <1>4, <1>5 DEF WriteStep

LEMMA ReadTypes == TypeOK /\ ReadStep => TypeOK'
<1> SUFFICES ASSUME TypeOK, ReadStep PROVE TypeOK'
  OBVIOUS
<1> USE OutsideType, StepTypes DEF TypeOK, Return, Goto, CallType, ReadSteps
<1>1. CASE ReadWait
  BY <1>1 DEF ReadWait, hwVars, HwTypeOK
<1>2. CASE ReadSize
  BY <1>2 DEF ReadSize, hwVars, HwTypeOK
<1>3. CASE ReadSize2
  BY <1>3 DEF ReadSize2, hwVars, HwTypeOK, StType
<1>4. CASE ReadCopy
  <2>1. st.rx_buf_start + call.copy_sz \in Nat
    BY WordAssumption DEF StType, Sizes
  <2>2. hist' \in HistType
    BY <1>4, <2>1 DEF ReadCopy, HistType
  <2> QED
    BY <1>4, <2>2 DEF ReadCopy, hwVars, HwTypeOK, HistType
<1>5. CASE ReadTest
  BY <1>5 DEF ReadTest, hwVars, HwTypeOK
<1>6. CASE ReadPart
  <2>1. Minus(st.rx_buf_len, call.copy_sz) \in Sizes
    BY MinusType DEF StType
  <2>2. st.rx_buf_start + call.copy_sz \in Nat
    BY WordAssumption DEF StType, Sizes
  <2>3. st' \in StType
    BY <1>6, <2>1, <2>2 DEF ReadPart, Consume, StType
  <2> QED
    BY <1>6, <2>3 DEF ReadPart, hwVars, HwTypeOK
<1>7. CASE ReadDone
  BY <1>7, EntryTypes DEF ReadDone, hwVars, HwTypeOK
<1> QED
  BY <1>1, <1>2, <1>3, <1>4, <1>5, <1>6, <1>7 DEF ReadStep

\* The interrupt handlers keep the types.
LEMMA IsrTypes == TypeOK /\ Isr => TypeOK'
<1> SUFFICES ASSUME TypeOK, Isr PROVE TypeOK'
  OBVIOUS
<1> USE StateTypes DEF TypeOK, StType, econet_rx, RxInState, StopTimer, StartTimer
<1>1. ASSUME ClearValid PROVE rxd' \in RxType
  BY <1>1, NoFrameType DEF ClearValid, HwTypeOK, RxType
<1>2. ASSUME NEW k \in FrameKinds, Reply(k) PROVE txd' \in TxType
  BY <1>2 DEF Reply, Transmit, HwTypeOK, TxType
<1>3. rxd.frame.len \in Sizes /\ rxd.frame.len \in Nat /\ rxd.frame.port \in Ports
  BY LatchedFrame DEF TypeOK
<1>4. Minus(rxd.frame.len, 4) \in Sizes /\ 2 + Minus(rxd.frame.len, 4) \in Nat
  <2>1. Minus(rxd.frame.len, 4) \in Sizes
    BY <1>3, MinusType, SmallSizes
  <2> QED
    BY <2>1, WordAssumption DEF Sizes
<1>5. CASE RxMonitor
  <2>1. st' \in StType
    BY <1>5, <1>3 DEF RxMonitor
  <2>2. hist' \in HistType
    BY <1>5, <1>3, PortsAssumption DEF RxMonitor, HistType
  <2>3. mon' \in [frames : Nat, last : Nat]
    BY <1>5 DEF RxMonitor
  <2> QED
    BY <1>5, <1>1, <2>1, <2>2, <2>3 DEF RxMonitor, HwTypeOK
<1>6. CASE RxScout
  BY <1>6, <1>1, <1>2, <1>3 DEF RxScout, SendAck, HwTypeOK, FrameKinds
<1>7. CASE RxImmediate
  BY <1>7, <1>1, <1>2 DEF RxImmediate, HwTypeOK, FrameKinds
<1>8. CASE RxIgnore
  BY <1>8, <1>1 DEF RxIgnore, HwTypeOK
<1>9. CASE RxData
  <2>1. port_list' \in [Ports -> Entries]
    BY <1>9, EntryTypes DEF RxData, PendingPort
  <2>2. st' \in StType /\ hist' \in HistType
    BY <1>9, <1>4 DEF RxData, HistType
  <2> QED
    BY <1>9, <1>1, <1>2, <2>1, <2>2 DEF RxData, SendAck, HwTypeOK, FrameKinds
<1>10. CASE RxScoutAck
  BY <1>10, <1>1, <1>2 DEF RxScoutAck, HwTypeOK, FrameKinds, HistType, AckCounts
<1>11. CASE RxDataAck
  <2>1. st' \in StType
    BY <1>11 DEF RxDataAck
  <2>2. hist' \in HistType
    BY <1>11 DEF RxDataAck, HistType, AckCounts
  <2> QED
    BY <1>11, <1>1, <2>1, <2>2 DEF RxDataAck, HwTypeOK
<1>12. CASE RxTxError
  BY <1>12, <1>1 DEF RxTxError, HwTypeOK
<1>13. CASE econet_timeout
  BY <1>13 DEF econet_timeout, GiveUp, HwTypeOK
<1> QED
  BY <1>5, <1>6, <1>7, <1>8, <1>9, <1>10, <1>11, <1>12, <1>13 DEF Isr

LEMMA TypeStep == TypeOK /\ [Next]_vars => TypeOK'
<1> SUFFICES ASSUME TypeOK, [Next]_vars PROVE TypeOK'
  OBVIOUS
<1>1. CASE NetBegin \/ NetEnd \/ (\E f \in Frames : NetFrame(f)) \/ (Hardware /\ UNCHANGED drvVars)
  BY <1>1, HardwareType DEF NetBegin, NetEnd, NetFrame, drvVars, TypeOK
<1>2. CASE UNCHANGED vars
  BY <1>2 DEF vars, hwVars, drvVars, TypeOK, HwTypeOK
<1> QED
  BY <1>1, <1>2, CallTypes, WriteTypes, ReadTypes, IsrTypes DEF Next

LEMMA TypeInit == Init => TypeOK
<1> SUFFICES ASSUME Init PROVE TypeOK
  OBVIOUS
<1>1. HwTypeOK
  BY NoFrameType DEF Init, HwInit, HwTypeOK, RxType, TxType
<1>2. st \in StType /\ hist \in HistType /\ mon \in [frames : Nat, last : Nat]
  BY StateTypes, SmallSizes, PortsAssumption DEF Init, StType, HistType, AckCounts, WAITSCOUT
<1>3. dev \in DevType /\ port_list \in [Ports -> Entries]
  BY PortsAssumption, EntryTypes DEF Init, DevType
<1> QED
  BY <1>1, <1>2, <1>3, OutsideType DEF Init, TypeOK

\* The type invariant of the driver and its hardware.
THEOREM TypeCorrect == Spec => []TypeOK
BY TypeInit, TypeStep, PTL DEF Spec

-----------------------------------------------------------------------------
\* The handshake of a write: one step of the proof for each action.
LEMMA HandshakeStep == TypeOK /\ IInv /\ [Next]_vars => IInv'
<1> SUFFICES ASSUME TypeOK, IInv, [Next]_vars PROVE IInv'
  OBVIOUS
<1> USE DEF IInv, TransmitOwned, AckInv, WAITSCOUT, WAITDATA, TXSCOUT, TXDATA, TXDONE, TXNETERR
<1>0. /\ st \in StType /\ st.handshake \in 0 .. 3 /\ st.timeout_state \in 0 .. 3
      /\ call \in CallType /\ hist \in HistType
  BY DEF TypeOK, StType, HandshakeStates
<1>1. CASE Call
  <2> USE <1>0 DEF At, Return, Outside, HistType
  <2>1. ASSUME NEW f \in Fds, econet_open(f) \/ econet_close(f) PROVE IInv'
    BY <2>1 DEF econet_open, econet_close, Forget, WriteSteps
  <2>2. ASSUME NEW f \in Fds, NEW p \in RxPorts, econet_set_rx_port(f, p) PROVE IInv'
    BY <2>2 DEF econet_set_rx_port, Forget, WriteSteps
  <2>3. ASSUME NEW f \in Fds, NEW s \in Stations, econet_set_tx_addr(f, s) PROVE IInv'
    BY <2>3 DEF econet_set_tx_addr, WriteSteps
  <2>4. ASSUME NEW f \in Fds, NEW n \in WriteCounts, econet_write(f, n) PROVE IInv'
    <3>1. call.pc = "user" /\ st.handshake < 2 /\ hist.acks = 0 /\ hist' = hist
      BY <2>4 DEF econet_write
    <3>2. ResetTxFlags(st).handshake = st.handshake /\ ResetTxFlags(st).tx_status = 0
          /\ ResetTxFlags(st).timeout_state = 0
      BY DEF ResetTxFlags, StType
    <3>3. \/ st' = st /\ call'.pc = "user"
          \/ st' = ResetTxFlags(st) /\ call'.pc \in {"user", "w_poll"}
      BY <2>4 DEF econet_write, Begin
    <3> QED
      BY <3>1, <3>2, <3>3 DEF WriteSteps
  <2>5. ASSUME NEW f \in Fds, NEW n \in ReadCounts, econet_read(f, n) PROVE IInv'
    <3>1. call.pc = "user" /\ st' = st /\ hist' = hist
      BY <2>5 DEF econet_read
    <3>2. call'.pc = "user" \/ call'.pc = "r_wait"
      BY <2>5 DEF econet_read, Begin
    <3> QED
      BY <3>1, <3>2 DEF WriteSteps
  <2>6. CASE econet_set_addr
    BY <2>6 DEF econet_set_addr, WriteSteps
  <2>7. ASSUME NEW m \in MonitorModes, econet_set_monitor(m) PROVE IInv'
    BY <2>7 DEF econet_set_monitor, ResetMonitor, WriteSteps
  <2> QED
    BY <1>1, <2>1, <2>2, <2>3, <2>4, <2>5, <2>6, <2>7 DEF Call
<1>2. CASE WriteStep
  <2> USE <1>0 DEF At, Return, Outside, Goto, HistType, CallType, StType, WriteSteps
  <2>1. CASE WritePoll
    BY <2>1 DEF WritePoll
  <2>2. CASE WriteState
    BY <2>2 DEF WriteState
  <2>3. CASE WriteFill
    BY <2>3 DEF WriteFill
  <2>4. CASE WriteSend
    BY <2>4 DEF WriteSend
  <2>5. CASE WriteDone
    BY <2>5 DEF WriteDone, HandshakeOver
  <2> QED
    BY <1>2, <2>1, <2>2, <2>3, <2>4, <2>5 DEF WriteStep
<1>3. CASE ReadStep
  <2> USE <1>0 DEF At, Return, Outside, Goto, HistType, CallType, StType, WriteSteps
  <2>1. CASE ReadWait \/ ReadSize \/ ReadSize2 \/ ReadTest
    BY <2>1 DEF ReadWait, ReadSize, ReadSize2, ReadTest
  <2>2. CASE ReadCopy
    BY <2>2 DEF ReadCopy
  <2>3. CASE ReadPart
    BY <2>3 DEF ReadPart, Consume
  <2>4. CASE ReadDone
    BY <2>4 DEF ReadDone
  <2> QED
    BY <1>3, <2>1, <2>2, <2>3, <2>4 DEF ReadStep
<1>4. CASE Isr
  <2> USE <1>0 DEF At, InterruptsEnabled, econet_rx, RxInState, HistType, StType, WriteSteps
  <2>1. CASE RxMonitor
    BY <2>1 DEF RxMonitor
  <2>2. CASE RxScout
    BY <2>2 DEF RxScout
  <2>3. CASE RxImmediate \/ RxIgnore
    BY <2>3 DEF RxImmediate, RxIgnore
  <2>4. CASE RxData
    BY <2>4 DEF RxData
  <2>5. CASE RxScoutAck
    BY <2>5 DEF RxScoutAck
  <2>6. CASE RxDataAck
    BY <2>6 DEF RxDataAck
  <2>7. CASE RxTxError
    BY <2>7 DEF RxTxError
  <2>8. CASE econet_timeout
    BY <2>8 DEF econet_timeout, GiveUp
  <2> QED
    BY <1>4, <2>1, <2>2, <2>3, <2>4, <2>5, <2>6, <2>7, <2>8 DEF Isr
<1>5. CASE NetBegin \/ NetEnd \/ (\E f \in Frames : NetFrame(f)) \/ (Hardware /\ UNCHANGED drvVars)
           \/ UNCHANGED vars
  BY <1>5 DEF NetBegin, NetEnd, NetFrame, drvVars, vars
<1> QED
  BY <1>1, <1>2, <1>3, <1>4, <1>5 DEF Next

LEMMA HandshakeInit == Init => IInv
BY DEF Init, IInv, TransmitOwned, AckInv, Outside, WAITSCOUT, TXSCOUT, TXDATA, TXDONE, WriteSteps

LEMMA HandshakeInvariant == Spec => []IInv
BY TypeCorrect, HandshakeInit, HandshakeStep, PTL DEF Spec

\* Only a write owns the transmit half of the handshake.
THEOREM TransmitHasOwner == Spec => []TransmitOwned
BY HandshakeInvariant, PTL DEF IInv

\* write() reports success only after both acknowledgements, and an unreachable
\* station only when the data frame was never started.
THEOREM WriteIsHonest == Spec => []WriteHonest
<1>1. IInv => WriteHonest
  BY DEF IInv, AckInv, WriteHonest, SentMeansAcked, UnreachableMeansUnsent, WriteEnds, WriteResult, At
<1> QED
  BY <1>1, HandshakeInvariant, PTL

-----------------------------------------------------------------------------
\* Without monitor mode, timer A is the watchdog of every handshake: while it
\* is off the station waits for a scout.
TimedInv == ~rxd.monitor /\ HandshakeTimed

LEMMA TimedStep ==
    ASSUME TRUE \notin MonitorModes, TypeOK, TimedInv, [Next]_vars
    PROVE  TimedInv'
<1> USE DEF TimedInv, HandshakeTimed, WAITSCOUT, WAITDATA, TXSCOUT, TXDATA
<1>0. st \in StType /\ rxd \in RxType
  BY DEF TypeOK, HwTypeOK
<1>1. CASE Call
  <2> USE <1>0 DEF RxType, StType
  <2>1. ASSUME NEW f \in Fds, econet_open(f) \/ econet_close(f) PROVE TimedInv'
    BY <2>1 DEF econet_open, econet_close, hwVars
  <2>2. ASSUME NEW f \in Fds, NEW p \in RxPorts, econet_set_rx_port(f, p) PROVE TimedInv'
    BY <2>2 DEF econet_set_rx_port, hwVars
  <2>3. ASSUME NEW f \in Fds, NEW s \in Stations, econet_set_tx_addr(f, s) PROVE TimedInv'
    BY <2>3 DEF econet_set_tx_addr, hwVars
  <2>4. ASSUME NEW f \in Fds, NEW n \in WriteCounts, econet_write(f, n) PROVE TimedInv'
    BY <2>4 DEF econet_write, ResetTxFlags
  <2>5. ASSUME NEW f \in Fds, NEW n \in ReadCounts, econet_read(f, n) PROVE TimedInv'
    BY <2>5 DEF econet_read, hwVars
  <2>6. CASE econet_set_addr
    BY <2>6 DEF econet_set_addr, ClearValid
  <2>7. ASSUME NEW m \in MonitorModes, econet_set_monitor(m) PROVE TimedInv'
    BY <2>7, MonitorAssumption DEF econet_set_monitor, ResetMonitor
  <2> QED
    BY <1>1, <2>1, <2>2, <2>3, <2>4, <2>5, <2>6, <2>7 DEF Call
<1>2. CASE WriteStep
  BY <1>2, <1>0 DEF WriteStep, WritePoll, WriteState, WriteFill, WriteSend, WriteDone, hwVars,
     StartTimer, StType
<1>3. CASE ReadStep
  BY <1>3, <1>0 DEF ReadStep, ReadWait, ReadSize, ReadSize2, ReadCopy, ReadTest, ReadPart,
     ReadDone, Consume, hwVars, StType
<1>4. CASE Isr
  <2> USE <1>0 DEF econet_rx, RxInState, ClearValid, StopTimer, StartTimer, RxType, StType
  <2>1. CASE RxMonitor
    BY <2>1 DEF RxMonitor
  <2>2. CASE RxScout \/ RxImmediate \/ RxIgnore
    BY <2>2 DEF RxScout, RxImmediate, RxIgnore, SendAck
  <2>3. CASE RxData \/ RxScoutAck
    BY <2>3 DEF RxData, RxScoutAck, SendAck
  <2>4. CASE RxDataAck \/ RxTxError
    BY <2>4 DEF RxDataAck, RxTxError
  <2>5. CASE econet_timeout
    BY <2>5 DEF econet_timeout, GiveUp
  <2> QED
    BY <1>4, <2>1, <2>2, <2>3, <2>4, <2>5 DEF Isr
<1>5. CASE NetBegin \/ NetEnd \/ (\E f \in Frames : NetFrame(f))
  BY <1>5, <1>0 DEF NetBegin, NetEnd, NetFrame, RxBegin, RxEnd, RxLatch, drvVars, RxType
<1>6. CASE Hardware /\ UNCHANGED drvVars
  BY <1>6, <1>0 DEF Hardware, RxDrop, TxIdle, TxTakeRequest, TxLineReady, TxLastByte,
     TxFlagSent, TimerExpire, drvVars, RxType
<1>7. CASE UNCHANGED vars
  BY <1>7 DEF vars, hwVars, drvVars
<1> QED
  BY <1>1, <1>2, <1>3, <1>4, <1>5, <1>6, <1>7 DEF Next

\* As long as no program switches monitor mode on, no handshake ever waits
\* without a timeout, so neither econet_write nor the receiver gets stuck.
THEOREM HandshakeHasTimeout ==
    ASSUME TRUE \notin MonitorModes
    PROVE  Spec => []HandshakeTimed
<1>1. Init => TimedInv
  BY DEF Init, HwInit, TimedInv, HandshakeTimed, WAITSCOUT
<1>2. TypeOK /\ TimedInv /\ [Next]_vars => TimedInv'
  BY TimedStep
<1>3. TimedInv => HandshakeTimed
  BY DEF TimedInv
<1> QED
  BY <1>1, <1>2, <1>3, TypeCorrect, PTL DEF Spec

-----------------------------------------------------------------------------
(* Monitor mode. *)

\* Reads never get ahead of the handler's count, and one that left its wait loop
\* is behind it.
MonitorInv ==
    /\ mon.last <= mon.frames
    /\ MonitorReadHasFrame

LEMMA MonitorStep == TypeOK /\ MonitorInv /\ [Next]_vars => MonitorInv'
<1> SUFFICES ASSUME TypeOK, MonitorInv, [Next]_vars PROVE MonitorInv'
  OBVIOUS
<1> USE DEF MonitorInv, MonitorReadHasFrame, ReadSteps
<1>0. mon \in [frames : Nat, last : Nat] /\ call \in CallType
  BY DEF TypeOK
<1>1. CASE Call
  <2> USE <1>0, <1>1 DEF At, Return, Outside
  <2>1. ASSUME NEW f \in Fds, NEW n \in WriteCounts, econet_write(f, n) PROVE MonitorInv'
    BY <2>1 DEF econet_write, Begin
  <2>2. ASSUME NEW f \in Fds, NEW n \in ReadCounts, econet_read(f, n) PROVE MonitorInv'
    BY <2>2 DEF econet_read, Begin
  <2>3. ASSUME NEW m \in MonitorModes, econet_set_monitor(m) PROVE MonitorInv'
    BY <2>3 DEF econet_set_monitor, ResetMonitor
  <2>4. ASSUME NEW f \in Fds, econet_open(f) \/ econet_close(f) PROVE MonitorInv'
    BY <2>4 DEF econet_open, econet_close
  <2>5. ASSUME NEW f \in Fds, NEW p \in RxPorts, econet_set_rx_port(f, p) PROVE MonitorInv'
    BY <2>5 DEF econet_set_rx_port
  <2>6. ASSUME NEW f \in Fds, NEW s \in Stations, econet_set_tx_addr(f, s) PROVE MonitorInv'
    BY <2>6 DEF econet_set_tx_addr
  <2>7. CASE econet_set_addr
    BY <2>7 DEF econet_set_addr
  <2> QED
    BY <2>1, <2>2, <2>3, <2>4, <2>5, <2>6, <2>7 DEF Call
<1>2. CASE WriteStep
  BY <1>0, <1>2 DEF WriteStep, WritePoll, WriteState, WriteFill, WriteSend, WriteDone, Goto,
     Return, Outside, CallType
<1>3. CASE ReadStep
  <2> USE <1>0 DEF At, Goto, Return, Outside, CallType
  <2>1. CASE ReadWait
    BY <2>1 DEF ReadWait
  <2>2. CASE ReadSize \/ ReadSize2 \/ ReadCopy \/ ReadTest
    BY <2>2 DEF ReadSize, ReadSize2, ReadCopy, ReadTest
  <2>3. CASE ReadPart
    BY <2>3 DEF ReadPart
  <2>4. CASE ReadDone
    BY <2>4 DEF ReadDone
  <2> QED
    BY <1>3, <2>1, <2>2, <2>3, <2>4 DEF ReadStep
<1>4. CASE Isr
  <2>1. mon' = mon \/ mon' = [mon EXCEPT !.frames = @ + 1]
    BY <1>4 DEF Isr, RxMonitor, RxScout, RxImmediate, RxIgnore, RxData, RxScoutAck, RxDataAck,
       RxTxError, econet_timeout, RxInState
  <2>2. call' = call
    BY <1>4 DEF Isr, RxMonitor, RxScout, RxImmediate, RxIgnore, RxData, RxScoutAck, RxDataAck,
       RxTxError, econet_timeout, RxInState, econet_rx
  <2> QED
    BY <1>0, <2>1, <2>2
<1>5. CASE NetBegin \/ NetEnd \/ (\E f \in Frames : NetFrame(f)) \/ (Hardware /\ UNCHANGED drvVars)
           \/ UNCHANGED vars
  BY <1>5 DEF NetBegin, NetEnd, NetFrame, drvVars, vars
<1> QED
  BY <1>1, <1>2, <1>3, <1>4, <1>5 DEF Next

\* A monitor read that left its wait loop has a frame to account for, however
\* frames, reads and switches of the mode follow each other.
THEOREM MonitorReadsWhatCame == Spec => []MonitorReadHasFrame
<1>1. Init => MonitorInv
  BY DEF Init, Outside, MonitorInv, MonitorReadHasFrame, ReadSteps
<1>2. MonitorInv => MonitorReadHasFrame
  BY DEF MonitorInv
<1> QED
  BY <1>1, <1>2, MonitorStep, TypeCorrect, PTL DEF Spec

-----------------------------------------------------------------------------
(* Data frames, between polite stations. *)

Reading == call.pc \in ReadSteps \ {"r_wait"}
InFlight == rxd.receiving \/ rxd.frame_end \/ rxd.valid

\* Monitor mode is off.
DataMode == ~rxd.monitor /\ mon.frames = mon.last /\ (call.pc \in ReadSteps => call.port # 0)

\* From its opening flag until the handler ran a frame is alone: no other follows
\* it, nothing waits in the buffer and nobody copies from it.
LineQuiet ==
    /\ ~(rxd.receiving /\ rxd.frame_end) /\ ~(rxd.valid /\ (rxd.receiving \/ rxd.frame_end))
    /\ InFlight => ~Reading /\ \A p \in Ports : ~Ready(p)

\* Only the port of the buffered frame is flagged, and as long as it is, start and
\* length of the buffer span what nobody has copied: up to the memcpy from where the
\* last read stopped, after it with the copied part still in front.
BufferInv ==
    /\ \A p \in Ports : Ready(p) =>
          /\ hist.buf_port = p
          /\ st.rx_buf_start + st.rx_buf_len = hist.end
          /\ st.rx_buf_start
                + (IF call.pc \in {"r_test", "r_part", "r_done"} THEN call.copy_sz ELSE 0)
             = hist.next
    /\ UnreadIsReady

\* What the read in progress has found out about the buffer.
ReadInv ==
    Reading =>
       /\ Ready(call.port)
       /\ call.pc = "r_size2" => st.rx_buf_len <= call.count
       /\ call.pc \in {"r_copy", "r_test", "r_part", "r_done"} =>
             call.copy_sz <= call.count /\ call.copy_sz <= st.rx_buf_len
       /\ call.pc \in {"r_test", "r_part", "r_done"} => call.got_port = call.port
       /\ call.pc = "r_part" => call.copy_sz < st.rx_buf_len
       /\ call.pc = "r_done" => call.copy_sz = st.rx_buf_len

RInv == DataMode /\ LineQuiet /\ BufferInv /\ ReadInv

\* The numbers of the driver's and the program's state.
LEMMA Numbers ==
    ASSUME TypeOK
    PROVE  /\ st.rx_buf_start \in Nat /\ st.rx_buf_len \in Nat
           /\ call.count \in Nat /\ call.copy_sz \in Nat /\ call.port \in Ports
           /\ hist.next \in Nat /\ hist.end \in Nat /\ hist.buf_port \in Ports
           /\ \A p \in Ports : port_list[p] \in Nat
BY WordAssumption DEF TypeOK, StType, CallType, HistType, Sizes, Entries

\* A step that leaves buffer, table and history alone, in which no frame reaches
\* the line and the program stays outside a read or where it is in one.
LEMMA BufferUntouched ==
    ASSUME RInv,
           UNCHANGED <<port_list, hist>>,
           st'.rx_buf_start = st.rx_buf_start, st'.rx_buf_len = st.rx_buf_len,
           DataMode', LineQuiet',
           call' = call \/ (~Reading /\ ~Reading')
    PROVE  RInv'
<1> USE DEF RInv, BufferInv, UnreadIsReady, ReadInv, Ready, Reading, ReadSteps
<1>1. CASE call' = call
  BY <1>1
<1>2. CASE ~Reading /\ ~Reading'
  BY <1>2
<1> QED
  BY <1>1, <1>2

\* The program does something else than to copy a frame.
LEMMA RCall == ASSUME TRUE \notin MonitorModes, TypeOK, RInv, Call PROVE RInv'
<1> USE DEF At, Return, Outside
<1>0. /\ rxd \in RxType /\ call \in CallType /\ hist \in HistType /\ dev \in DevType
      /\ port_list \in [Ports -> Entries] /\ mon \in [frames : Nat, last : Nat]
  BY DEF TypeOK, HwTypeOK
<1>1. ASSUME NEW f \in Fds, econet_open(f) PROVE RInv'
  <2>1. DataMode' /\ LineQuiet' /\ ~Reading /\ ~Reading'
    BY <1>1 DEF econet_open, hwVars, RInv, DataMode, LineQuiet, InFlight, Reading, ReadSteps, Ready
  <2> QED
    BY <1>1, <2>1, BufferUntouched DEF econet_open
<1>2. ASSUME NEW p \in Ports, NEW x \in Fds \cup {0}, port_list' = [port_list EXCEPT ![p] = x],
             Forget(p), UNCHANGED <<hwVars, st, mon>>, call.pc = "user", call' = Outside
      PROVE  RInv'
  <2>1. x \in Nat /\ ~(x >= READY)
    BY FdsAssumption DEF READY
  <2>2. ~Ready(p)' /\ \A q \in Ports : q # p => (Ready(q)' <=> Ready(q))
    BY <1>0, <1>2, <2>1 DEF Ready
  <2>3. DataMode' /\ LineQuiet' /\ ReadInv'
    BY <1>2, <2>2 DEF hwVars, RInv, DataMode, LineQuiet, InFlight, Reading, ReadInv, ReadSteps
  <2>4. /\ hist'.buf_port = hist.buf_port /\ hist'.end = hist.end
        /\ hist'.next = IF hist.buf_port = p THEN hist.end ELSE hist.next
    BY <1>0, <1>2 DEF Forget, HistType
  <2>5. \A q \in Ports : Ready(q) => hist.buf_port = q
    BY DEF RInv, BufferInv
  <2>6. UnreadIsReady'
    <3>1. CASE hist.buf_port = p
      BY <2>4, <3>1, Numbers DEF UnreadIsReady
    <3>2. CASE hist.buf_port # p
      BY <2>2, <2>4, <3>2, Numbers DEF RInv, BufferInv, UnreadIsReady, Ready
    <3> QED
      BY <3>1, <3>2
  <2>7. BufferInv'
    BY <1>2, <2>2, <2>4, <2>5, <2>6 DEF RInv, BufferInv
  <2> QED
    BY <2>3, <2>7 DEF RInv
<1>3. ASSUME NEW f \in Fds, econet_close(f) PROVE RInv'
  <2>1. CASE dev.rx_port[f] # 0
    <3>1. dev.rx_port[f] \in Ports
      BY <1>0 DEF DevType
    <3> QED
      BY <1>2, <1>3, <2>1, <3>1 DEF econet_close
  <2>2. CASE dev.rx_port[f] = 0
    <3>1. DataMode' /\ LineQuiet' /\ ~Reading /\ ~Reading'
      BY <1>3, <2>2 DEF econet_close, hwVars, RInv, DataMode, LineQuiet, InFlight, Reading,
         ReadSteps, Ready
    <3> QED
      BY <1>3, <2>2, <3>1, BufferUntouched DEF econet_close
  <2> QED
    BY <2>1, <2>2
<1>4. ASSUME NEW f \in Fds, NEW p \in RxPorts, econet_set_rx_port(f, p) PROVE RInv'
  BY <1>2, <1>4, RxPortsAssumption DEF econet_set_rx_port
<1>5. ASSUME NEW f \in Fds, NEW s \in Stations, econet_set_tx_addr(f, s) PROVE RInv'
  <2>1. DataMode' /\ LineQuiet' /\ ~Reading /\ ~Reading'
    BY <1>5 DEF econet_set_tx_addr, hwVars, RInv, DataMode, LineQuiet, InFlight, Reading,
       ReadSteps, Ready
  <2> QED
    BY <1>5, <2>1, BufferUntouched DEF econet_set_tx_addr
<1>6. ASSUME NEW f \in Fds, NEW n \in WriteCounts, econet_write(f, n) PROVE RInv'
  <2>1. call.pc = "user" /\ call'.pc \in {"user", "w_poll"}
    BY <1>6 DEF econet_write, Begin
  <2>2. DataMode' /\ LineQuiet' /\ ~Reading /\ ~Reading'
    BY <1>6, <2>1 DEF econet_write, RInv, DataMode, LineQuiet, InFlight, Reading, ReadSteps, Ready
  <2>3. st'.rx_buf_start = st.rx_buf_start /\ st'.rx_buf_len = st.rx_buf_len
    BY <1>6 DEF econet_write, ResetTxFlags, TypeOK, StType
  <2> QED
    BY <1>6, <2>2, <2>3, BufferUntouched DEF econet_write
<1>7. ASSUME NEW f \in Fds, NEW n \in ReadCounts, econet_read(f, n) PROVE RInv'
  <2>1. ~rxd.monitor
    BY DEF RInv, DataMode
  <2>2. call'.pc = "user" \/ (call'.pc = "r_wait" /\ call'.port # 0)
    BY <1>7, <2>1 DEF econet_read, Begin
  <2>3. DataMode' /\ LineQuiet' /\ ~Reading /\ ~Reading'
    BY <1>7, <2>2 DEF econet_read, hwVars, RInv, DataMode, LineQuiet, InFlight, Reading,
       ReadSteps, Ready
  <2> QED
    BY <1>7, <2>3, BufferUntouched DEF econet_read
<1>8. CASE econet_set_addr
  <2>1. DataMode' /\ LineQuiet' /\ ~Reading /\ ~Reading'
    BY <1>0, <1>8 DEF econet_set_addr, ClearValid, RxType, RInv, DataMode, LineQuiet, InFlight,
       Reading, ReadSteps, Ready
  <2> QED
    BY <1>8, <2>1, BufferUntouched DEF econet_set_addr
<1>9. ASSUME NEW m \in MonitorModes, econet_set_monitor(m) PROVE RInv'
  <2>1. m = FALSE
    BY MonitorAssumption
  <2>2. DataMode' /\ LineQuiet' /\ ~Reading /\ ~Reading'
    BY <1>0, <1>9, <2>1 DEF econet_set_monitor, ResetMonitor, RxType, RInv, DataMode, LineQuiet,
       InFlight, Reading, ReadSteps, Ready
  <2> QED
    BY <1>9, <2>2, BufferUntouched DEF econet_set_monitor
<1> QED
  BY <1>1, <1>3, <1>4, <1>5, <1>6, <1>7, <1>8, <1>9 DEF Call

\* write() and the buffer have nothing to do with each other.
LEMMA RWrite == ASSUME TypeOK, RInv, WriteStep PROVE RInv'
<1>1. /\ call \in CallType /\ call.pc \in WriteSteps /\ call'.pc \in WriteSteps \cup {"user"}
      /\ rxd' = rxd /\ mon' = mon /\ port_list' = port_list
  BY DEF WriteStep, WritePoll, WriteState, WriteFill, WriteSend, WriteDone, At, Goto, Return,
     Outside, hwVars, TypeOK, CallType, WriteSteps
<1>2. /\ st'.rx_buf_start = st.rx_buf_start /\ st'.rx_buf_len = st.rx_buf_len
      /\ hist'.buf_port = hist.buf_port /\ hist'.next = hist.next /\ hist'.end = hist.end
  BY DEF WriteStep, WritePoll, WriteState, WriteFill, WriteSend, WriteDone, TypeOK, StType, HistType
<1>3. ~Reading /\ ~Reading'
  BY <1>1 DEF Reading, ReadSteps, WriteSteps
<1>4. DataMode' /\ LineQuiet'
  BY <1>1, <1>3 DEF RInv, DataMode, LineQuiet, InFlight, ReadSteps, WriteSteps, Ready
<1> QED
  BY <1>1, <1>2, <1>3, <1>4
     DEF RInv, BufferInv, UnreadIsReady, ReadInv, Ready, WriteSteps

\* The steps of read().
LEMMA RRead == ASSUME TypeOK, RInv, ReadStep PROVE RInv'
<1> USE DEF At, Goto
<1>0. /\ call \in CallType /\ hist \in HistType /\ st \in StType
      /\ port_list \in [Ports -> Entries]
  BY DEF TypeOK
<1>1. ASSUME UNCHANGED <<hwVars, mon, port_list>>, call.pc \in ReadSteps, call'.port = call.port,
             call'.pc \in ReadSteps, Ready(call.port)
      PROVE  DataMode' /\ LineQuiet'
  <2>1. call.port \in Ports /\ ~InFlight
    BY <1>0, <1>1 DEF RInv, LineQuiet, CallType
  <2>2. ~InFlight'
    BY <1>1, <2>1 DEF InFlight, hwVars
  <2> QED
    BY <1>1, <2>2 DEF RInv, DataMode, LineQuiet, InFlight, hwVars
<1>2. CASE ReadWait
  <2>1. /\ call.pc = "r_wait" /\ call'.pc = "r_size" /\ call'.port = call.port /\ call'.fd = call.fd
        /\ UNCHANGED <<hwVars, st, mon, port_list, hist>>
    BY <1>0, <1>2 DEF ReadWait, CallType
  <2>2. call.port # 0 /\ Ready(call.port)
    BY <1>2, <2>1 DEF ReadWait, RInv, DataMode, ReadSteps
  <2>3. DataMode' /\ LineQuiet'
    BY <1>1, <2>1, <2>2 DEF ReadSteps
  <2> QED
    BY <2>1, <2>2, <2>3 DEF RInv, BufferInv, UnreadIsReady, ReadInv, Ready
<1>3. ASSUME call.pc \in ReadSteps \ {"r_wait"}
      PROVE  Ready(call.port) /\ call.port \in Ports /\ hist.buf_port = call.port
             /\ st.rx_buf_start + st.rx_buf_len = hist.end
  BY <1>0, <1>3 DEF RInv, ReadInv, BufferInv, Reading, CallType
<1>4. CASE ReadSize \/ ReadSize2
  <2>1. /\ call.pc \in {"r_size", "r_size2"} /\ call'.port = call.port /\ call'.count = call.count
        /\ UNCHANGED <<hwVars, st, mon, port_list, hist>>
    BY <1>0, <1>4 DEF ReadSize, ReadSize2, CallType
  <2>2. \/ call'.pc = "r_size2" /\ st.rx_buf_len <= call.count
        \/ call'.pc = "r_copy" /\ call'.copy_sz <= call.count /\ call'.copy_sz <= st.rx_buf_len
    <3>1. CASE ReadSize
      BY <1>0, <3>1, Numbers DEF ReadSize, CallType
    <3>2. CASE ReadSize2
      <4>1. st.rx_buf_len <= call.count
        BY <3>2 DEF ReadSize2, RInv, ReadInv, Reading, ReadSteps
      <4> QED
        BY <1>0, <3>2, <4>1, Numbers DEF ReadSize2, CallType
    <3> QED
      BY <1>4, <3>1, <3>2
  <2>3. DataMode' /\ LineQuiet'
    BY <1>1, <1>3, <2>1, <2>2 DEF ReadSteps
  <2> QED
    BY <1>3, <2>1, <2>2, <2>3 DEF RInv, BufferInv, UnreadIsReady, ReadInv, Reading, ReadSteps, Ready
<1>5. CASE ReadCopy
  <2>1. /\ call.pc = "r_copy" /\ call' = [call EXCEPT !.got_port = hist.buf_port, !.pc = "r_test"]
        /\ hist' = [hist EXCEPT !.next = st.rx_buf_start + call.copy_sz]
        /\ UNCHANGED <<hwVars, st, mon, port_list>>
    BY <1>5 DEF ReadCopy
  <2>2. /\ call'.pc = "r_test" /\ call'.port = call.port /\ call'.count = call.count
        /\ call'.copy_sz = call.copy_sz /\ call'.got_port = call.port
        /\ hist'.next = st.rx_buf_start + call.copy_sz /\ hist'.end = hist.end
        /\ hist'.buf_port = call.port
    BY <1>0, <1>3, <2>1 DEF CallType, HistType, ReadSteps
  <2>3. DataMode' /\ LineQuiet'
    BY <1>1, <1>3, <2>1, <2>2 DEF ReadSteps
  <2>4. ReadInv'
    BY <1>3, <2>1, <2>2 DEF RInv, ReadInv, Reading, ReadSteps, Ready
  <2>5. BufferInv'
    BY <1>3, <2>1, <2>2 DEF RInv, BufferInv, UnreadIsReady, Ready, ReadSteps
  <2> QED
    BY <2>3, <2>4, <2>5 DEF RInv
<1>6. CASE ReadTest
  <2>1. /\ call.pc = "r_test" /\ UNCHANGED <<hwVars, st, mon, port_list, hist>>
        /\ call'.port = call.port /\ call'.count = call.count
        /\ call'.copy_sz = call.copy_sz /\ call'.got_port = call.got_port
        /\ \/ call'.pc = "r_part" /\ call.copy_sz < st.rx_buf_len
           \/ call'.pc = "r_done" /\ ~(call.copy_sz < st.rx_buf_len)
    BY <1>0, <1>6 DEF ReadTest, BytesRemain, CallType
  <2>2. DataMode' /\ LineQuiet'
    BY <1>1, <1>3, <2>1 DEF ReadSteps
  <2>3. ReadInv'
    BY <1>3, <2>1, Numbers DEF RInv, ReadInv, Reading, ReadSteps, Ready
  <2>4. BufferInv'
    BY <1>3, <2>1 DEF RInv, BufferInv, UnreadIsReady, Ready, ReadSteps
  <2> QED
    BY <2>2, <2>3, <2>4 DEF RInv
<1>7. CASE ReadPart
  <2>1. /\ call.pc = "r_part" /\ call' = Outside /\ st' = Consume(st, call.copy_sz)
        /\ UNCHANGED <<hwVars, mon, port_list, hist>>
    BY <1>7 DEF ReadPart, Return
  <2>2. call.copy_sz < st.rx_buf_len
    BY <2>1 DEF RInv, ReadInv, Reading, ReadSteps
  <2>3. /\ st'.rx_buf_start = st.rx_buf_start + call.copy_sz
        /\ st'.rx_buf_len = st.rx_buf_len - call.copy_sz
    BY <1>0, <2>1, <2>2, Numbers DEF Consume, Minus, StType
  <2>4. DataMode' /\ LineQuiet' /\ ReadInv'
    BY <2>1 DEF RInv, DataMode, LineQuiet, InFlight, hwVars, ReadInv, Reading, ReadSteps, Ready, Outside
  <2>5. st'.rx_buf_start = hist.next /\ st'.rx_buf_start + st'.rx_buf_len = hist.end
    BY <1>3, <2>1, <2>3, Numbers DEF RInv, BufferInv, ReadSteps
  <2>6. BufferInv'
    BY <2>1, <2>5, Numbers DEF RInv, BufferInv, UnreadIsReady, Ready, Outside
  <2> QED
    BY <2>4, <2>6 DEF RInv
<1>8. CASE ReadDone
  <2>1. /\ call.pc = "r_done" /\ call' = Outside /\ call.port # 0
        /\ UNCHANGED <<hwVars, st, mon, hist>> /\ port_list' = [port_list EXCEPT ![call.port] = call.fd]
    BY <1>8 DEF ReadDone, Return, RInv, DataMode, ReadSteps
  <2>2. call.fd \in Nat /\ ~(call.fd >= READY)
    <3>1. call.fd \in Fds \cup {0}
      BY <1>0 DEF CallType
    <3>2. \A x \in Fds \cup {0} : x \in Nat /\ ~(x >= READY)
      BY FdsAssumption DEF READY
    <3> QED
      BY <3>1, <3>2
  <2>3. \A p \in Ports : ~Ready(p)'
    <3>1. \A p \in Ports : p # call.port => ~Ready(p)
      BY <1>3, <2>1 DEF RInv, BufferInv, ReadSteps
    <3> QED
      BY <1>0, <2>1, <2>2, <3>1 DEF Ready
  <2>4. hist.next = hist.end
    BY <1>3, <2>1, Numbers DEF RInv, BufferInv, ReadInv, Reading, ReadSteps
  <2>5. DataMode' /\ LineQuiet' /\ ReadInv'
    BY <2>1, <2>3 DEF RInv, DataMode, LineQuiet, InFlight, hwVars, ReadInv, Reading, ReadSteps, Outside
  <2>6. BufferInv'
    BY <2>1, <2>3, <2>4, Numbers DEF BufferInv, UnreadIsReady
  <2> QED
    BY <2>5, <2>6 DEF RInv
<1> QED
  BY <1>2, <1>4, <1>5, <1>6, <1>7, <1>8 DEF ReadStep

\* The interrupt handlers.  With a frame latched there is nothing in the buffer.
LEMMA RIsr == ASSUME TypeOK, RInv, Isr PROVE RInv'
<1>0. /\ rxd \in RxType /\ hist \in HistType /\ st \in StType
      /\ port_list \in [Ports -> Entries]
  BY DEF TypeOK, HwTypeOK
<1>1. ASSUME ClearValid, rxd.valid, ~rxd.receiving, ~rxd.frame_end, UNCHANGED <<call, mon>>
      PROVE  DataMode' /\ LineQuiet'
  BY <1>0, <1>1 DEF ClearValid, RxType, RInv, DataMode, LineQuiet, InFlight
<1>2. econet_rx => /\ ClearValid /\ rxd.valid /\ ~rxd.receiving /\ ~rxd.frame_end
                   /\ ~Reading /\ ~rxd.monitor /\ call' = call /\ \A p \in Ports : ~Ready(p)
  BY DEF econet_rx, RInv, DataMode, LineQuiet, InFlight
<1>3. CASE RxMonitor
  BY <1>2, <1>3 DEF RxMonitor
<1>4. CASE RxScout \/ RxImmediate \/ RxIgnore \/ RxScoutAck \/ RxDataAck \/ RxTxError
  <2>1. econet_rx /\ mon' = mon /\ port_list' = port_list
    BY <1>4 DEF RxScout, RxImmediate, RxIgnore, RxScoutAck, RxDataAck, RxTxError, RxInState
  <2>2. /\ st'.rx_buf_start = st.rx_buf_start /\ st'.rx_buf_len = st.rx_buf_len
        /\ hist'.buf_port = hist.buf_port /\ hist'.next = hist.next /\ hist'.end = hist.end
    BY <1>0, <1>4 DEF RxScout, RxImmediate, RxIgnore, RxScoutAck, RxDataAck, RxTxError, StType, HistType
  <2>3. DataMode' /\ LineQuiet'
    BY <1>1, <1>2, <2>1
  <2> QED
    BY <1>2, <2>1, <2>2, <2>3
       DEF RInv, BufferInv, UnreadIsReady, ReadInv, Ready, Reading
<1>5. CASE RxData
  <2>1. econet_rx /\ mon' = mon /\ port_list' = [port_list EXCEPT ![st.pending_port] = SetReady(@)]
    BY <1>5 DEF RxData, RxInState, PendingPort
  <2>2. Minus(rxd.frame.len, 4) \in Nat
    <3>1. Minus(rxd.frame.len, 4) \in Sizes
      BY MinusType, SmallSizes, LatchedFrame DEF TypeOK
    <3> QED
      BY <3>1, WordAssumption DEF Sizes
  <2>3. /\ st'.rx_buf_start = 2 /\ st'.rx_buf_len = Minus(rxd.frame.len, 4)
        /\ hist'.buf_port = st.pending_port /\ hist'.next = 2
        /\ hist'.end = 2 + Minus(rxd.frame.len, 4)
    BY <1>0, <1>5 DEF RxData, StType, HistType
  <2>4. st.pending_port \in Ports /\ port_list[st.pending_port] \in Nat
    BY <1>0, Numbers DEF StType
  <2>5. \A p \in Ports : Ready(p)' <=> p = st.pending_port
    <3>1. SetReady(port_list[st.pending_port]) >= READY
      BY <2>4 DEF SetReady, READY
    <3>2. port_list'[st.pending_port] >= READY
      BY <1>0, <2>1, <2>4, <3>1
    <3>3. \A p \in Ports : p # st.pending_port => port_list'[p] = port_list[p]
      BY <1>0, <2>1
    <3> QED
      BY <1>2, <2>1, <3>2, <3>3 DEF Ready
  <2>6. DataMode' /\ LineQuiet'
    BY <1>1, <1>2, <2>1
  <2>7. ~Reading /\ call' = call
    BY <1>2, <2>1
  <2>8. BufferInv'
    BY <2>2, <2>3, <2>4, <2>5, <2>7 DEF BufferInv, UnreadIsReady, Reading, ReadSteps
  <2> QED
    BY <2>6, <2>7, <2>8 DEF RInv, ReadInv, Reading
<1>6. CASE econet_timeout
  <2>1. st'.rx_buf_start = st.rx_buf_start /\ st'.rx_buf_len = st.rx_buf_len
    BY <1>0, <1>6 DEF econet_timeout, GiveUp, StType
  <2>2. DataMode' /\ LineQuiet'
    BY <1>6 DEF econet_timeout, RInv, DataMode, LineQuiet, InFlight, Reading, Ready
  <2> QED
    BY <1>6, <2>1, <2>2, BufferUntouched DEF econet_timeout
<1> QED
  BY <1>3, <1>4, <1>5, <1>6 DEF Isr

\* The hardware and the other stations, as long as these are polite.
LEMMA RNet ==
    ASSUME Polite, TypeOK, RInv, UNCHANGED drvVars,
           NetBegin \/ NetEnd \/ (\E f \in Frames : NetFrame(f)) \/ Hardware \/ UNCHANGED hwVars
    PROVE  RInv'
<1> USE DEF drvVars
<1>0. rxd \in RxType
  BY DEF TypeOK, HwTypeOK
<1>1. rxd'.monitor = rxd.monitor
  BY <1>0 DEF NetBegin, NetEnd, NetFrame, RxBegin, RxEnd, RxLatch, Hardware, RxDrop, TxIdle,
     TxTakeRequest, TxLineReady, TxLastByte, TxFlagSent, TimerExpire, hwVars, RxType
<1>2. DataMode'
  BY <1>1 DEF RInv, DataMode
<1>3. CASE NetBegin
  <2>1. ~InFlight /\ ~Reading /\ \A p \in Ports : ~Ready(p)
    BY <1>3 DEF NetBegin, OthersMaySend, RxBegin, InFlight, Reading
  <2>2. LineQuiet'
    BY <1>0, <1>3, <2>1 DEF NetBegin, RxBegin, RxType, LineQuiet, InFlight, Reading, Ready
  <2> QED
    BY <1>2, <2>2, BufferUntouched
<1>4. CASE NetEnd \/ (\E f \in Frames : NetFrame(f)) \/ Hardware \/ UNCHANGED hwVars
  <2>1. \/ rxd' = rxd
        \/ rxd.receiving /\ rxd' = [rxd EXCEPT !.receiving = FALSE, !.frame_end = TRUE]
        \/ rxd.frame_end /\ rxd' = [rxd EXCEPT !.frame_end = FALSE]
        \/ \E f \in Frames : rxd.frame_end
              /\ rxd' = [rxd EXCEPT !.frame_end = FALSE, !.valid = TRUE, !.frame = f]
    BY <1>4 DEF NetEnd, NetFrame, RxEnd, RxLatch, Hardware, RxDrop, TxIdle, TxTakeRequest,
       TxLineReady, TxLastByte, TxFlagSent, TimerExpire, hwVars
  <2>2. LineQuiet'
    BY <1>0, <2>1 DEF RxType, RInv, LineQuiet, InFlight, Reading, Ready
  <2> QED
    BY <1>2, <2>2, BufferUntouched
<1> QED
  BY <1>3, <1>4

\* Between polite stations, and with monitor mode off, the invariant holds.
LEMMA BufferInvariant ==
    ASSUME Polite, TRUE \notin MonitorModes
    PROVE  Spec => []RInv
<1>1. Init => RInv
  <2> SUFFICES ASSUME Init PROVE RInv
    OBVIOUS
  <2>1. \A p \in Ports : ~Ready(p)
    <3>1. \A p \in Ports : port_list[p] = 0
      BY DEF Init
    <3>2. ~(0 >= READY)
      BY DEF READY
    <3> QED
      BY <3>1, <3>2 DEF Ready
  <2> QED
    BY <2>1 DEF Init, HwInit, Outside, RInv, DataMode, LineQuiet, InFlight, Reading, ReadSteps,
       BufferInv, UnreadIsReady, ReadInv
<1>2. TypeOK /\ RInv /\ [Next]_vars => RInv'
  <2> SUFFICES ASSUME TypeOK, RInv, [Next]_vars PROVE RInv'
    OBVIOUS
  <2>1. CASE NetBegin \/ NetEnd \/ (\E f \in Frames : NetFrame(f)) \/ (Hardware /\ UNCHANGED drvVars)
             \/ UNCHANGED vars
    BY <2>1, RNet DEF NetBegin, NetEnd, NetFrame, vars
  <2> QED
    BY <2>1, RCall, RWrite, RRead, RIsr DEF Next
<1> QED
  BY <1>1, <1>2, TypeCorrect, PTL DEF Spec

\* Between polite stations a read gets each byte of a frame once, in order and from
\* its own port, though the handler's variables are loaded again and again and
\* handlers, timeouts and closes of ports come between the loads.
THEOREM ReadIsHonest ==
    ASSUME Polite, TRUE \notin MonitorModes
    PROVE  Spec => []ReadHonest
<1>1. TypeOK /\ RInv => ReadHonest
  <2> SUFFICES ASSUME TypeOK, RInv PROVE ReadHonest
    OBVIOUS
  <2>1. Reading => Ready(call.port) /\ call.port \in Ports
    BY Numbers DEF RInv, ReadInv
  <2> QED
    BY <2>1, Numbers DEF RInv, ReadInv, BufferInv, Reading, ReadSteps, ReadHonest, ReadIntact,
       ReadOwnPort, At
<1> QED
  BY <1>1, BufferInvariant, TypeCorrect, PTL

\* Between polite stations a frame that was acknowledged is flagged for its reader
\* until every byte of it was copied or its port was given up.
THEOREM UnreadStaysReady ==
    ASSUME Polite, TRUE \notin MonitorModes
    PROVE  Spec => []UnreadIsReady
<1>1. RInv => UnreadIsReady
  BY DEF RInv, BufferInv
<1> QED
  BY <1>1, BufferInvariant, PTL
=============================================================================
