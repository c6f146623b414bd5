--------------------------- MODULE Dm9000aProofs ---------------------------
(***************************************************************************)
(* Theorems about the Ethernet driver, for every size of the chip's        *)
(* receive memory, every pool of packet buffers and every number of        *)
(* packets that arrive in the window before the interrupt status is        *)
(* cleared.                                                                *)
(***************************************************************************)
EXTENDS Dm9000a, TLAPS

USE DriverAssumption DEF DriverAssumption

\* Once TransmitPacket has written the mask, and until its last access, it
\* has the chip to itself; a transmission is under way only in its poll.
ExclusionInv ==
  /\ tx \notin {"idle", "mask"} => isr = "off" /\ imr = "par"
  /\ sending \/ txEnd => tx = "poll"
  /\ ~(sending /\ txEnd)

\* The handler works on a packet that is there, and a received packet has
\* raised the interrupt until the handler decides to clear it.
ReceiveInv ==
  /\ isr = "packet" => sram > 0
  /\ isr \in {"status", "check", "packet"} => prs
  /\ isr = "clear" /\ sram > 0 => missed > 0
  /\ StrandedOnlyByWindow

IInv ==
  /\ TypeOK
  /\ ExclusionInv
  /\ ReceiveInv
  /\ DataLandsWhereMeant
  /\ BufferConservation

LEMMA InitIInv == Init => IInv
<1> SUFFICES ASSUME Init PROVE IInv
  OBVIOUS
<1>1. TypeOK
  <2>1. {prs, garbled, sending, txEnd} \subseteq BOOLEAN
    BY Zenon DEF Init
  <2> QED BY <2>1 DEF Init, TypeOK, Index
<1>2. ExclusionInv
  BY DEF Init, ExclusionInv
<1>3. ReceiveInv
  BY DEF Init, ReceiveInv, StrandedOnlyByWindow
<1>4. DataLandsWhereMeant /\ BufferConservation
  BY DEF Init, DataLandsWhereMeant, BufferConservation
<1> QED BY <1>1, <1>2, <1>3, <1>4 DEF IInv

\* The chip never selects a register and holds no buffer.
LEMMA ChipStep ==
  ASSUME IInv, Arrive \/ Garble \/ TxFinish
  PROVE  IInv'
<1> USE DEF IInv
<1>1. CASE Arrive
  BY <1>1 DEF Arrive, TypeOK, ExclusionInv, ReceiveInv,
       StrandedOnlyByWindow, DataLandsWhereMeant, BufferConservation
<1>2. CASE Garble
  BY <1>2 DEF Garble, TypeOK, ExclusionInv, ReceiveInv,
       StrandedOnlyByWindow, DataLandsWhereMeant, BufferConservation
<1>3. CASE TxFinish
  BY <1>3 DEF TxFinish, TypeOK, ExclusionInv, ReceiveInv,
       StrandedOnlyByWindow, DataLandsWhereMeant, BufferConservation
<1> QED BY <1>1, <1>2, <1>3

\* The handler runs only while TransmitPacket is idle or about to write the
\* mask; it ends with the mask register selected, which that write needs.
LEMMA HandlerStep ==
  ASSUME IInv, IsrMask \/ IsrRuns
  PROVE  IInv'
<1> USE DEF IInv, ServeAll, BufferFree, MaskLast, Unmasked
<1>1. CASE IsrMask
  BY <1>1 DEF IsrMask, IRQ, TypeOK, Index, ExclusionInv, ReceiveInv,
       StrandedOnlyByWindow, DataLandsWhereMeant, BufferConservation
<1>2. CASE IsrStatus
  BY <1>2 DEF IsrStatus, chip, TypeOK, Index, ExclusionInv, ReceiveInv,
       StrandedOnlyByWindow, DataLandsWhereMeant, BufferConservation
<1>3. CASE IsrCheck
  BY <1>3 DEF IsrCheck, chip, TypeOK, Index, ExclusionInv, ReceiveInv,
       StrandedOnlyByWindow, DataLandsWhereMeant, BufferConservation
<1>4. CASE IsrPacket
  BY <1>4 DEF IsrPacket, TypeOK, Index, ExclusionInv, ReceiveInv,
       StrandedOnlyByWindow, DataLandsWhereMeant, BufferConservation
<1>5. CASE IsrReset
  <2>1. TypeOK'
    <3>1. {garbled', sending', txEnd'} \subseteq BOOLEAN
      BY <1>5, Zenon DEF IsrReset
    <3> QED BY <1>5, <3>1 DEF IsrReset, TypeOK, Index
  <2>2. ExclusionInv'
    BY <1>5 DEF IsrReset, ExclusionInv
  <2> QED
    BY <1>5, <2>1, <2>2 DEF IsrReset, ReceiveInv, StrandedOnlyByWindow,
         DataLandsWhereMeant, BufferConservation
<1>6. CASE IsrClear
  BY <1>6 DEF IsrClear, TypeOK, Index, ExclusionInv, ReceiveInv,
       StrandedOnlyByWindow, DataLandsWhereMeant, BufferConservation
<1>7. CASE IsrUnmask
  <2>1. tx \in {"idle", "mask"}
    BY <1>7 DEF IsrUnmask, ExclusionInv, TypeOK, Step
  <2>2. DataLandsWhereMeant'
    BY <1>7, <2>1 DEF IsrUnmask, DataLandsWhereMeant, Register
  <2> QED
    BY <1>7, <2>1, <2>2 DEF IsrUnmask, chip, TypeOK, Index, ExclusionInv,
         ReceiveInv, StrandedOnlyByWindow, BufferConservation
<1> QED BY <1>1, <1>2, <1>3, <1>4, <1>5, <1>6, <1>7 DEF IsrRuns

\* The transmitter selects the register its next access is meant for, and
\* frees the buffer it took.
LEMMA TaskStep ==
  ASSUME IInv, Send \/ Transmit \/ Demux
  PROVE  IInv'
<1> USE DEF IInv
<1>1. CASE Send
  BY <1>1 DEF Send, chip, TypeOK, Step, ExclusionInv, ReceiveInv,
       StrandedOnlyByWindow, DataLandsWhereMeant, BufferConservation
<1>2. CASE TxSelect
  <2>1. Register[tx] \in Index
    BY <1>2 DEF TxSelect, TypeOK, Step, Register, Index
  <2> QED
    BY <1>2, <2>1 DEF TxSelect, chip, TypeOK, Step, ExclusionInv, ReceiveInv,
         StrandedOnlyByWindow, DataLandsWhereMeant, BufferConservation
<1>3. CASE TxAccess
  <2>1. index = Register[tx] /\ tx \in Step
    BY <1>3 DEF TxAccess, DataLandsWhereMeant, TypeOK
  <2>2. After[tx] \in Step \cup {"idle"}
    BY <2>1 DEF Step, After
  <2>3. TypeOK'
    BY <1>3, <2>2 DEF TxAccess, TypeOK, BufferConservation, Mask, Freed, Step
  <2>4. ExclusionInv'
    <3>1. tx = "mask" => tx' = "length" /\ imr' = "par"
      BY <1>3, <2>1 DEF TxAccess, After, Register, Mask
    <3>2. tx = "unmask" => tx' = "idle"
      BY <1>3 DEF TxAccess, After
    <3>3. tx \notin {"mask", "unmask"} => imr' = imr
      BY <1>3, <2>1 DEF TxAccess, Register, Step
    <3>4. tx = "poll" => index = "NSR"
      BY <2>1 DEF Register
    <3>5. CASE tx = "poll"
      <4>1. txEnd' = FALSE
        BY <1>3, <3>4, <3>5 DEF TxAccess
      <4>2. sending' = sending
        BY <1>3, <3>4, <3>5 DEF TxAccess, TypeOK
      <4>3. sending => tx' = "poll"
        BY <1>3, <3>5 DEF TxAccess, ExclusionInv
      <4> QED
        BY <1>3, <2>1, <3>3, <3>5, <4>1, <4>2, <4>3
        DEF TxAccess, ExclusionInv
    <3>6. CASE tx # "poll"
      <4>1. ~sending /\ ~txEnd /\ ~txEnd'
        BY <1>3, <3>6 DEF TxAccess, ExclusionInv
      <4>2. sending' => tx' = "poll"
        BY <1>3, <3>6, <4>1 DEF TxAccess, After
      <4> QED
        BY <1>3, <2>1, <3>1, <3>2, <3>3, <3>6, <4>1, <4>2
        DEF TxAccess, ExclusionInv, Step
    <3> QED BY <3>5, <3>6
  <2>5. ReceiveInv' /\ DataLandsWhereMeant'
    BY <1>3 DEF TxAccess, ReceiveInv, StrandedOnlyByWindow,
                DataLandsWhereMeant
  <2>6. BufferConservation'
    BY <1>3, <2>1 DEF TxAccess, BufferConservation, Freed, After, Step, TypeOK
  <2> QED BY <2>3, <2>4, <2>5, <2>6
<1>4. CASE Demux
  BY <1>4 DEF Demux, chip, TypeOK, ExclusionInv, ReceiveInv,
       StrandedOnlyByWindow, DataLandsWhereMeant, BufferConservation
<1> QED BY <1>1, <1>2, <1>3, <1>4 DEF Transmit

LEMMA StepIInv == IInv /\ [Next]_vars => IInv'
<1> SUFFICES ASSUME IInv, [Next]_vars PROVE IInv'
  OBVIOUS
<1>1. CASE UNCHANGED vars
  BY <1>1 DEF vars, chip, IInv, TypeOK, ExclusionInv, ReceiveInv,
       StrandedOnlyByWindow, DataLandsWhereMeant, BufferConservation
<1> QED BY <1>1, ChipStep, HandlerStep, TaskStep DEF Next

\* Everything below follows from the inductive invariant.
THEOREM InvariantCorrect == Spec => []IInv
BY InitIInv, StepIInv, PTL DEF Spec

\* The driver's and the chip's state stay in their ranges: neither the chip's
\* memory nor the queue of received packets overflows (dm9000a.c:270-303).
THEOREM TypeCorrect == Spec => []TypeOK
<1>1. IInv => TypeOK
  BY DEF IInv
<1> QED BY <1>1, InvariantCorrect, PTL

\* Every access of TransmitPacket acts on the register it selected, however
\* the interrupt handler cuts in (dm9000a.c:18-29, 134-170).
THEOREM DataLandsWhereMeantCorrect == Spec => []DataLandsWhereMeant
<1>1. IInv => DataLandsWhereMeant
  BY DEF IInv
<1> QED BY <1>1, InvariantCorrect, PTL

\* No packet buffer is lost or freed twice by the driver (dm9000a.c:270-303,
\* 444-468).
THEOREM BufferConservationCorrect == Spec => []BufferConservation
<1>1. IInv => BufferConservation
  BY DEF IInv
<1> QED BY <1>1, InvariantCorrect, PTL

\* The software reset of the handler never aborts a transmission that
\* TransmitPacket waits for (dm9000a.c:139, 158, 319-353).
THEOREM ResetSparesTransmissionCorrect == Spec => []ResetSparesTransmission
<1>1. IInv => ResetSparesTransmission
  BY DEF IInv, ExclusionInv, ResetSparesTransmission
<1> QED BY <1>1, InvariantCorrect, PTL

\* The only packets that wait unannounced are those of the window in front
\* of dm9000a.c:356.
THEOREM StrandedOnlyByWindowCorrect == Spec => []StrandedOnlyByWindow
<1>1. IInv => StrandedOnlyByWindow
  BY DEF IInv, ReceiveInv
<1> QED BY <1>1, InvariantCorrect, PTL
=============================================================================
