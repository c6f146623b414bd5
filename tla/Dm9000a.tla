------------------------------ MODULE Dm9000a ------------------------------
(***************************************************************************)
(* The driver of the Ethernet controller, fpga/software/server1/dm9000a.c: *)
(* the interrupt handler dm9000a_isr and the transmitter TransmitPacket    *)
(* share one chip, whose registers are reached in two accesses, the first  *)
(* of which selects the register for the second.                           *)
(*                                                                         *)
(* The handler runs with the CPU's interrupts off, so between two of its   *)
(* steps only the chip moves; a task is interrupted between any two        *)
(* accesses.  What a received packet holds is left out: it is kept, or     *)
(* dumped because it is bad.  The buffers are those of the stack's pool.   *)
(* TransmitPacket is never entered twice: the stack calls it under its     *)
(* NET_RESID lock.                                                         *)
(***************************************************************************)
EXTENDS Integers

CONSTANTS
  SramCap,      \* packets the chip's receive memory holds
  PoolSize,     \* packet buffers of the stack
  WindowMax     \* packets that arrive between the handler's last look at the
                \* receive memory and its clearing of the interrupt status

ASSUME DriverAssumption ==
  /\ SramCap \in Nat /\ PoolSize \in Nat /\ WindowMax \in Nat
  /\ WindowMax < SramCap

VARIABLES
  index,      \* the chip: selected register
  imr,        \* interrupt mask: "par" masks, "rx" lets receive interrupts out
  prs,        \* packet-received bit of the interrupt status register
  sram,       \* packets in the receive memory
  garbled,    \* its head is no packet (rx_rdy has bit 1 set)
  missed,     \* history: packets that arrived in the window of WindowMax
  sending,    \* a transmission was requested and is not complete
  txEnd,      \* TX1END or TX2END of the network status register
  isr,        \* where the interrupt handler is, "off" when it does not run
  tx, half,   \* step of TransmitPacket, and the access of it that comes next
  pool,       \* free packet buffers
  rcvdq       \* packets queued for the stack

chip == <<prs, sram, garbled, missed, sending, txEnd>>
vars == <<index, imr, chip, isr, tx, half, pool, rcvdq>>

-----------------------------------------------------------------------------
(* The steps of TransmitPacket, the register each selects, the next step.  *)

Step == {"mask", "length", "data", "request", "poll", "clear", "unmask"}

Register ==
  [mask |-> "IMR", length |-> "TXPL", data |-> "MWCMD", request |-> "TCR",
   poll |-> "NSR", clear |-> "NSR", unmask |-> "IMR"]

After ==
  [mask |-> "length", length |-> "data", data |-> "request",
   request |-> "poll", poll |-> "clear", clear |-> "unmask",
   unmask |-> "idle"]

Index == {"IMR", "ISR", "TXPL", "MWCMD", "MRCMDX", "TCR", "RCR", "NSR", "VID"}

TypeOK ==
  /\ index \in Index
  /\ imr \in {"par", "rx"}
  /\ prs \in BOOLEAN
  /\ sram \in 0 .. SramCap
  /\ garbled \in BOOLEAN
  /\ missed \in 0 .. WindowMax
  /\ sending \in BOOLEAN
  /\ txEnd \in BOOLEAN
  /\ isr \in {"off", "status", "check", "packet", "reset", "clear", "unmask"}
  /\ tx \in Step \cup {"idle"}
  /\ half \in {"addr", "data"}
  /\ pool \in 0 .. PoolSize
  /\ rcvdq \in 0 .. PoolSize

\* After dm9000a_reset: its last access reads register 2DH.
Init ==
  /\ index = "VID"
  /\ imr = "rx" /\ prs = FALSE
  /\ sram = 0 /\ garbled = FALSE /\ missed = 0
  /\ sending = FALSE /\ txEnd = FALSE
  /\ isr = "off"
  /\ tx = "idle" /\ half = "addr"
  /\ pool = PoolSize /\ rcvdq = 0

-----------------------------------------------------------------------------
(* The chip                                                                *)

IRQ == prs /\ imr = "rx"

\* A packet is received.  One that finds the memory full is lost and sets
\* only the overflow bits, which interrupt nobody (INTR_set).
Arrive ==
  /\ sram < SramCap
  /\ isr = "clear" => missed < WindowMax
  /\ sram' = sram + 1
  /\ prs' = TRUE
  /\ missed' = IF isr = "clear" THEN missed + 1 ELSE missed
  /\ UNCHANGED <<index, imr, garbled, sending, txEnd, isr, tx, half, pool, rcvdq>>

Garble ==
  /\ sram > 0 /\ ~garbled
  /\ garbled' = TRUE
  /\ UNCHANGED <<index, imr, prs, sram, missed, sending, txEnd, isr, tx, half,
                 pool, rcvdq>>

TxFinish ==
  /\ sending
  /\ sending' = FALSE
  /\ txEnd' = TRUE
  /\ UNCHANGED <<index, imr, prs, sram, garbled, missed, isr, tx, half, pool, rcvdq>>

-----------------------------------------------------------------------------
(* dm9000a_isr                                                             *)

\* The mask keeps receive interrupts in until the handler is done.
IsrMask ==
  /\ isr = "off" /\ IRQ
  /\ isr' = "status"
  /\ index' = "IMR" /\ imr' = "par"
  /\ missed' = 0
  /\ UNCHANGED <<prs, sram, garbled, sending, txEnd, tx, half, pool, rcvdq>>

\* The status is read and not used.
IsrStatus ==
  /\ isr = "status"
  /\ isr' = "check"
  /\ index' = "ISR"
  /\ UNCHANGED <<imr, chip, tx, half, pool, rcvdq>>

\* dm9000a_rxReady and the conditions of the while and the if that use it.
IsrCheck ==
  /\ isr = "check"
  /\ index' = "MRCMDX"
  /\ isr' = IF garbled THEN "reset" ELSE IF sram > 0 THEN "packet" ELSE "clear"
  /\ UNCHANGED <<imr, chip, tx, half, pool, rcvdq>>

\* One packet is read.  A good one takes a buffer and is queued; a bad one,
\* or a good one that finds no buffer, is dumped.  Then the handler looks
\* again.  (Mutants: it looks only once; a packet that finds no buffer is
\* queued.)
ServeOne == "clear"
ServeAll == "check"

AnyBuffer == TRUE
BufferFree == pool > 0

IsrPacket ==
  /\ isr = "packet"
  /\ isr' = ServeAll
  /\ index' = "MRCMDX"
  /\ sram' = sram - 1
  /\ \/ BufferFree /\ pool' = pool - 1 /\ rcvdq' = rcvdq + 1
     \/ UNCHANGED <<pool, rcvdq>>
  /\ UNCHANGED <<imr, prs, garbled, missed, sending, txEnd, tx, half>>

\* The software reset empties the memory and aborts a transmission; the
\* registers are programmed again, the interrupt mask and RCR last.
IsrReset ==
  /\ isr = "reset"
  /\ isr' = "clear"
  /\ sram' = 0 /\ garbled' = FALSE
  /\ sending' = FALSE /\ txEnd' = FALSE
  /\ imr' = "rx" /\ index' = "RCR"
  /\ UNCHANGED <<prs, missed, tx, half, pool, rcvdq>>

IsrClear ==
  /\ isr = "clear"
  /\ isr' = "unmask"
  /\ index' = "ISR" /\ prs' = FALSE
  /\ UNCHANGED <<imr, sram, garbled, missed, sending, txEnd, tx, half, pool, rcvdq>>

\* The last access of the handler; it leaves the mask register selected.
\* (Mutants: the mask is left on; the status register is selected last.)
LeftMasked == "par"
Unmasked == "rx"

StatusLast == "ISR"
MaskLast == "IMR"

IsrUnmask ==
  /\ isr = "unmask"
  /\ isr' = "off"
  /\ index' = MaskLast /\ imr' = Unmasked
  /\ UNCHANGED <<chip, tx, half, pool, rcvdq>>

-----------------------------------------------------------------------------
(* TransmitPacket and the stack around it                                  *)

\* The stack has a packet to send, in a buffer of its own.
Send ==
  /\ isr = "off" /\ tx = "idle" /\ pool > 0
  /\ tx' = "mask" /\ half' = "addr"
  /\ pool' = pool - 1
  /\ UNCHANGED <<index, imr, chip, isr, rcvdq>>

\* First access of a step.
TxSelect ==
  /\ isr = "off" /\ tx # "idle" /\ half = "addr"
  /\ index' = Register[tx]
  /\ half' = "data"
  /\ UNCHANGED <<imr, chip, isr, tx, pool, rcvdq>>

\* What TransmitPacket writes to the mask when it starts.  (Mutant: it leaves
\* receive interrupts on.)
NoMask == "rx"
Mask == "par"

\* The buffers that are free after pk_free.  (Mutant: not freed.)
Leaked(p) == p
Freed(p) == p + 1

\* Second access: it acts on the register that is selected then.
TxAccess ==
  /\ isr = "off" /\ tx # "idle" /\ half = "data"
  /\ half' = "addr"
  /\ imr' = IF index # "IMR" THEN imr ELSE IF tx = "mask" THEN Mask ELSE "rx"
  /\ sending' = (sending \/ (index = "TCR" /\ tx = "request"))
  /\ txEnd' = (txEnd /\ ~(index = "NSR" /\ tx = "poll"))    \* read clears
  /\ tx' = IF tx = "poll" /\ ~txEnd THEN "poll" ELSE After[tx]
  /\ pool' = IF tx = "unmask" THEN Freed(pool) ELSE pool
  /\ UNCHANGED <<index, prs, sram, garbled, missed, isr, rcvdq>>

\* pktdemux takes a packet and the stack frees its buffer.
Demux ==
  /\ isr = "off" /\ rcvdq > 0
  /\ rcvdq' = rcvdq - 1 /\ pool' = pool + 1
  /\ UNCHANGED <<index, imr, chip, isr, tx, half>>

-----------------------------------------------------------------------------
IsrRuns == IsrStatus \/ IsrCheck \/ IsrPacket \/ IsrReset \/ IsrClear \/ IsrUnmask
Transmit == TxSelect \/ TxAccess

Next ==
  \/ Arrive \/ Garble \/ TxFinish
  \/ IsrMask \/ IsrRuns
  \/ Send \/ Transmit \/ Demux

Spec == Init /\ [][Next]_vars

(***************************************************************************)
(* Fairness: the handler runs when it was entered; the CPU does not put    *)
(* off an interrupt for ever, however briefly the line is up (a task runs  *)
(* thousands of instructions with interrupts on between two packets); a    *)
(* task that is not interrupted goes on; the chip completes a              *)
(* transmission, which needs a link.                                       *)
(***************************************************************************)
FairSpec ==
  /\ Spec
  /\ WF_vars(IsrRuns) /\ SF_vars(IsrMask)
  /\ SF_vars(Transmit) /\ SF_vars(Demux)
  /\ WF_vars(TxFinish)

-----------------------------------------------------------------------------
(* Properties                                                              *)

\* The second access of a step of TransmitPacket finds its own register
\* selected, although the handler, which selects others, may have run in
\* between: it can do so only before the mask is written, and it leaves the
\* mask register selected (dm9000a.c:358).
DataLandsWhereMeant ==
  tx # "idle" /\ half = "data" /\ isr = "off" => index = Register[tx]

\* A packet buffer is free, queued, or with the transmitter.
BufferConservation ==
  pool + rcvdq + (IF tx = "idle" THEN 0 ELSE 1) = PoolSize

\* The handler, whose reset would abort a transmission and leave
\* TransmitPacket polling for ever, does not run while one is under way.
ResetSparesTransmission == isr # "off" => ~sending /\ ~txEnd

\* A packet waits in the receive memory with no interrupt to announce it
\* only if it came between the handler's last look and its clearing of the
\* status: line 356 clears the bit of a packet nobody has seen.
StrandedOnlyByWindow == sram > 0 /\ ~prs => missed > 0

\* The other direction of a stranded packet: as long as packets keep coming,
\* or the memory fills up, the handler comes back and looks at them.
ServedWhileTraffic ==
  []<><<Arrive>>_vars \/ []<>(sram = SramCap) => (sram > 0 ~> isr = "check")

\* When packets stop coming for a while, TransmitPacket returns.  (While they
\* come faster than the handler reads them it never leaves the CPU.)
TransmitReturns == <>[][~Arrive]_vars => (tx # "idle" ~> tx = "idle")
=============================================================================
