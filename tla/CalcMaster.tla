----------------------------- MODULE CalcMaster -----------------------------
(***************************************************************************)
(* The coprocessor Calc driven by a bus master, one transfer at a time.    *)
(* A write keeps address, data and write enable on the bus for a number of *)
(* clock edges between MinHold and MaxHold:                                *)
(*   - calc_tb.vhd holds its writes for 100, 33 and 20 ns of a 20 ns       *)
(*     clock, which covers 1 to 5 edges depending on the phase;            *)
(*   - the Avalon slave translator that Qsys generates from quat_hw.tcl    *)
(*     (writeWaitTime 0, holdTime 0) holds a write for exactly one edge,   *)
(*     and the CPU's next store comes later (iniche_init.c converts a      *)
(*     float between two IOWRs), so the bus is idle in between.            *)
(* A read (readWaitTime 1) lasts ReadHold edges; the translator registers  *)
(* the read data at every edge and the CPU gets the last one.              *)
(***************************************************************************)
EXTENDS Calc

CONSTANTS MinHold, MaxHold, ReadHold

ASSUME HoldAssumption ==
  /\ MinHold \in Nat /\ MaxHold \in Nat /\ MinHold <= MaxHold
  /\ ReadHold \in Nat \ {0}

VARIABLES
  phase,             \* what the master is doing
  edges,             \* edges seen by the current transfer
  base,              \* history: the accumulator when the transfer began
  av_readdata_pre    \* read data registered by the slave translator

mvars == <<cvars, phase, edges, base, av_readdata_pre>>

Phase == {"reset", "idle", "write", "read"}

MTypeOK ==
  /\ TypeOK
  /\ phase \in Phase
  /\ edges \in Nat
  /\ base \in Word
  /\ av_readdata_pre \in Word

MInit ==
  /\ Init
  /\ phase = "reset"
  /\ edges = 0
  /\ base = 0
  /\ av_readdata_pre = 0

-----------------------------------------------------------------------------
Begin(p) ==
  /\ phase = "idle"
  /\ phase' = p
  /\ edges' = 0
  /\ base' = r32_o_2
  /\ UNCHANGED av_readdata_pre

BeginWrite(n, w) ==
  /\ Begin("write")
  /\ Drive([reset |-> FALSE, chipselect |-> TRUE, write_en |-> TRUE,
            regselect |-> n, writedataint |-> w])

BeginRead(n) ==
  /\ Begin("read")
  /\ Drive([bus EXCEPT !.chipselect = TRUE, !.regselect = n])

\* A clock edge.  A transfer that has had all its edges ends before the next.
Tick ==
  /\ phase = "write" => edges < MaxHold
  /\ phase = "read" => edges < ReadHold
  /\ ClockEdge
  /\ edges' = IF phase \in {"write", "read"} THEN edges + 1 ELSE edges
  /\ av_readdata_pre' = IF bus.reset THEN 0 ELSE ReadData
  /\ UNCHANGED <<phase, base>>

\* The end of a transfer: write enable drops, chip select may (Avalon) or may
\* not (test bench), address and data are left as they are.
End ==
  /\ \/ phase = "write" /\ edges >= MinHold
     \/ phase = "read" /\ edges = ReadHold
  /\ phase' = "idle"
  /\ \E cs \in BOOLEAN :
       Drive([bus EXCEPT !.write_en = FALSE, !.chipselect = cs])
  /\ UNCHANGED <<edges, base, av_readdata_pre>>

\* The reset controller resets the system at any time; the translator's
\* register is cleared with it.
AssertReset ==
  /\ phase # "reset"
  /\ phase' = "reset"
  /\ Drive([bus EXCEPT !.reset = TRUE, !.write_en = FALSE])
  /\ edges' = 0
  /\ base' = 0
  /\ av_readdata_pre' = 0

ReleaseReset ==
  /\ phase = "reset"
  /\ phase' = "idle"
  /\ Drive([bus EXCEPT !.reset = FALSE, !.write_en = FALSE])
  /\ UNCHANGED <<edges, base, av_readdata_pre>>

MNext ==
  \/ \E n \in 0 .. 3, w \in Offered : BeginWrite(n, w)
  \/ \E n \in 0 .. 3 : BeginRead(n)
  \/ Tick
  \/ End
  \/ AssertReset
  \/ ReleaseReset

MSpec == MInit /\ [][MNext]_mvars

-----------------------------------------------------------------------------
(* Properties                                                              *)

\* The command register is loaded by the first edge of a write and acts on
\* the accumulator at each later one, so a command held for k edges is
\* executed k - 1 times (calc.vhd:94 with reg32_clr.vhd:17-23): not at all
\* when the write lasts one edge, and a Mult repeatedly when it lasts longer.
Multiplied(operand, accumulator) ==
  LET times[k \in Nat] ==
        IF k = 0 THEN accumulator ELSE MultSlice(operand, times[k - 1])
  IN  times

Executed(cmd, operand, accumulator, k) ==
  CASE k > 0 /\ IsLoad(cmd) -> operand
    [] k > 0 /\ IsMult(cmd) -> Multiplied(operand, accumulator)[k]
    [] OTHER -> accumulator

ExecutedHeldMinusOne ==
  phase = "write" /\ bus.regselect = 0 =>
    r32_o_2 = Executed(bus.writedataint, r32_o_1, base,
                       IF edges = 0 THEN 0 ELSE edges - 1)

\* Nothing but a command that is still being written, and by a master that
\* makes whole transfers for an edge already, moves the accumulator; it
\* survives operand writes, reads and idle time until reset.
AccumulatorOnlyByCommand ==
  [][r32_o_2' # r32_o_2 =>
       \/ bus'.reset
       \/ WriteEnable(bus, 0) /\ (phase = "write" => edges >= 1)]_mvars

\* A master that writes Read to address 0 sees, from the first edge until it
\* lets go, the accumulator as it was when it began, and leaves it so.
ReadWhileWriting ==
  phase = "write" /\ bus.regselect = 0 /\ IsRead(bus.writedataint)
    /\ edges >= 1
  => ReadData = base /\ r32_o_2 = base

\* A bus read, whatever was written before it, returns all ones: write
\* enable is off during a read, so the command register is clear and the
\* output multiplexer of calc.vhd:104-108 never selects the accumulator.
BusReadsAllOnes ==
  phase = "read" /\ edges >= 1 => av_readdata_pre = AllOnes

\* The command codes of calc.vhd:48 taken at their word: when a write of
\* Load to address 0 is over, the accumulator holds the operand.
LoadTakesEffect ==
  [][phase = "write" /\ phase' = "idle" /\ bus.regselect = 0
       /\ IsLoad(bus.writedataint)
     => r32_o_2' = r32_o_1]_mvars
=============================================================================
