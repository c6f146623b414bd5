------------------------------- MODULE Calc -------------------------------
(***************************************************************************)
(* The quaternion coprocessor of fpga/quat as synthesised: calc.vhd with   *)
(* its registers reg32_clr (the command, cleared asynchronously whenever   *)
(* it is not being written) and reg32_float (operand and accumulator), and *)
(* the transparent latch that the process of calc.vhd infers for           *)
(* writedata_2 by assigning it in only two of three cases.                 *)
(*                                                                         *)
(* Time passes in two kinds of step.  Drive lets the master change the bus *)
(* between two clock edges and everything asynchronous settle; ClockEdge   *)
(* is a rising edge, at which each register samples its inputs as they     *)
(* were.  A master whose signals move together with the clock is one that  *)
(* alternates the two; the test bench moves its signals at any time.       *)
(***************************************************************************)
EXTENDS FixedPoint

CONSTANT Offered     \* the words a master may put on writedataint

ASSUME OfferedAssumption == Offered \subseteq Word

VARIABLES
  bus,          \* the bus inputs, as the master drives them
  r32_o_0,      \* command register
  r32_o_1,      \* operand register
  r32_o_2,      \* accumulator
  writedata_2   \* the latch in front of the accumulator

cvars == <<bus, r32_o_0, r32_o_1, r32_o_2, writedata_2>>

Bus == [reset : BOOLEAN, chipselect : BOOLEAN, write_en : BOOLEAN,
        regselect : 0 .. 3, writedataint : Offered]

TypeOK ==
  /\ bus \in Bus
  /\ {r32_o_0, r32_o_1, r32_o_2, writedata_2} \subseteq Word

-----------------------------------------------------------------------------
(* Combinational logic                                                     *)

\* write_enable_reg_0 and write_enable_reg_1 for n = 0 and 1; nothing
\* decodes 2 and 3.
WriteEnable(b, n) == b.write_en /\ b.chipselect /\ b.regselect = n

\* r32_o_0(-30) and r32_o_0(-29).
Bit30(cmd) == cmd % 2 = 1
Bit29(cmd) == (cmd \div 2) % 2 = 1

\* write_enable_reg_2.  (Mutant: taken from the other command bit.)
EnableOnBit29(cmd) == Bit29(cmd)
WriteEnable2(cmd) == Bit30(cmd)

\* The asynchronous clear of reg32_clr.  (Mutant: a register that only reset
\* clears, as reg32_float is.)
ClearedByResetOnly(b) == b.reset
ClearsCommand(b) == b.reset \/ ~WriteEnable(b, 0)

IsLoad(cmd) == Bit29(cmd) /\ Bit30(cmd)
IsMult(cmd) == ~Bit29(cmd) /\ Bit30(cmd)
IsRead(cmd) == Bit29(cmd) /\ ~Bit30(cmd)

\* What the latch shows: it is transparent for Load and Mult and keeps its
\* value for every other command.  (Mutant: Load forgotten.)
LatchWithoutLoad(cmd, op, acc, held) ==
  IF IsMult(cmd) THEN MultSlice(op, acc) ELSE held

Latch(cmd, op, acc, held) ==
  IF IsLoad(cmd) THEN op
  ELSE IF IsMult(cmd) THEN MultSlice(op, acc)
  ELSE held

ReadData == IF IsRead(r32_o_0) THEN r32_o_2 ELSE AllOnes

-----------------------------------------------------------------------------
\* Reset clears the registers; the latch has no reset and powers up with
\* any value.
Init ==
  /\ bus \in {b \in Bus : b.reset}
  /\ r32_o_0 = 0 /\ r32_o_1 = 0 /\ r32_o_2 = 0
  /\ writedata_2 \in Word

\* The bus changes to b and the asynchronous inputs act: reset clears every
\* register, a write enable that is off clears the command.
Drive(b) ==
  /\ bus' = b
  /\ r32_o_0' = IF ClearsCommand(b) THEN 0 ELSE r32_o_0
  /\ r32_o_1' = IF b.reset THEN 0 ELSE r32_o_1
  /\ r32_o_2' = IF b.reset THEN 0 ELSE r32_o_2
  /\ writedata_2' = Latch(r32_o_0', r32_o_1', r32_o_2', writedata_2)

\* A rising edge of the clock: command and operand sample the bus, the
\* accumulator samples the latch if the command register enables it.
ClockEdge ==
  /\ r32_o_0' = IF ClearsCommand(bus) THEN 0
                ELSE IF WriteEnable(bus, 0) THEN bus.writedataint ELSE r32_o_0
  /\ r32_o_1' = IF bus.reset THEN 0
                ELSE IF WriteEnable(bus, 1) THEN bus.writedataint ELSE r32_o_1
  /\ r32_o_2' = IF bus.reset THEN 0
                ELSE IF WriteEnable2(r32_o_0) THEN writedata_2 ELSE r32_o_2
  /\ writedata_2' = Latch(r32_o_0', r32_o_1', r32_o_2', writedata_2)
  /\ UNCHANGED bus

Next == ClockEdge \/ \E b \in Bus : Drive(b)

Spec == Init /\ [][Next]_cvars

-----------------------------------------------------------------------------
(* Properties, for a master that drives the bus in any way.                *)

\* A command is in the command register only while the master still writes
\* address 0: reg32_clr drops it the moment the write ends, so nothing is
\* executed on behalf of a write that is over.
CommandOnlyWhileWritten ==
  r32_o_0 # 0 => ~bus.reset /\ WriteEnable(bus, 0)

\* The accumulator never samples a stale latch: whenever the command
\* register enables the accumulator, the latch shows the operand (Load) or
\* the product (Mult) of the registers as they are now.
LatchFresh ==
  WriteEnable2(r32_o_0) =>
    writedata_2 = IF Bit29(r32_o_0) THEN r32_o_1
                  ELSE MultSlice(r32_o_1, r32_o_2)

\* The registers behave as the abstract device: an edge is a write of the
\* operand, one Load, one Mult, or nothing, never two of them at once.
Device == INSTANCE QuatDevice
            WITH operand <- r32_o_1, accumulator <- r32_o_2
ImplementsDevice == Device!Spec
===========================================================================
