---------------------------- MODULE QuatDevice ----------------------------
(***************************************************************************)
(* What the quaternion coprocessor promises to its bus master: an operand  *)
(* that is written, an accumulator that is loaded from the operand or      *)
(* multiplied by it, one of them at a time, and a reset.  The clock, the   *)
(* command register, the latch in front of the accumulator and the time a  *)
(* command has to stay on the bus are the implementation's (Calc).         *)
(***************************************************************************)
EXTENDS FixedPoint

VARIABLES operand, accumulator

Init ==
  /\ operand = 0
  /\ accumulator = 0

WriteOperand ==
  /\ operand' \in Word
  /\ UNCHANGED accumulator

Load ==
  /\ accumulator' = operand
  /\ UNCHANGED operand

Mult ==
  /\ accumulator' = MultSlice(operand, accumulator)
  /\ UNCHANGED operand

Reset ==
  /\ operand' = 0
  /\ accumulator' = 0

Next == WriteOperand \/ Load \/ Mult \/ Reset

Spec == Init /\ [][Next]_<<operand, accumulator>>
===========================================================================
