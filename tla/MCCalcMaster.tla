---------------------------- MODULE MCCalcMaster ----------------------------
(* Small instances of CalcMaster: six-bit words (8 is 0.5, 16 is 1.0).     *)
EXTENDS CalcMaster

\* Mult, Read, Load, 0.5 and a negative word.
MCOffered == {1, 2, 3, 8, 40}

\* The coprocessor alone, under a bus that changes in any way between clock
\* edges: Calc, with the master's variables put aside.
AnyInit ==
  /\ Init
  /\ phase = "any" /\ edges = 0 /\ base = 0 /\ av_readdata_pre = 0

AnyNext ==
  /\ phase = "any"
  /\ Next
  /\ UNCHANGED <<phase, edges, base, av_readdata_pre>>

\* A master that makes whole transfers, or any use of the bus whatever.
EitherInit == MInit \/ AnyInit
EitherNext == (phase # "any" /\ MNext) \/ AnyNext
EitherSpec == EitherInit /\ [][EitherNext]_mvars
=============================================================================
