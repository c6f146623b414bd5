----------------------------- MODULE CalcProofs -----------------------------
(***************************************************************************)
(* Theorems about the coprocessor Calc, for every number of words and      *)
(* every set of words a master may offer: under a master that drives the   *)
(* bus in any way, and under the one of CalcMaster, which makes one        *)
(* transfer at a time, for every hold time; and, for hold times of at most *)
(* one edge (the Avalon bus of quat_hw.tcl), that no command is ever       *)
(* executed.                                                               *)
(***************************************************************************)
EXTENDS CalcMaster, TLAPS, WellFoundedInduction

\* The word stored by a multiplication is a word: the slice of the product
\* never leaves the format, whatever the operands.
LEMMA MultSliceIsWord ==
  ASSUME NEW a \in Word, NEW b \in Word
  PROVE  MultSlice(a, b) \in Word
<1>1. Signed(a) \in Int /\ Signed(b) \in Int
  BY WordCountAssumption DEF Signed, Word
<1>2. PICK p \in Int : p = Signed(a) * Signed(b)
  BY <1>1
<1>3. WordCount \in Nat \ {0}
  BY WordCountAssumption
<1>4. (p \div WordCount) % WordCount \in 0 .. WordCount - 1
  <2>1. p \div WordCount \in Int
    BY <1>2, <1>3
  <2> QED BY <2>1, <1>3
<1> QED BY <1>2, <1>4 DEF MultSlice, Word

\* Zero and all ones are words.
LEMMA ZeroIsWord == 0 \in Word /\ AllOnes \in Word
BY WordCountAssumption DEF Word, AllOnes

\* The latch shows a word when its inputs are words.
LEMMA LatchIsWord ==
  ASSUME NEW cmd \in Word, NEW op \in Word, NEW acc \in Word,
         NEW held \in Word
  PROVE  Latch(cmd, op, acc, held) \in Word
BY MultSliceIsWord DEF Latch

\* No command is executed by the cleared command register.
LEMMA ClearedCommandIsIdle == ~WriteEnable2(0) /\ ~Bit29(0)
BY DEF WriteEnable2, Bit30, Bit29

-----------------------------------------------------------------------------
(* Repeated multiplication                                                 *)

\* Induction over the naturals, for a set: a set that has 0 and the successor
\* of each of its numbers has them all.
LEMMA SetInduction ==
  ASSUME NEW S, 0 \in S, \A n \in Nat : n \in S => n + 1 \in S
  PROVE  \A n \in Nat : n \in S
<1> DEFINE R == {ss \in Nat \X Nat : ss[1] < ss[2]}
           T == {n \in Nat : n \notin S}
<1>1. IsWellFoundedOn(R, Nat)
  <2>1. OpToRel(<, Nat) = R
    BY Zenon DEF OpToRel
  <2> HIDE DEF R
  <2> QED BY <2>1, NatLessThanWellFounded, Zenon
<1>2. ASSUME T # {} PROVE FALSE
  <2>1. T \subseteq Nat
    OBVIOUS
  <2>2. PICK n \in T : \A m \in T : <<m, n>> \notin R
    <3> HIDE DEF R, T
    <3> QED BY <1>1, <1>2, <2>1, WFMin
  <2>3. n \in Nat /\ n # 0 /\ n \notin S
    OBVIOUS
  <2>4. n - 1 \in Nat /\ n - 1 < n
    BY <2>3
  <2>5. <<n - 1, n>> \in R
    BY <2>3, <2>4
  <2>6. n - 1 \in S
    BY <2>2, <2>4, <2>5
  <2>7. n - 1 + 1 \in S
    BY <2>4, <2>6
  <2> QED BY <2>3, <2>7
<1> QED BY <1>2

\* The function that Multiplied names exists, and so is what its definition
\* says: the accumulator, then the product with the one before.
LEMMA MultipliedStep ==
  ASSUME NEW a \in Word, NEW b \in Word
  PROVE  /\ Multiplied(a, b)[0] = b
         /\ \A k \in Nat :
              Multiplied(a, b)[k + 1] = MultSlice(a, Multiplied(a, b)[k])
<1> DEFINE Upto(n) == {h \in [0 .. n -> Word] :
                         /\ h[0] = b
                         /\ \A j \in 0 .. n - 1 : h[j + 1] = MultSlice(a, h[j])}
\* There is such a function up to any number, and any two agree.
<1>1. \A n \in Nat : Upto(n) # {}
  <2> DEFINE S == {n \in Nat : Upto(n) # {}}
  <2>1. 0 \in S
    <3>1. [j \in 0 .. 0 |-> b] \in Upto(0)
      OBVIOUS
    <3> QED BY <3>1
  <2>2. ASSUME NEW n \in Nat, n \in S PROVE n + 1 \in S
    <3>1. PICK h \in Upto(n) : TRUE
      BY <2>2
    <3>2. MultSlice(a, h[n]) \in Word
      BY MultSliceIsWord
    <3>3. [j \in 0 .. n + 1 |-> IF j = n + 1 THEN MultSlice(a, h[n]) ELSE h[j]]
            \in Upto(n + 1)
      BY <3>1, <3>2
    <3> QED BY <3>3
  <2> HIDE DEF S
  <2>3. \A n \in Nat : n \in S
    BY <2>1, <2>2, SetInduction
  <2> QED BY <2>3 DEF S
<1>2. ASSUME NEW m \in Nat, NEW n \in Nat, NEW g \in Upto(m), NEW h \in Upto(n)
      PROVE  \A j \in Nat : j <= m /\ j <= n => g[j] = h[j]
  <2> DEFINE S == {j \in Nat : j <= m /\ j <= n => g[j] = h[j]}
  <2>1. 0 \in S
    OBVIOUS
  <2>2. ASSUME NEW j \in Nat, j \in S PROVE j + 1 \in S
    <3>1. SUFFICES ASSUME j + 1 <= m, j + 1 <= n PROVE g[j + 1] = h[j + 1]
      OBVIOUS
    <3>2. j \in 0 .. m - 1 /\ j \in 0 .. n - 1 /\ g[j] = h[j]
      BY <2>2, <3>1
    <3>3. g[j + 1] = MultSlice(a, g[j]) /\ h[j + 1] = MultSlice(a, h[j])
      BY <3>2
    <3> QED BY <3>2, <3>3
  <2> HIDE DEF S
  <2>3. \A j \in Nat : j \in S
    BY <2>1, <2>2, SetInduction
  <2> QED BY <2>3 DEF S
<1> DEFINE pick(n) == CHOOSE h : h \in Upto(n)
           f == [n \in Nat |-> pick(n)[n]]
<1>3. \A n \in Nat : pick(n) \in Upto(n)
  <2> HIDE DEF Upto
  <2> QED BY <1>1
<1>4. f[0] = b
  <2>1. pick(0)[0] = b
    BY <1>3
  <2> QED BY <2>1
<1>5. ASSUME NEW k \in Nat PROVE f[k + 1] = MultSlice(a, f[k])
  <2>1. pick(k + 1)[k] = pick(k)[k]
    <3> HIDE DEF pick, Upto
    <3>1. pick(k) \in Upto(k) /\ pick(k + 1) \in Upto(k + 1)
      BY <1>3
    <3> QED BY <1>2, <3>1
  <2>2. pick(k + 1)[k + 1] = MultSlice(a, pick(k + 1)[k])
    <3> HIDE DEF pick
    <3>1. pick(k + 1) \in Upto(k + 1)
      <4> HIDE DEF Upto
      <4> QED BY <1>3
    <3> QED BY <3>1
  <2> HIDE DEF pick
  <2> QED BY <2>1, <2>2
<1>6. f = [k \in Nat |-> IF k = 0 THEN b ELSE MultSlice(a, f[k - 1])]
  <2>1. ASSUME NEW k \in Nat
        PROVE  f[k] = IF k = 0 THEN b ELSE MultSlice(a, f[k - 1])
    <3>1. CASE k = 0
      BY <1>4, <3>1
    <3>2. CASE k # 0
      <4>1. k - 1 \in Nat /\ k - 1 + 1 = k
        BY <3>2
      <4> HIDE DEF f
      <4> QED BY <1>5, <3>2, <4>1
    <3> QED BY <3>1, <3>2
  <2> HIDE DEF pick
  <2> QED BY <2>1
<1>7. Multiplied(a, b) =
        [k \in Nat |-> IF k = 0 THEN b ELSE MultSlice(a, Multiplied(a, b)[k - 1])]
  <2> HIDE DEF f
  <2> QED BY <1>6 DEF Multiplied
<1> QED BY <1>7

-----------------------------------------------------------------------------
\* Which bit enables the accumulator and what clears the command are details
\* every step needs.
USE DEF ClearsCommand, WriteEnable2

\* Type correctness of the registers, for every master.
THEOREM TypeCorrect == Spec => []TypeOK
<1>1. Init => TypeOK
  BY ZeroIsWord DEF Init, TypeOK
<1>2. TypeOK /\ [Next]_cvars => TypeOK'
  <2> SUFFICES ASSUME TypeOK, [Next]_cvars PROVE TypeOK'
    OBVIOUS
  <2> USE ZeroIsWord DEF TypeOK
  <2>1. CASE ClockEdge
    <3>1. bus' \in Bus
      BY <2>1 DEF ClockEdge
    <3>2. bus.writedataint \in Word
      BY OfferedAssumption DEF Bus
    <3>3. r32_o_0' \in Word /\ r32_o_1' \in Word /\ r32_o_2' \in Word
      BY <2>1, <3>2 DEF ClockEdge
    <3>4. writedata_2' \in Word
      BY <2>1, <3>3, LatchIsWord DEF ClockEdge
    <3> QED BY <3>1, <3>3, <3>4
  <2>2. ASSUME NEW b \in Bus, Drive(b) PROVE TypeOK'
    <3>1. r32_o_0' \in Word /\ r32_o_1' \in Word /\ r32_o_2' \in Word
      BY <2>2 DEF Drive
    <3>2. writedata_2' \in Word
      BY <2>2, <3>1, LatchIsWord DEF Drive
    <3> QED BY <2>2, <3>1, <3>2 DEF Drive
  <2>3. CASE UNCHANGED cvars
    BY <2>3 DEF cvars
  <2> QED BY <2>1, <2>2, <2>3 DEF Next
<1> QED BY <1>1, <1>2, PTL DEF Spec

-----------------------------------------------------------------------------
\* CommandOnlyWhileWritten, proved: a command outlives no write.
THEOREM CommandOnlyWhileWrittenCorrect == Spec => []CommandOnlyWhileWritten
<1>1. Init => CommandOnlyWhileWritten
  BY DEF Init, CommandOnlyWhileWritten
<1>2. CommandOnlyWhileWritten /\ [Next]_cvars => CommandOnlyWhileWritten'
  <2> SUFFICES ASSUME CommandOnlyWhileWritten, [Next]_cvars
               PROVE  CommandOnlyWhileWritten'
    OBVIOUS
  <2> USE DEF CommandOnlyWhileWritten
  <2>1. CASE ClockEdge
    BY <2>1 DEF ClockEdge
  <2>2. ASSUME NEW b \in Bus, Drive(b) PROVE CommandOnlyWhileWritten'
    BY <2>2 DEF Drive
  <2>3. CASE UNCHANGED cvars
    BY <2>3 DEF cvars, WriteEnable
  <2> QED BY <2>1, <2>2, <2>3 DEF Next
<1> QED BY <1>1, <1>2, PTL DEF Spec

\* LatchFresh, proved: the accumulator never samples a stale latch.
THEOREM LatchFreshCorrect == Spec => []LatchFresh
<1>1. Init => LatchFresh
  BY ClearedCommandIsIdle DEF Init, LatchFresh
<1>2. LatchFresh /\ [Next]_cvars => LatchFresh'
  <2> SUFFICES ASSUME LatchFresh, [Next]_cvars PROVE LatchFresh'
    OBVIOUS
  <2>1. CASE ClockEdge
    BY <2>1 DEF ClockEdge, LatchFresh, Latch, IsLoad, IsMult
  <2>2. ASSUME NEW b \in Bus, Drive(b) PROVE LatchFresh'
    BY <2>2 DEF Drive, LatchFresh, Latch, IsLoad, IsMult
  <2>3. CASE UNCHANGED cvars
    BY <2>3 DEF cvars, LatchFresh
  <2> QED BY <2>1, <2>2, <2>3 DEF Next
<1> QED BY <1>1, <1>2, PTL DEF Spec

-----------------------------------------------------------------------------
\* The registers implement the abstract device.  An edge would be a Load and
\* a write of the operand at once if a command could outlive its write, and
\* would store an old operand or product if the latch could be stale: the
\* step needs CommandOnlyWhileWritten and LatchFresh.
THEOREM ImplementsDeviceCorrect == Spec => ImplementsDevice
<1>1. Init => Device!Init
  BY DEF Init, Device!Init
<1>2. TypeOK /\ CommandOnlyWhileWritten /\ LatchFresh /\ [Next]_cvars
        => [Device!Next]_<<r32_o_1, r32_o_2>>
  <2> SUFFICES ASSUME TypeOK, CommandOnlyWhileWritten, LatchFresh,
                      [Next]_cvars
               PROVE  [Device!Next]_<<r32_o_1, r32_o_2>>
    OBVIOUS
  <2> USE DEF Device!Next
  <2>1. CASE ClockEdge /\ bus.reset
    BY <2>1 DEF ClockEdge, Device!Reset
  <2>2. CASE ClockEdge /\ ~bus.reset /\ WriteEnable2(r32_o_0)
    <3>1. WriteEnable(bus, 0)
      BY <2>2, ClearedCommandIsIdle DEF CommandOnlyWhileWritten
    <3>2. r32_o_1' = r32_o_1
      BY <2>2, <3>1 DEF ClockEdge, WriteEnable
    <3>3. r32_o_2' = writedata_2
      BY <2>2 DEF ClockEdge
    <3>4. CASE Bit29(r32_o_0)
      BY <2>2, <3>2, <3>3, <3>4 DEF LatchFresh, Device!Load
    <3>5. CASE ~Bit29(r32_o_0)
      <4>1. r32_o_2' = MultSlice(r32_o_1, r32_o_2)
        BY <2>2, <3>3, <3>5 DEF LatchFresh
      <4> QED BY <4>1, <3>2
              DEF Device!Mult, Device!MultSlice, Device!Signed,
                  MultSlice, Signed
    <3> QED BY <3>4, <3>5
  <2>3. CASE ClockEdge /\ ~bus.reset /\ ~WriteEnable2(r32_o_0)
    <3>1. bus.writedataint \in Device!Word
      BY OfferedAssumption DEF TypeOK, Bus, Word, Device!Word
    <3>2. r32_o_2' = r32_o_2
      BY <2>3 DEF ClockEdge
    <3>3. r32_o_1' = bus.writedataint \/ r32_o_1' = r32_o_1
      BY <2>3 DEF ClockEdge
    <3> QED BY <3>1, <3>2, <3>3 DEF Device!WriteOperand
  <2>4. ASSUME NEW b \in Bus, Drive(b)
        PROVE  [Device!Next]_<<r32_o_1, r32_o_2>>
    BY <2>4 DEF Drive, Device!Reset
  <2>5. CASE UNCHANGED cvars
    BY <2>5 DEF cvars
  <2> QED BY <2>1, <2>2, <2>3, <2>4, <2>5 DEF Next
<1> QED
  BY <1>1, <1>2, TypeCorrect, CommandOnlyWhileWrittenCorrect,
     LatchFreshCorrect, PTL DEF Spec, ImplementsDevice, Device!Spec

-----------------------------------------------------------------------------
(* A master that makes one transfer at a time                              *)

\* How the master's bookkeeping and the bus agree.
MasterInv ==
  /\ bus \in Bus
  /\ phase \in Phase
  /\ edges \in Nat
  /\ phase = "reset" <=> bus.reset
  /\ phase \in {"idle", "read"} => ~bus.write_en
  /\ phase = "write" => bus.write_en /\ bus.chipselect

\* The command register holds the word being written, from the first edge of
\* a write to address 0 on, and nothing otherwise.
CommandInv ==
  /\ r32_o_0 # 0 => phase = "write" /\ bus.regselect = 0 /\ edges >= 1
  /\ phase = "write" /\ bus.regselect = 0 /\ edges >= 1
       => r32_o_0 = bus.writedataint

\* What the current transfer has done so far: nothing, unless it writes a
\* command and has seen its second edge; and reads have seen all ones.
TransferInv ==
  /\ phase = "write" /\ bus.regselect = 0
       /\ (edges <= 1 \/ IsRead(bus.writedataint)) => r32_o_2 = base
  /\ BusReadsAllOnes

IInv == MasterInv /\ CommandInv /\ TransferInv

\* No command is executed or answered by the cleared command register.
LEMMA NoCommand == ~WriteEnable2(0) /\ ~IsRead(0)
BY DEF WriteEnable2, Bit30, Bit29, IsRead

LEMMA InitIInv == MInit => IInv
<1> SUFFICES ASSUME MInit PROVE IInv
  OBVIOUS
<1>1. MasterInv
  BY DEF MInit, Init, MasterInv, Phase
<1> QED BY <1>1 DEF MInit, Init, IInv, CommandInv, TransferInv,
                    BusReadsAllOnes

LEMMA StepIInv == IInv /\ [MNext]_mvars => IInv'
<1> SUFFICES ASSUME IInv, [MNext]_mvars PROVE IInv'
  OBVIOUS
<1> USE DEF IInv
<1>1. ASSUME NEW n \in 0 .. 3, NEW w \in Offered, BeginWrite(n, w)
      PROVE  IInv'
  <2>1. MasterInv'
    BY <1>1 DEF BeginWrite, Begin, Drive, MasterInv, Phase, Bus
  <2>2. r32_o_0' = 0
    <3>1. r32_o_0 = 0
      BY <1>1 DEF BeginWrite, Begin, CommandInv
    <3> QED BY <1>1, <3>1 DEF BeginWrite, Drive
  <2>3. CommandInv'
    BY <1>1, <2>2 DEF BeginWrite, Begin, CommandInv
  <2>4. TransferInv'
    BY <1>1 DEF BeginWrite, Begin, Drive, TransferInv, BusReadsAllOnes
  <2> QED BY <2>1, <2>3, <2>4
<1>2. ASSUME NEW n \in 0 .. 3, BeginRead(n) PROVE IInv'
  <2>1. MasterInv'
    BY <1>2 DEF BeginRead, Begin, Drive, MasterInv, Phase, Bus
  <2>2. r32_o_0' = 0
    BY <1>2 DEF BeginRead, Begin, Drive, CommandInv
  <2>3. CommandInv'
    BY <1>2, <2>2 DEF BeginRead, Begin, CommandInv
  <2>4. TransferInv'
    BY <1>2 DEF BeginRead, Begin, Drive, TransferInv, BusReadsAllOnes
  <2> QED BY <2>1, <2>3, <2>4
<1>3. CASE Tick
  <2>1. MasterInv'
    BY <1>3 DEF Tick, ClockEdge, MasterInv
  <2>2. CommandInv'
    BY <1>3 DEF Tick, ClockEdge, MasterInv, CommandInv, WriteEnable, Phase
  <2>3. BusReadsAllOnes'
    BY <1>3, NoCommand DEF Tick, MasterInv, CommandInv, ReadData,
                           BusReadsAllOnes, Phase, ClockEdge
  <2>4. ASSUME phase' = "write", bus'.regselect = 0,
               edges' <= 1 \/ IsRead(bus'.writedataint)
        PROVE  r32_o_2' = base'
    <3>1. phase = "write" /\ bus.regselect = 0 /\ bus' = bus /\ base' = base
          /\ edges' = edges + 1 /\ ~bus.reset
      BY <1>3, <2>4 DEF Tick, ClockEdge, MasterInv
    <3>2. r32_o_2 = base
      BY <2>4, <3>1 DEF TransferInv, MasterInv
    <3>3. ~WriteEnable2(r32_o_0)
      <4>1. CASE edges = 0
        BY <4>1, NoCommand DEF CommandInv
      <4>2. CASE edges # 0
        <5>1. r32_o_0 = bus.writedataint
          BY <3>1, <4>2 DEF CommandInv, MasterInv
        <5>2. IsRead(bus.writedataint)
          BY <2>4, <3>1, <4>2 DEF MasterInv
        <5> QED BY <5>1, <5>2 DEF IsRead
      <4> QED BY <4>1, <4>2
    <3> QED BY <1>3, <3>1, <3>2, <3>3 DEF Tick, ClockEdge
  <2> QED BY <2>1, <2>2, <2>3, <2>4 DEF TransferInv
<1>4. CASE End
  <2> PICK cs \in BOOLEAN :
        Drive([bus EXCEPT !.write_en = FALSE, !.chipselect = cs])
    BY <1>4 DEF End
  <2>1. phase' = "idle" /\ phase # "reset" /\ edges' = edges
    BY <1>4 DEF End
  <2>2. MasterInv'
    BY <2>1 DEF Drive, MasterInv, Phase, Bus
  <2>3. r32_o_0' = 0
    BY DEF Drive, WriteEnable, MasterInv, Bus
  <2> QED BY <2>1, <2>2, <2>3 DEF CommandInv, TransferInv, BusReadsAllOnes
<1>5. CASE AssertReset
  <2>1. MasterInv'
    BY <1>5 DEF AssertReset, Drive, MasterInv, Phase, Bus
  <2>2. r32_o_0' = 0
    BY <1>5 DEF AssertReset, Drive, MasterInv, Bus
  <2> QED BY <1>5, <2>1, <2>2
          DEF AssertReset, CommandInv, TransferInv, BusReadsAllOnes
<1>6. CASE ReleaseReset
  <2>1. MasterInv'
    BY <1>6 DEF ReleaseReset, Drive, MasterInv, Phase, Bus
  <2>2. r32_o_0' = 0
    BY <1>6 DEF ReleaseReset, Drive, WriteEnable, MasterInv, Bus
  <2> QED BY <1>6, <2>1, <2>2
          DEF ReleaseReset, CommandInv, TransferInv, BusReadsAllOnes
<1>7. CASE UNCHANGED mvars
  BY <1>7 DEF mvars, cvars, MasterInv, CommandInv, TransferInv,
              BusReadsAllOnes
<1> QED BY <1>1, <1>2, <1>3, <1>4, <1>5, <1>6, <1>7 DEF MNext

LEMMA MasterInvariant == MSpec => []IInv
BY InitIInv, StepIInv, PTL DEF MSpec

-----------------------------------------------------------------------------
\* BusReadsAllOnes, proved: whatever is written and however long, the CPU
\* reads all ones from every address of the coprocessor.
THEOREM BusReadsAllOnesCorrect == MSpec => []BusReadsAllOnes
<1>1. IInv => BusReadsAllOnes
  BY DEF IInv, TransferInv
<1> QED BY <1>1, MasterInvariant, PTL

\* ReadWhileWriting, proved: while Read itself is being written, the output
\* shows the accumulator and the accumulator keeps its value.
THEOREM ReadWhileWritingCorrect == MSpec => []ReadWhileWriting
<1>1. IInv => ReadWhileWriting
  BY DEF IInv, TransferInv, CommandInv, ReadWhileWriting, ReadData
<1> QED BY <1>1, MasterInvariant, PTL

\* AccumulatorOnlyByCommand, proved: only a command that is still being
\* written when an edge comes moves the accumulator.
THEOREM AccumulatorOnlyByCommandCorrect == MSpec => AccumulatorOnlyByCommand
<1> DEFINE Moved == r32_o_2' # r32_o_2 =>
                      \/ bus'.reset
                      \/ WriteEnable(bus, 0) /\ (phase = "write" => edges >= 1)
<1>1. IInv /\ [MNext]_mvars => [Moved]_mvars
  <2> SUFFICES ASSUME IInv, MNext, r32_o_2' # r32_o_2, ~bus'.reset
               PROVE  WriteEnable(bus, 0) /\ (phase = "write" => edges >= 1)
    OBVIOUS
  <2>1. CASE Tick
    BY <2>1, NoCommand DEF Tick, ClockEdge, IInv, CommandInv, MasterInv,
                           WriteEnable
  <2>2. CASE ~Tick
    BY <2>2 DEF MNext, BeginWrite, BeginRead, End, AssertReset,
                ReleaseReset, Drive
  <2> QED BY <2>1, <2>2
<1> QED BY <1>1, MasterInvariant, PTL DEF MSpec, AccumulatorOnlyByCommand

\* On a bus that holds a write for at most one edge no command is executed,
\* whatever the software writes: the accumulator keeps its reset value.
NeverExecuted == MaxHold <= 1 => r32_o_2 = 0

THEOREM OneEdgeNeverExecutes == MSpec => []NeverExecuted
<1>1. MInit => NeverExecuted
  BY DEF MInit, Init, NeverExecuted
<1>2. IInv /\ NeverExecuted /\ [MNext]_mvars => NeverExecuted'
  <2> SUFFICES ASSUME IInv, MaxHold <= 1, r32_o_2 = 0, [MNext]_mvars
               PROVE  r32_o_2' = 0
    BY DEF NeverExecuted
  <2>1. CASE Tick
    <3>1. r32_o_0 = 0
      BY <2>1, HoldAssumption DEF Tick, IInv, CommandInv, MasterInv
    <3> QED BY <2>1, <3>1, NoCommand DEF Tick, ClockEdge
  <2>2. CASE ~Tick
    BY <2>2 DEF MNext, BeginWrite, BeginRead, End, AssertReset,
                ReleaseReset, Drive, mvars, cvars
  <2> QED BY <2>1, <2>2
<1> QED BY <1>1, <1>2, MasterInvariant, PTL DEF MSpec

-----------------------------------------------------------------------------
(* What holds under any master holds under this one.                       *)

\* The coprocessor under a bus master is the coprocessor of Calc: every step
\* of the master is a clock edge, a change of the bus, or neither.
THEOREM MasterImplementsCalc == MSpec => Spec
<1>1. MInit => Init
  BY DEF MInit
<1>2. IInv /\ [MNext]_mvars => [Next]_cvars
  <2> SUFFICES ASSUME IInv, [MNext]_mvars PROVE [Next]_cvars
    OBVIOUS
  <2>1. bus \in Bus
    BY DEF IInv, MasterInv
  <2>2. ASSUME NEW n \in 0 .. 3, NEW w \in Offered, BeginWrite(n, w)
        PROVE  Next
    <3>1. [reset |-> FALSE, chipselect |-> TRUE, write_en |-> TRUE,
           regselect |-> n, writedataint |-> w] \in Bus
      BY DEF Bus
    <3> QED BY <2>2, <3>1 DEF BeginWrite, Next
  <2>3. ASSUME NEW n \in 0 .. 3, BeginRead(n) PROVE Next
    <3>1. [bus EXCEPT !.chipselect = TRUE, !.regselect = n] \in Bus
      BY <2>1 DEF Bus
    <3> QED BY <2>3, <3>1 DEF BeginRead, Next
  <2>4. CASE Tick
    BY <2>4 DEF Tick, Next
  <2>5. CASE End
    <3>1. \A cs \in BOOLEAN :
            [bus EXCEPT !.write_en = FALSE, !.chipselect = cs] \in Bus
      BY <2>1 DEF Bus
    <3> QED BY <2>5, <3>1 DEF End, Next
  <2>6. CASE AssertReset
    <3>1. [bus EXCEPT !.reset = TRUE, !.write_en = FALSE] \in Bus
      BY <2>1 DEF Bus
    <3> QED BY <2>6, <3>1 DEF AssertReset, Next
  <2>7. CASE ReleaseReset
    <3>1. [bus EXCEPT !.reset = FALSE, !.write_en = FALSE] \in Bus
      BY <2>1 DEF Bus
    <3> QED BY <2>7, <3>1 DEF ReleaseReset, Next
  <2>8. CASE UNCHANGED mvars
    BY <2>8 DEF mvars
  <2> QED BY <2>2, <2>3, <2>4, <2>5, <2>6, <2>7, <2>8 DEF MNext
<1> QED BY <1>1, <1>2, MasterInvariant, PTL DEF MSpec, Spec

\* MTypeOK, proved: the master's bookkeeping and the read data have their
\* types in every reachable state.
THEOREM MasterTypeCorrect == MSpec => []MTypeOK
<1> DEFINE Registered == base \in Word /\ av_readdata_pre \in Word
<1>1. MInit => Registered
  BY ZeroIsWord DEF MInit
<1>2. Registered /\ TypeOK /\ [MNext]_mvars => Registered'
  <2> SUFFICES ASSUME Registered, TypeOK, [MNext]_mvars PROVE Registered'
    OBVIOUS
  <2>1. ReadData \in Word
    BY ZeroIsWord DEF ReadData, TypeOK
  <2> QED BY <2>1, ZeroIsWord DEF MNext, BeginWrite, BeginRead, Begin, Tick, End,
                            AssertReset, ReleaseReset, mvars, TypeOK
<1>3. TypeOK /\ IInv /\ Registered => MTypeOK
  BY DEF IInv, MasterInv, MTypeOK
<1> QED BY <1>1, <1>2, <1>3, TypeCorrect, MasterImplementsCalc, MasterInvariant,
           PTL DEF MSpec

-----------------------------------------------------------------------------
(* A command held for k edges is executed k - 1 times.                     *)

\* An edge during the write of a command, by what the command is: the
\* invariants say that the command register and the latch are those of this
\* command and of the registers as they are now.
LEMMA TickExecutes ==
  ASSUME IInv, MTypeOK, LatchFresh, ExecutedHeldMinusOne, Tick,
         phase = "write", bus.regselect = 0
  PROVE  r32_o_2' = Executed(bus.writedataint, r32_o_1, base, edges)
<1>1. edges \in Nat /\ ~bus.reset /\ {r32_o_1, r32_o_2} \subseteq Word
  BY DEF IInv, MasterInv, MTypeOK, TypeOK
<1>2. CASE edges = 0
  <2>1. ~WriteEnable2(r32_o_0)
    BY <1>2, NoCommand DEF IInv, CommandInv
  <2>2. r32_o_2' = r32_o_2 /\ r32_o_2 = base
    BY <1>1, <1>2, <2>1 DEF Tick, ClockEdge, ExecutedHeldMinusOne, Executed
  <2> QED BY <1>2, <2>2 DEF Executed
<1>3. CASE edges # 0
  <2>1. r32_o_0 = bus.writedataint /\ edges - 1 \in Nat
    BY <1>1, <1>3 DEF IInv, CommandInv
  <2>2. r32_o_2 = Executed(bus.writedataint, r32_o_1, base, edges - 1)
    BY <1>3 DEF ExecutedHeldMinusOne
  <2>3. r32_o_2' = IF WriteEnable2(r32_o_0) THEN writedata_2 ELSE r32_o_2
    BY <1>1 DEF Tick, ClockEdge
  <2>4. CASE IsLoad(bus.writedataint)
    <3>1. r32_o_2' = r32_o_1
      BY <2>1, <2>3, <2>4 DEF IsLoad, LatchFresh
    <3>2. edges > 0 /\ ~IsMult(bus.writedataint)
      BY <1>1, <1>3, <2>4 DEF IsLoad, IsMult
    <3> QED BY <2>4, <3>1, <3>2 DEF Executed
  <2>5. CASE IsMult(bus.writedataint)
    <3>1. r32_o_2' = MultSlice(r32_o_1, r32_o_2)
      BY <2>1, <2>3, <2>5 DEF IsMult, LatchFresh
    <3>2. base \in Word
      BY DEF MTypeOK
    <3>3. Multiplied(r32_o_1, base)[0] = base
          /\ Multiplied(r32_o_1, base)[edges - 1 + 1] =
               MultSlice(r32_o_1, Multiplied(r32_o_1, base)[edges - 1])
      BY <1>1, <2>1, <3>2, MultipliedStep
    <3>4. ~IsLoad(bus.writedataint)
      BY <2>5 DEF IsLoad, IsMult
    <3>5. r32_o_2 = Multiplied(r32_o_1, base)[edges - 1]
      BY <1>1, <2>1, <2>2, <2>5, <3>3, <3>4 DEF Executed
    <3>6. edges - 1 + 1 = edges /\ edges > 0
      BY <1>1, <1>3
    <3>7. r32_o_2' = Multiplied(r32_o_1, base)[edges]
      BY <3>1, <3>3, <3>5, <3>6
    <3> QED BY <2>5, <3>4, <3>6, <3>7 DEF Executed
  <2>6. CASE ~IsLoad(bus.writedataint) /\ ~IsMult(bus.writedataint)
    <3>1. ~WriteEnable2(r32_o_0)
      BY <2>1, <2>6 DEF IsLoad, IsMult
    <3> QED BY <2>2, <2>3, <2>6, <3>1 DEF Executed
  <2> QED BY <2>4, <2>5, <2>6
<1> QED BY <1>2, <1>3

\* ExecutedHeldMinusOne, proved: during the write of a command, however long,
\* the accumulator is what the command makes of its value at the start when
\* it is executed once for each edge but the first.
THEOREM ExecutedHeldMinusOneCorrect == MSpec => []ExecutedHeldMinusOne
<1>1. MInit => ExecutedHeldMinusOne
  BY DEF MInit, ExecutedHeldMinusOne
<1>2. IInv /\ MTypeOK /\ LatchFresh /\ ExecutedHeldMinusOne /\ [MNext]_mvars
        => ExecutedHeldMinusOne'
  <2> SUFFICES ASSUME IInv, MTypeOK, LatchFresh, ExecutedHeldMinusOne,
                      [MNext]_mvars, phase' = "write", bus'.regselect = 0
               PROVE  r32_o_2' = Executed(bus'.writedataint, r32_o_1', base',
                                   IF edges' = 0 THEN 0 ELSE edges' - 1)
    BY DEF ExecutedHeldMinusOne
  <2>1. ASSUME NEW n \in 0 .. 3, NEW w \in Offered, BeginWrite(n, w)
        PROVE  r32_o_2' = base' /\ edges' = 0
    BY <2>1 DEF BeginWrite, Begin, Drive
  <2>2. CASE Tick
    <3>1. /\ phase = "write" /\ bus' = bus /\ base' = base
          /\ edges' = edges + 1 /\ edges \in Nat /\ ~bus.reset
      BY <2>2 DEF Tick, ClockEdge, IInv, MasterInv
    <3>2. r32_o_1' = r32_o_1
      BY <2>2, <3>1 DEF Tick, ClockEdge, WriteEnable
    <3>3. edges' # 0 /\ edges' - 1 = edges
      BY <3>1
    <3>4. TypeOK
      BY DEF MTypeOK
    <3>5. r32_o_2' = Executed(bus.writedataint, r32_o_1, base, edges)
      BY <2>2, <3>1, <3>4, TickExecutes
    <3> QED BY <3>1, <3>2, <3>3, <3>5
  <2>3. CASE UNCHANGED mvars
    BY <2>3 DEF mvars, cvars, ExecutedHeldMinusOne
  <2> QED BY <2>1, <2>2, <2>3 DEF MNext, BeginRead, Begin, End, AssertReset,
                                  ReleaseReset, Executed
<1> QED BY <1>1, <1>2, MasterInvariant, MasterTypeCorrect, MasterImplementsCalc,
           LatchFreshCorrect, PTL DEF MSpec
=============================================================================
