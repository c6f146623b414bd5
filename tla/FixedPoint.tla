---------------------------- MODULE FixedPoint ----------------------------
(***************************************************************************)
(* The number format of the quaternion coprocessor: a bus word is a two's  *)
(* complement fixed-point number, sfixed(1 downto -30) in fpga/quat.  The  *)
(* number of words is a parameter (2^32 in the hardware); a word is        *)
(* identified with the unsigned integer its bits denote.                   *)
(***************************************************************************)
EXTENDS Integers

CONSTANT WordCount   \* how many values a word has; 1.0 is WordCount \div 4

ASSUME WordCountAssumption == WordCount \in Nat /\ WordCount >= 4

Word == 0 .. WordCount - 1

AllOnes == WordCount - 1     \* x"ffffffff"

\* The value of a word, in units of its last bit.
Signed(w) == IF w < WordCount \div 2 THEN w ELSE w - WordCount

(***************************************************************************)
(* calc.vhd multiplies two sfixed(1 downto -30) words: the operator "*" of *)
(* fixed_pkg returns sfixed(3 downto -60).  The result is assigned to mult *)
(* : sfixed(1 downto -62), which copies it position by position, and the   *)
(* accumulator takes mult(1 downto -30), the upper half.  So the word      *)
(* stored is the double-length product divided by WordCount, rounded down. *)
(* (Mutant: a slice that keeps the bits above the format.)                 *)
(***************************************************************************)
WideSlice(a, b) == (Signed(a) * Signed(b)) \div WordCount
MultSlice(a, b) == ((Signed(a) * Signed(b)) \div WordCount) % WordCount
===========================================================================
