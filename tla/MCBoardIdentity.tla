--------------------------- MODULE MCBoardIdentity ---------------------------
(* Four chips for BoardIdentity: blocks of one size, small blocks at the   *)
(* top, small blocks at the bottom, and one whose table does not add up.   *)
EXTENDS BoardIdentity

Blocks(n, s) == [blocks |-> n, size |-> s]

MCChips ==
  {[regs |-> <<Blocks(4, 256)>>, alg |-> "intel", boot |-> 0,
    smallAtTop |-> FALSE, size |-> 1024],
   [regs |-> <<Blocks(2, 256), Blocks(1, 512)>>, alg |-> "amd", boot |-> 3,
    smallAtTop |-> TRUE, size |-> 1024],
   [regs |-> <<Blocks(2, 256), Blocks(1, 512)>>, alg |-> "amd", boot |-> 2,
    smallAtTop |-> FALSE, size |-> 1024],
   [regs |-> <<Blocks(3, 256)>>, alg |-> "amd", boot |-> 2,
    smallAtTop |-> FALSE, size |-> 1024]}

MCFactory == [j \in MacBytes |-> 100 + j]

=============================================================================
