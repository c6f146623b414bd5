------------------------------ MODULE CfiFlash ------------------------------
(***************************************************************************)
(* What the common flash interface driver of the board support package     *)
(* (altera_avalon_cfi_flash*.c) makes of the table a flash chip reports,   *)
(* and which erase block a write reaches.                                  *)
(*                                                                         *)
(* A chip is a record: its answer to the query, regs, is the sequence of   *)
(* its erase regions in the order of the table, each a number of blocks    *)
(* and a block size; alg is the command set, boot the boot sector code and *)
(* size the size the chip states.  A chip of the AMD command set reports   *)
(* its small blocks first, wherever they are.                              *)
(***************************************************************************)
EXTENDS Integers, Sequences, SequencesExt

MaxRegions == 8
TopBoot == 3

RegionSize(r) == r.blocks * r.size

\* The mutant takes the table's order for that of the addresses.
OrderedAsReported(chip) == chip.regs
\* alt_read_cfi_table: a part with its small sectors at the top has its
\* regions turned round.
Ordered(chip) ==
  IF chip.alg = "amd" /\ chip.boot = TopBoot THEN Reverse(chip.regs)
                                             ELSE chip.regs

\* The offset of the n-th of the regions rs.
Offset(rs, n) ==
  LET sum[m \in 0 .. Len(rs)] ==
        IF m = 0 THEN 0 ELSE sum[m - 1] + RegionSize(rs[m])
  IN  sum[n - 1]

TableError(chip) ==
  \/ Len(chip.regs) > MaxRegions
  \/ Offset(chip.regs, Len(chip.regs) + 1) # chip.size
  \/ chip.alg \notin {"amd", "intel"}

\* region_info: empty when the device was not registered.
Regions(chip) ==
  LET rs == Ordered(chip)
  IN  IF TableError(chip) THEN <<>>
      ELSE [n \in DOMAIN rs |-> [blocks |-> rs[n].blocks, size |-> rs[n].size,
                                 offset |-> Offset(rs, n)]]

\* FindLastFlashSectorOffset: the last block of the region that starts
\* highest; -1 stands for its error.
LastSectorOffset(regions) ==
  IF regions = <<>> THEN -1
  ELSE LET last == CHOOSE n \in DOMAIN regions :
                     \A m \in DOMAIN regions :
                        regions[m].offset <= regions[n].offset
       IN  regions[last].offset + (regions[last].blocks - 1) * regions[last].size

BlocksOf(regions) ==
  UNION {{[start |-> r.offset + j * r.size, size |-> r.size] :
             j \in 0 .. r.blocks - 1} : r \in ToSet(regions)}

\* alt_flash_cfi_write: the blocks that length bytes from offset on reach.
BlocksWritten(regions, offset, length) ==
  {b \in BlocksOf(regions) :
      offset < b.start + b.size /\ b.start < offset + length}

-----------------------------------------------------------------------------
(* The chip itself: its sectors in the order of their addresses.           *)

PhysicalRegions(chip) ==
  IF chip.alg = "amd" /\ chip.smallAtTop THEN Reverse(chip.regs) ELSE chip.regs

Sectors(chip) ==
  LET rs == PhysicalRegions(chip)
  IN  BlocksOf([n \in DOMAIN rs |->
                  [blocks |-> rs[n].blocks, size |-> rs[n].size,
                   offset |-> Offset(rs, n)]])

LastSector(chip) ==
  CHOOSE s \in Sectors(chip) : \A t \in Sectors(chip) : t.start <= s.start

\* An erase command with an address in a sector erases that sector.
SectorAt(chip, address) ==
  CHOOSE s \in Sectors(chip) : s.start <= address /\ address < s.start + s.size

=============================================================================
