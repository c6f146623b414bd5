---------------------------- MODULE BoardIdentity ----------------------------
(***************************************************************************)
(* Where the board's Ethernet address comes from: get_mac_addr of          *)
(* fpga/software/server1/network_utilities.c, called once per boot, with   *)
(* the flash driver underneath.  The last sector of the flash holds a      *)
(* signature and the address; when the signature is missing the user is    *)
(* asked for the serial number printed on the board and the sector is      *)
(* erased and programmed.  When the flash cannot be used at all the user   *)
(* is asked at every boot and nothing is stored.                           *)
(*                                                                         *)
(* The power may go at any moment, an erasure and the programming of a     *)
(* word may fail.  What is in the flash stays, everything else is lost.    *)
(* An erase block is represented by its first 32 bytes; the network        *)
(* settings among them, which nothing reads back, by one value.            *)
(***************************************************************************)
EXTENDS CfiFlash

CONSTANTS
  Chips,          \* the flash chips a board may carry
  Factory,        \* the address in a sector that was signed elsewhere
  Width,          \* mode_width: bytes the chip programs at a time
  SerialLen,      \* 9: keys read for a serial number
  Digits,         \* the digits the user presses
  MaxBackspaces   \* bound on the backspaces in one line

ImageLen == 32
Bytes == 0 .. ImageLen - 1
MacBytes == 4 .. 9
Blank == 255
Junk == 256       \* a byte left half erased or half programmed
Settings == 257   \* a byte of the network settings
Cell == 0 .. 257

Backspace == 10
OtherKey == 11
Key == Digits \cup {Backspace, OtherKey}

ASSUME IdentityAssumption ==
  /\ Width \in {1, 2, 4}
  /\ SerialLen \in Nat \ {0}
  /\ Digits \subseteq 0 .. 9
  /\ MaxBackspaces \in Nat
  /\ Factory \in [MacBytes -> 0 .. 255]

\* What the chips are like.  A region has one block or more and the driver
\* reads block sizes in units of 256 bytes; the size stated is a power of
\* two; and a chip of the AMD command set does say where its small blocks
\* are.  Nothing else is assumed of the table: it may not add up.
Region == [blocks : Nat \ {0}, size : {n \in Nat \ {0} : n % 256 = 0}]

ASSUME ChipAssumption ==
  \A c \in Chips :
    /\ c.regs \in Seq(Region)
    /\ c.size \in Nat \ {0}
    /\ c.alg = "amd" => (c.smallAtTop <=> c.boot = TopBoot)

Signature == [i \in 0 .. 3 |-> IF i = 0 THEN 254 ELSE IF i = 1 THEN 90 ELSE 0]

Signed(content) == \A i \in 0 .. 3 : content[i] = Signature[i]
MacOf(content) == [i \in MacBytes |-> content[i]]

\* The address made of a serial number: Altera's vendor code, 0xFF and the
\* low 16 bits.
MacFrom(n) ==
  [i \in MacBytes |-> CASE i = 4 -> 0
                        [] i = 5 -> 7
                        [] i = 6 -> 237
                        [] i = 7 -> 255
                        [] i = 8 -> (n \div 256) % 256
                        [] i = 9 -> n % 256]

Image(m) == [i \in Bytes |-> CASE i < 4 -> Signature[i]
                               [] i \in MacBytes -> m[i]
                               [] OTHER -> Settings]

Erased == [i \in Bytes |-> Blank]
Foreign == [i \in Bytes |-> 0]       \* what some other program stored
NoMac == [i \in MacBytes |-> Junk]

Decimal(keys) ==
  LET value[n \in 0 .. Len(keys)] ==
        IF n = 0 THEN 0 ELSE 10 * value[n - 1] + keys[n]
  IN  value[Len(keys)]
AllDigits(keys) == ToSet(keys) \subseteq 0 .. 9

\* get_serial_number's conversion: 0, which asks again, unless every key is
\* a digit.
Convert(keys) == IF AllDigits(keys) THEN Decimal(keys) ELSE 0

VARIABLES
  chip, flash,    \* flash: what the erase block at an offset begins with
  pc,
  offset,         \* last_flash_sector_offset
  line, i,        \* serial_number[] and the index into it
  store,          \* the number asked for is to be stored, not only used
  serial,         \* ser_num
  k,              \* bytes programmed
  mac,            \* mac_addr
  typed,          \* history: the keys pressed for this line, backspaces apart
  kept,           \* history: those of them no backspace was to take back
  backspaces,     \* history: how many backspaces were pressed for this line
  hurt,           \* history: the last erasure or programming was cut short
  identity        \* history: the address last read from a signed sector

ram == <<offset, line, i, store, serial, k, mac, typed, kept,
         backspaces>>
vars == <<chip, flash, pc, ram, hurt, identity>>

Target == LastSectorOffset(Regions(chip))
Starts(c) == {s.start : s \in Sectors(c)}

TypeOK ==
  /\ chip \in Chips
  /\ flash \in [Starts(chip) -> [Bytes -> Cell]]
  /\ pc \in {"off", "find", "check", "keys", "erase", "program", "read", "up"}
  /\ offset \in {0, Target}
  /\ line \in [0 .. SerialLen - 1 -> Key] /\ i \in 0 .. SerialLen - 1
  /\ {typed, kept} \subseteq Seq(Key \ {Backspace})
  /\ backspaces \in 0 .. MaxBackspaces
  /\ {store, hurt} \subseteq BOOLEAN
  /\ serial \in Nat /\ k \in 0 .. ImageLen
  /\ {mac, identity} \subseteq [MacBytes -> Cell]

ResetRam ==
  /\ offset' = 0 /\ line' = [j \in 0 .. SerialLen - 1 |-> OtherKey] /\ i' = 0
  /\ store' = FALSE /\ serial' = 0 /\ k' = 0 /\ mac' = NoMac /\ typed' = <<>>
  /\ kept' = <<>> /\ backspaces' = 0

Init ==
  /\ chip \in Chips
  /\ \E last \in {Erased, Foreign, Image(Factory)} :
        flash = [a \in Starts(chip) |->
                   IF a = LastSector(chip).start THEN last ELSE Foreign]
  /\ pc = "off"
  /\ offset = 0 /\ line = [j \in 0 .. SerialLen - 1 |-> OtherKey] /\ i = 0
  /\ store = FALSE /\ serial = 0 /\ k = 0 /\ mac = NoMac /\ typed = <<>>
  /\ kept = <<>> /\ backspaces = 0 /\ hurt = FALSE /\ identity = NoMac

-----------------------------------------------------------------------------
(* One boot                                                                *)

PowerOn ==
  /\ pc = "off"
  /\ pc' = "find"
  /\ UNCHANGED <<chip, flash, ram, hurt, identity>>

\* FindLastFlashSectorOffset, the device being there or not; without it
\* get_mac_addr falls back on generate_mac_addr.
Find ==
  /\ pc = "find"
  /\ \/ /\ Target # -1
        /\ offset' = Target /\ pc' = "check" /\ store' = TRUE
     \/ /\ Target = -1
        /\ pc' = "keys" /\ store' = FALSE
        /\ UNCHANGED offset
  /\ UNCHANGED <<chip, flash, line, i, serial, k, mac, typed, kept, backspaces,
                 hurt, identity>>

\* The mutant reads the signature in the other byte order.
CheckByteSwapped ==
  /\ pc = "check"
  /\ pc' = "keys"
  /\ UNCHANGED <<chip, flash, ram, hurt, identity>>
\* get_board_mac_addr: the signature decides.
Check ==
  /\ pc = "check"
  /\ pc' = IF Signed(flash[offset]) THEN "read" ELSE "keys"
  /\ UNCHANGED <<chip, flash, ram, hurt, identity>>

\* The mutant goes back one key, as the comment in the code has it, and with
\* it past the first.
StepBack(key) == IF key = Backspace THEN i - 1 ELSE i + 1
\* The for loop of get_serial_number: a backspace is stored as well, but
\* the index comes back to it.
Step(key) == IF key = Backspace THEN i - 1 + 1 ELSE i + 1

\* What a user who presses the key means to be left of the line.
KeptAfter(key) == IF key = Backspace THEN SubSeq(kept, 1, Len(kept) - 1)
                                     ELSE Append(kept, key)

PressKey(key) ==
  /\ pc = "keys"
  /\ key = Backspace => backspaces < MaxBackspaces
  /\ LET cells == [line EXCEPT ![i] = key]
         number == Convert([j \in 1 .. SerialLen |-> cells[j - 1]])
     IN  \/ /\ Step(key) < SerialLen
            /\ line' = cells /\ i' = Step(key)
            /\ typed' = IF key = Backspace THEN typed ELSE Append(typed, key)
            /\ kept' = KeptAfter(key)
            /\ backspaces' = backspaces + (IF key = Backspace THEN 1 ELSE 0)
            /\ UNCHANGED <<pc, serial, mac>>
         \/ /\ Step(key) = SerialLen /\ number = 0
            /\ line' = cells /\ i' = 0
            /\ typed' = <<>> /\ kept' = <<>> /\ backspaces' = 0
            /\ UNCHANGED <<pc, serial, mac>>
         \/ /\ Step(key) = SerialLen /\ number # 0
            /\ line' = cells /\ i' = 0
            /\ typed' = <<>> /\ kept' = <<>> /\ backspaces' = 0
            /\ serial' = number
            /\ \/ store /\ pc' = "erase" /\ UNCHANGED mac
               \/ ~store /\ pc' = "up" /\ mac' = MacFrom(number)
  /\ UNCHANGED <<chip, flash, offset, store, k, hurt, identity>>

\* The sectors the driver erases for the image.
SectorsToErase ==
  {SectorAt(chip, b.start).start :
      b \in BlocksWritten(Regions(chip), offset, ImageLen)}

\* What an erasure that was cut short leaves.
HalfErased(content) == {content, [j \in Bytes |-> Junk], Erased}

\* alt_flash_cfi_write up to the erasure (alt_erase_block_amd).  Its result
\* and that of the programming are ignored.
Erase ==
  /\ pc = "erase"
  /\ k' = 0
  /\ \/ /\ flash' = [a \in DOMAIN flash |->
                       IF a \in SectorsToErase THEN Erased ELSE flash[a]]
        /\ pc' = "program" /\ hurt' = FALSE
     \/ /\ \E s \in SectorsToErase : \E left \in HalfErased(flash[s]) :
             flash' = [flash EXCEPT ![s] = left]
        /\ pc' = "read" /\ hurt' = TRUE
  /\ UNCHANGED <<chip, offset, line, i, store, serial, mac, typed, kept,
                 backspaces, identity>>

\* The erase block that the byte offset + k lies in, with the bytes from
\* there on set to those that chosen gives.
Programmed(chosen) ==
  LET s == SectorAt(chip, offset + k).start
      at == offset + k - s
  IN  [flash EXCEPT ![s] =
         [j \in Bytes |-> IF j \in at .. at + Width - 1 THEN chosen[j - at]
                                                        ELSE @[j]]]

NextWord == [j \in 0 .. Width - 1 |-> Image(MacFrom(serial))[k + j]]
HalfWords == [0 .. Width - 1 -> {Blank, Junk}] \cup {NextWord}

\* The mutants stop a word early, and never advance.
ProgramAllButLast ==
  /\ pc = "program"
  /\ flash' = Programmed(NextWord)
  /\ k' = k + Width
  /\ pc' = IF k' < ImageLen - Width THEN "program" ELSE "read"
  /\ UNCHANGED <<chip, offset, line, i, store, serial, mac, typed, kept,
                 backspaces, hurt, identity>>
ProgramSameWord ==
  /\ pc = "program"
  /\ flash' = Programmed(NextWord)
  /\ UNCHANGED <<chip, pc, ram, hurt, identity>>
\* One turn of alt_flash_program_block's loop (alt_write_word_amd).
ProgramWord ==
  /\ pc = "program"
  /\ \/ /\ flash' = Programmed(NextWord)
        /\ k' = k + Width
        /\ pc' = IF k' < ImageLen THEN "program" ELSE "read"
        /\ UNCHANGED hurt
     \/ /\ \E w \in HalfWords : flash' = Programmed(w)
        /\ pc' = "read" /\ hurt' = TRUE
        /\ UNCHANGED k
  /\ UNCHANGED <<chip, offset, line, i, store, serial, mac, typed, kept,
                 backspaces, identity>>

\* A chip whose operation failed in this boot may still show its status.
ChipStuck == hurt /\ serial # 0

\* The address is taken from the flash, whatever was said of the write.
ReadMac ==
  /\ pc = "read"
  /\ \/ mac' = MacOf(flash[offset])
     \/ ChipStuck /\ mac' = NoMac
  /\ identity' = IF Signed(flash[offset]) /\ mac' # NoMac THEN mac' ELSE identity
  /\ pc' = "up"
  /\ UNCHANGED <<chip, flash, offset, line, i, store, serial, k, typed, kept,
                 backspaces, hurt>>

-----------------------------------------------------------------------------
(* Power                                                                   *)

PowerLoss ==
  /\ pc # "off"
  /\ pc' = "off"
  /\ ResetRam
  /\ \/ /\ pc \notin {"erase", "program"}
        /\ UNCHANGED <<flash, hurt>>
     \/ /\ pc = "erase"
        /\ \E s \in SectorsToErase : \E left \in HalfErased(flash[s]) :
             flash' = [flash EXCEPT ![s] = left]
        /\ hurt' = TRUE
     \/ /\ pc = "program"
        /\ \E w \in HalfWords : flash' = Programmed(w)
        /\ hurt' = TRUE
  /\ UNCHANGED <<chip, identity>>

-----------------------------------------------------------------------------
Program == PowerOn \/ Find \/ Check \/ Erase \/ ProgramWord \/ ReadMac

Next == Program \/ (\E key \in Key : PressKey(key)) \/ PowerLoss

Spec == Init /\ [][Next]_vars /\ WF_vars(Program)

-----------------------------------------------------------------------------
(* Properties                                                              *)

\* The driver's table, the search for the last sector and the write agree:
\* whatever the chip, however often the power fails, only its last erase
\* block is ever erased or programmed (FindLastFlashSectorOffset,
\* alt_read_cfi_table, alt_flash_cfi_write).
OnlyLastSectorWritten ==
  \A a \in Starts(chip) \ {LastSector(chip).start} : flash[a] = Foreign

\* With no power cut and no failure during the last write, the board is up
\* with the address of the serial number entered, and when it has a flash,
\* with a complete image of that address in it (generate_and_store_mac_addr).
UpMeansWhole ==
  pc = "up" /\ ~hurt =>
    /\ serial # 0 => mac = MacFrom(serial)
    /\ Target # -1 => flash[Target] = Image(mac)

\* An address read from a signed sector is the board's for good: no later
\* boot, power cut or failing chip changes it.  (The signature is programmed
\* first, so this holds of a torn address as well: it is never repaired.)
StableIdentity ==
  [][identity # NoMac => /\ identity' = identity
                         /\ pc' = "up" => mac' = identity]_vars

\* "Handle backspaces.  How civilized." (network_utilities.c:122): the number
\* accepted is that of the keys that the backspaces pressed left.  It is not:
\* the loop of get_serial_number undoes the decrement, the key before the
\* backspace stays and the one after it takes the next place.
BackspaceTakesBack ==
  [][pc = "keys" /\ pc' \in {"erase", "up"} =>
       serial' = Decimal(Append(kept, line'[SerialLen - 1]))]_vars

\* A write that was started comes to an end, unless the power goes first: the
\* loops of the flash driver are bounded.
StartedWriteEnds == pc = "erase" ~> pc \in {"up", "off"}

=============================================================================
