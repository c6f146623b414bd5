# fpga-quaternions: a verification development in TLA+

The repository builds a quaternion calculator: a PC program (`server/test.py`)
reads gyroscope samples and sends them over TCP to an Altera DE2 board, where a
Nios II program (`fpga/software/server1`) under MicroC/OS-II and the InterNiche
stack passes them to a coprocessor written in VHDL (`fpga/quat`) on the Avalon
bus, reads a result back and returns it. This directory holds TLA+ models of
those parts, TLC runs on small instances, and theorems checked by TLAPS.

Contents: 1 the system; 2 the modules; 3 the runs; 4 bounds; 5 fairness;
6 the proofs; 7 disagreements found; 8 limits; 9 the plan.

## 1. The system

| part | state it keeps | operations | talks to |
|---|---|---|---|
| feeder, `server/test.py` | socket, position in its endless loop | listen, accept, send; a receive nobody reaches | board, over TCP |
| application task, `iniche_init.c` `SSSInitialTask` | socket, `buffer`, `quaternion` | connect, 3 recv, 8 `IOWR`, 4 `IORD`, send, for ever | feeder, coprocessor |
| coprocessor, `quat/calc.vhd`, `reg32_*.vhd` | command, operand, accumulator, an inferred latch | Load, Mult, Read, write of the operand | bus |
| bus: `calc_tb.vhd`, Qsys slave translator | registered read data, wait-state counter | a write, a read, reset | coprocessor, CPU |
| Ethernet driver, `dm9000a.c` | the chip's selected register, mask, status, memory; packet buffers | interrupt handler, `TransmitPacket`, reset | stack, chip |
| socket server, `simple_socket_server.c`, `led.c` (dormant) | connection, receive buffer, command queue, semaphore, event flags | accept, receive, execute, toggle, light show on/off | clients; three tasks among themselves |
| board identity, `network_utilities.c` | last flash sector | read or generate the MAC address, ask for a serial number | flash, console |
| flash driver, `altera_avalon_cfi_flash*.c` | table of erase regions; the chip | read the table, erase a block, program words | board identity |
| kernel, MicroC/OS-II (`os_core.c`, `os_time.c`, `os_task.c`, `os_sem.c`, `os_q.c`) | ready table, current task, lock nesting, control blocks, wait lists, counts, rings | schedule, tick, delay, suspend, pend, post, accept, abort, flush | every task; interrupts |
| blocking of sockets, InterNiche (`osportco.c`, `tk_crnos.c`, `socket*.c`, `netmain.c`) | stack lock, table of sleeping tasks, queue of packets | lock, sleep, wake up, demultiplex | kernel, driver, application |
| data preparation, `test.py` `parse`, `norm` | none | pure functions | feeder |
| number conversions, `iniche_init.c` | none | pure functions, called by nothing | none |
| `vhdl/web_interface`, `fpga/fpu` (superseded) | three registers; FPU pipeline | register writes, reads of the result | bus |

What is hard in it, and therefore what the properties are about:

* **Hardware time.** `reg32_clr` clears the command asynchronously while
  everything else moves at a clock edge, and `calc.vhd` infers a latch. Whether a
  command acts, and how often, depends on how long the bus holds it.
* **A shared index register.** Each DM9000A register access is two bus accesses;
  the interrupt handler may come in between and selects registers of its own.
* **Two programs that only send** (the feeder) or send as much as they receive
  (the board), over a connection of bounded capacity, with error paths that are
  partly ignored.
* **Three tasks with fixed priorities** that share a queue and a semaphore used
  as an on/off switch.
* **Services of many critical sections.** A kernel service ends its critical
  section before it calls `OS_Sched`; a task whose timeout has run out is still in
  the wait list until it runs; a delay may be asked for under the scheduler lock.
  Interrupts and posts come in between.
* **A table that is cleared without its lock.** `tcp_sleep` gives its slot free
  after a timeout while another task may already own it, and a count left over
  in the slot's semaphore belongs to nobody in particular.
* **A flash sector erased and written in place**, with the signature in front and
  results nobody looks at, in a board that can be switched off at any moment.

The hazards, each with the line where it bites and the properties that cover it,
are listed in `PROJECT.json`.

## 2. The modules

| module | models | composed of |
|---|---|---|
| `FixedPoint` | words, their signed value, the product slice of `calc.vhd` | |
| `QuatDevice` | what the coprocessor promises (abstract specification) | `FixedPoint` |
| `Calc` | the coprocessor as synthesised, under any bus behaviour | `FixedPoint`; `Device == INSTANCE QuatDevice WITH ...` |
| `CalcMaster` | whole transfers: test bench and Avalon translator | `Calc` |
| `QuatLink` | feeder, connection, application task | |
| `Dm9000a` | interrupt handler, transmitter, chip, packet buffers | |
| `SimpleSocketServer` | clients, server, LED and light show tasks, scheduler | |
| `CfiFlash` | the flash driver's table and the blocks a write reaches | |
| `BoardIdentity` | boots: signature, serial number, store, power cuts | `CfiFlash` |
| `Ucos` | tasks, scheduler, time, suspension, wait lists | |
| `UcosSem` | semaphores | `Ucos` |
| `MsgQueue` | what a message queue promises (abstract specification) | |
| `UcosQ` | queues, and the whole kernel under tasks and interrupts | `UcosSem`; `ImplementsMsgQueue == INSTANCE MsgQueue WITH ...` |
| `TcpSleep` | clients in `recv`, network task, stack lock, sleep table | `UcosSem` |
| `MCCalcMaster`, `MCBoardIdentity`, `MCUcos`, `MCTcpSleep` | constants for TLC | |
| `CalcProofs` (with those of `CalcMaster`), `QuatLinkProofs`, `Dm9000aProofs`, `SimpleSocketServerProofs`, `BoardIdentityProofs`, `UcosCoreProofs`, `UcosQProofs`, `TcpSleepProofs` | theorems | |

**Calc.** `bus` is what the master drives. `r32_o_0/1/2` are the registers of
`calc.vhd` under their names there, `writedata_2` is the latch of lines 96-102.
`ClockEdge` is a rising edge: all registers sample the old values at once.
`Drive(b)` changes the bus between edges and lets the asynchronous clears and the
latch settle. A master that moves its signals with the clock alternates the two;
the test bench does not, so they are free to interleave. A word is the unsigned
integer of its bits; `WordCount` is 2^32 in hardware. `MultSlice` is what the
assignment of an `sfixed(3 downto -60)` product to `mult : sfixed(1 downto -62)`
and the slice `mult(1 downto -30)` amount to: the upper half of the product. So
0.5 * 0.5 gives 0.0625, the value `relatorio/main.tex` records as the real case.

**QuatDevice** has no clock, command register or latch. `Calc` implements it
with the operand register for `operand` and `r32_o_2` for `accumulator`: every edge
is one operation of the device or none.

**CalcMaster** adds one transfer at a time: `BeginWrite`/`BeginRead`, `Tick` (an
edge, which also registers read data in the translator,
`altera_merlin_slave_translator.sv`), `End`, and system reset at any moment.
`quat_hw.tcl:72-89` (write wait 0, hold 0, read wait 1) gives
`MinHold = MaxHold = 1`, `ReadHold = 2`; the 100, 33 and 20 ns writes of
`calc_tb.vhd` on a 20 ns clock give 1 to 5 edges.

**QuatLink** counts units of data on the way in each direction. The board's
socket calls are one action each, with the outcomes the InterNiche stack has:
data, 0 at end of file, -1 after a reset; `send` takes its whole argument when
there is any room and blocks when there is none. The three receives differ in
what they do with errors, as in the code. A feeder that ends is closed by its
kernel with FIN or RST. `test.py` as committed contains merge-conflict markers
(lines 84-89); the model is of either side, which differ only after an accept
that failed.

**Dm9000a** has one action per register access of `TransmitPacket` (`TxSelect`
selects, `TxAccess` acts on whatever is selected) and one per stage of
`dm9000a_isr`, which runs with interrupts off. The tables `Register` and `After`
are lines 134-170. What a packet holds is left out.

**SimpleSocketServer** has the three tasks with the priorities of
`simple_socket_server.h:94-97` as guards: `ServerRuns` and `ShowRuns` hold when
no higher task is ready. A task that is ready and changes nothing (a `recv` that
keeps returning 0) still keeps the lower ones out; that is why `ServerReady` is
a predicate of its own. `iniche_init.c:166-172` has the creation of these tasks
commented out, so this is the behaviour of the code once it is switched on.
"0" stands for the eight LED commands, which differ only in the bit they toggle.

**BoardIdentity** is one boot after another of `get_mac_addr`: `Find` (the last
sector), `Check` (the signature), `PressKey` (one key of the serial number, with
the index arithmetic of the loop and its backspaces), `Erase`, `ProgramWord` (one
word each) and `ReadMac`. `PowerLoss` may come between any two of them and in the
middle of an erasure or a word; what is in `flash` stays. `CfiFlash` turns the
table a chip reports into regions with offsets, as `alt_read_cfi_table` does, and
finds the blocks a write reaches; the chip's sectors are computed on their own, so
that a table read the wrong way round lets the write land elsewhere. `ChipAssumption`
says what a chip is: regions of one block or more, block sizes in the units of 256
bytes that `altera_avalon_cfi_flash_table.c:352-358` reads, and, for the AMD command
set, a boot sector code that tells the truth. Tables that do not add up are allowed.
`typed`, `kept` and `backspaces` are history variables: the keys pressed for a line
other than backspaces, those of them that the backspaces pressed leave, and the number of
backspaces, which only bounds the line.

**Ucos, UcosSem, UcosQ.** An action is one critical section of the kernel. A
task is its priority. `at` says what a task has to do next inside the kernel:
`"sched"`, the `OS_Sched` at the end of a service; `"block"`, the `OS_Sched` in
the middle of a pend; `"wake"`, the rest of the pend. `on` is the event of the
pend (`OSTCBEventPtr`). Only the current task makes these steps, and interrupts
(`Tick`, `ISR`) come between any two of them. `EventTaskRdy` is
`OS_EventTaskRdy`, with the wait list it leaves, for one task or for all;
`Expire` is what the tick and `OSTimeDlyResume` do to a delay. `UcosQ` has
the ring with its two indices and closes the system: any task but the idle task
calls any service. `balance` (of `UcosSem`) and `owed` (of `UcosQ`) are history
variables, kept per semaphore and per queue and message: what posts have added, less
what pends, accepts and flushes have taken. A post adds to `owed` when the service
accepts it, by storing or by handing over; a pend takes from it when it returns the
message (`QWake` for one that slept). A post handed to a task that then reports a
timeout has been added and is never taken.

**MsgQueue** knows sequences and, per task, a box for a message handed over while
it waits, with the queue it came from, and the same account `owed`: `Put` and `Give`
add to it, `Take`, `Open` (a task returns with the message in its box) and `Flush` take
exactly what they remove. `UcosQ` implements it with `Contents`, the ring read from
`OSQOut`, and `Box`, the message in the control block of a task that has been readied
with success and has not returned. Because the account is part of the abstract state, a
message that reaches no box, or a box that is emptied without its message being returned,
is no step of `MsgQueue`.

**TcpSleep** puts the blocking of sockets on `UcosSem`: the tasks of that module
now run programs. `pc` is the place in the program; a step is what the code
does up to and including the first critical section of a kernel call, and `Reschedule` and
`Resume` are the rest of the call. Each client is in `recv` on a socket of its own,
for ever: take the stack's lock, look for data, enter the table of sleepers, give the lock
back, pend on the slot's semaphore for a second, clear the slot after a timeout
(without the lock), take the lock again. The network task takes packets under the lock
and, for a socket somebody waits for, posts every slot with its entry under the
scheduler lock (`tcp_wakeup`). `entry`, `armed` and `mine` are `soc_event`,
`ctick # 0` and the local index of `tcp_sleep`.

## 3. The runs

| run | question | result |
|---|---|---|
| `calc` | The coprocessor under every bus behaviour and under whole transfers of 1 to 5 edges: does a command outlive its write (`CommandOnlyWhileWritten`), can the latch feed a stale word (`LatchFresh`), is it the abstract device (`ImplementsDevice`), is a command held k edges executed k - 1 times (`ExecutedHeldMinusOne`), does only a command still on the bus move the accumulator (`AccumulatorOnlyByCommand`), does a Read show it while written (`ReadWhileWriting`), does every bus read return all ones (`BusReadsAllOnes`)? | holds, 333,426 states |
| `calc_avalon` | Does Load take effect with the one-edge writes of the board? (`LoadTakesEffect`) | violated |
| `link` | Board and feeder come to rest (`LoopComesToRest`), blocked on each other for good (`BlockedTogether`) or because the feeder ended (`FeederEndStopsBoard`) | holds |
| `link_reply` | Is the board's reply ever read? (`ReplyIsRead`) | violated |
| `link_frame` | Is a receive one quaternion? (`RecvIsOneQuaternion`) | violated |
| `dm9k` | Register accesses land where meant, buffers are conserved, the handler's reset spares a transmission, a packet without an interrupt arrived in the clear-after-look window, traffic gets it served, a transmission returns | holds |
| `sss` | Commands take effect exactly once or are dropped only while the LED task waits; a switched-off show writes nothing; the wait for its semaphore ends unless the server spins; a client that leaves without Q takes the server with it | holds |
| `sss_reject` | Is a second connection request rejected? (`RequestRejected`) | violated |
| `identity` | Boots over power cuts and failing flash operations, with four kinds of chip: is only the last sector ever written (`OnlyLastSectorWritten`), is a board that is up in possession of a whole image (`UpMeansWhole`), does an address once read stay (`StableIdentity`), does a write end (`StartedWriteEnds`)? | holds |
| `serial_backspace` | Does a backspace take back the key before it? (`BackspaceTakesBack`) | violated |
| `kernel` | Every service in any order with interrupts between the critical sections: is a task in the ready table exactly when nothing holds it (`ReadyIffRunnable`), does the highest run (`HighestRuns`), is a post ever lost or counted twice (`NoPostLost`), is every accepted message in the ring or on its way home with a task (`NoMessageLost`), do rings and hand-overs behave as queues (`MessagesInOrder`), does a timed wait end (`TimeoutEnds`)? | holds, 240,945 states |
| `tcpsleep` | Two clients and the network task: is one at a time in the stack (`NetExclusive`), is every sleeper within reach of a call (`SleepersCanBeCalled`), is data that came received (`DataReceived`)? | holds, 331,317 states |

Some of the properties that hold are bad news for a user, and are stated because
they are what the code does: `BusReadsAllOnes`, `LoopComesToRest` (the endless
loop always ends up blocked or exited), `AbandonedForGood`, and `StableIdentity`,
which holds of a torn address as well: the signature is programmed first, so a
sector whose address was cut short passes for signed and is never repaired.
`DataReceived` holds although calls are missed, because a sleep
is never longer than a second.

Each property of a passing run has a mutant in `PROJECT.json`: a plausible slip
in the modelled code (a dropped guard, a forgotten case, a swapped order) under
which TLC finds the property violated. The mutated operators stand beside the
real ones, marked "Mutant".

`WaitListSound`, `CountOrWaiters` (kernel), `SleepTypeOK` and `MTypeOK` are proved
(section 6) but no run lists them: each follows from, or is part of the argument
for, a property that a run checks. The same goes for the three safety properties
of `QuatLinkProofs`, which are the safe halves of the liveness properties of `link`,
and for `SignedIsFinal`.

Deadlock checking is off where the system may stop: the link (the application
exits, or both sides block) and the socket server (clients owe it nothing).

## 4. Bounds

* `calc*`: words of six bits, `WordCount = 64`, so 8 is 0.5 and 16 is 1.0, and
  products both lose their low bits and go negative. The words offered are the
  three commands, 0.5 and a negative word, whose low two bits are no command. Data paths are uniform in the width; the theorems
  of `CalcProofs` are for every width and every set of
  offered words. Holds of 1 to 5 edges are those of the test bench. `MCCalcMaster` puts
  two ways to drive the bus side by side, chosen by the initial state: the master of
  `CalcMaster`, and any change of the bus at all between clock edges (`AnyNext`).
* `link*`: messages of 3 units and a buffer of 2 (or 2 and 3), connection of 5 and 7
  units: message and buffer lengths do not divide each other or the capacities,
  so every way to cut the stream and every fill level comes up, in both orders of
  message length and buffer length.
* `dm9k`: 4 packets in the chip, 4 buffers, at most 2 packets (`WindowMax`)
  between the handler's last look and its clearing of the status. The window is a
  few bus accesses long; two packets in it already cover one stranded packet and
  one that follows. The theorems do not depend on the bounds.
* `sss`: one pending request, two characters on the way, a buffer of three, a queue
  of two. A full queue, a full buffer without a line end, and characters behind a
  line end all occur.

* `identity`: four chips (uniform blocks; small blocks at the top, whose table is
  reported the other way round; at the bottom; a table that does not add up), a
  serial number of three keys instead of nine out of two digits, one backspace
  and one other key, bytes programmed one at a time. The address arithmetic does
  not depend on the length; a backspace at every place and a wrong key at every
  place occur. The number of power cuts and boots is not bounded.
* `kernel`: two tasks and the idle task, one semaphore, one queue of two with two
  messages, delays up to two ticks, nesting of the lock up to one, counts up to
  one. So a queue gets full and a semaphore refuses a post, the ring wraps round
  in both directions, two tasks wait for the same event, a timeout is noted
  while the task is still in the wait list, and a tick falls between any two critical
  sections. The theorems are for any number of tasks, events and messages.
* `tcpsleep`: two clients and one slot, so that the table is full; timeouts of one
  tick; counts up to two, so that a post to the driver's and to the slot's
  semaphore is refused. `SleepAssumption` needs a largest count of
  at least the number of clients; it is 65535. The invariants are proved for
  any number of clients and slots.

## 5. Fairness

* `QuatLink`: board and feeder run when not blocked, each being the only busy
  program of its processor; the network delivers; a `send` with room is not
  refused for want of a packet buffer for ever (strong fairness, since refusal
  and success alternate); an unanswered connect fails. Nothing obliges the feeder
  to end.
* `Dm9000a`: the handler goes on once entered; the CPU does not put an interrupt
  off for ever although `TransmitPacket` masks it now and then (strong fairness
  of `IsrMask`); tasks that are interrupted again and again go on in between
  (strong fairness of `Transmit` and `Demux`); the chip completes a transmission,
  which needs a link. `TransmitReturns` is conditional on packets pausing, because
  the handler does not leave the CPU while they come faster than it reads.
* `SimpleSocketServer`: a task that stays the first of the ready ones runs (weak
  fairness); the light show, the lowest, gets the CPU when it is again and again
  the only one ready (strong fairness). Clients are free to do nothing.

* `BoardIdentity`: the program goes on while it has the power; the user need not
  press a key, and the power may go for good.
* `UcosQ`: the system clock keeps ticking. Nothing is assumed of the tasks.
* `TcpSleep`: the system clock ticks, and a task that is ready again and again runs
  and makes its steps. The second is an assumption about load: under fixed
  priorities it holds when the higher tasks leave the CPU between packets, which
  nothing in the code enforces.

`Calc` and `CalcMaster` have no fairness: only safety is claimed of them.

## 6. The proofs

All theorems are for every value of the constants that the named assumptions
allow: `WordCountAssumption` (at least 4 words), `OfferedAssumption` (the offered
values are words), `HoldAssumption`, `LinkAssumption` (lengths and
capacities are positive), `DriverAssumption` (the window is smaller
than the chip's memory), `ServerAssumption` (sizes are positive),
`IdentityAssumption`, `ChipAssumption` (section 2), `KernelAssumption`, `SemAssumption`, `QueueAssumption` and
`SleepAssumption` (the semaphores are the slots', the stack's and the driver's,
the stack's starts at one, counts reach as far as there are clients).

* **CalcProofs.** `TypeCorrect` needs that the slice of any two words is a word
  (`MultSliceIsWord`). `CommandOnlyWhileWrittenCorrect` is inductive as it stands:
  `Drive` re-evaluates the clear on the new bus. `LatchFreshCorrect` rests on
  the latch being recomputed after every step: when the enable bit is set it is
  transparent, so what it shows is a function of the current registers.
  `ImplementsDeviceCorrect` is the refinement: `Init` maps to the device's `Init`
  and each `Drive` or `ClockEdge` to one device operation or a stutter; the case of an
  edge that both writes the operand and executes a command is excluded by
  `CommandOnlyWhileWritten`, since one bus address is written at a time.
* **CalcProofs, the master.** `IInv` is the conjunction of `MasterInv` (what phase and
  bus have to do with each other), `CommandInv` (what the command register holds
  after how many edges) and `TransferInv` (the accumulator and the read data
  relative to the start of the transfer). It is needed because none of
  the properties is inductive: that a bus read returns all ones follows from
  write enable being off during a read, which clears the command.
  `OneEdgeNeverExecutes` is the general form of the `calc_avalon` run: with
  `MaxHold <= 1` the accumulator is zero for ever.
  `MasterImplementsCalc`: a master that makes one transfer at a time is one of the
  arbitrary masters of `Calc`, so the theorems of `Calc` hold of it; `MasterTypeCorrect` is
  drawn from that. `ExecutedHeldMinusOneCorrect` compares the accumulator during a
  write with `Executed`, which executes the command k - 1 times. For Mult that is the
  recursive function `Multiplied`; `MultipliedStep` proves that the function
  exists and takes its steps, by induction (`SetInduction`, from the well-foundedness of
  `<`), and `TickExecutes` that an edge of the bus adds one execution.
* **QuatLinkProofs.** `LinkInv` adds to the types how a connection ends: nothing
  is torn down before the feeder has ended, and the board's socket is reset only by
  a reset that was sent. From it follow `LinkTypes`; `BoardExitsAlone` (the loop never
  ends while there is a connection); `NobodyReads` (what the board sends only piles
  up); and `BlockedForGood` (a board blocked in `send`, and the feeder with it, stay
  so until the feeder's process ends). These say that the outcome `link` finds for small capacities,
  once reached, is final for all; that it is reached rests on fairness.
* **Dm9000aProofs.** `IInv` adds to the properties where the mask stands at each
  step of `TransmitPacket`: from `length` to `unmask` receive interrupts
  are masked, so the handler is off, so the register just selected is still
  selected. It is proved in three lemmas, for the steps of the chip, of the handler and of
  the tasks, and yields the five invariants of the run.
* **SimpleSocketServerProofs.** `OffMeansNoPatternCorrect`: the semaphore count,
  the show's possession and the switch add up to one. The strengthening is that
  `LEDManagementTask` waits only while the show is on.
  `DroppedOnlyWhileWaitingCorrect`: a full queue keeps the LED task ready, which
  keeps the server out, unless that task waits for the semaphore; it needs that
  the server's buffer is a sequence, so that taking a character changes it.
  `CommandsTakeEffectCorrect`: the LEDs and the show stand as the posted commands say.
  `CountAppend` and `CountTail` say how the number of commands of one kind in the
  queue changes, and each step moves one unit of parity between
  what was posted, what is queued and what has been done.
  `AbandonedForGoodCorrect` needs no invariant but the types: at end of file `recv`
  takes nothing, and only the server itself could leave its loop.

* **BoardIdentityProofs.** `IdentityIsStable`: once an address has been read from a
  signed sector, the sector holds it and `pc` never gets to the keys, hence never
  to an erasure; the offset the program looks at is always the last sector's.
  `ImageInLastSector` is about the driver's table alone: for any number of regions and
  both orders, the search ends at the chip's last sector, an image fits into it and the
  write reaches no other. It rests on the offsets being running sums
  (`OffsetStep`, which proves that the recursive function exists, by `SetInduction`)
  that grow from region to region (`OffsetsInOrder`, `LastBlockIsLast`).
  `OtherSectorsKept`, `IdentityTypes` and `UpIsWhole` are parts of one invariant, `BoardInv`. None is
  inductive alone: the offset used must be the sector's (`TargetInv`), a number is only
  stored when there is a flash (`BootInv`), and of an image half written the words so
  far must be there, and none outside it (`WholeInv`); a step at `pc = "program"`
  extends that by one word (`WordStep`). `SerialIsWhatWasTyped` says what the
  code makes of backspaces, the general form of what `serial_backspace` finds: the index
  counts the keys typed that are not backspaces, and the array holds them up to there
  (`LineInv`), so none of them is taken back.
  `SignedStays`: a number is only asked for when there is no signature
  (`AskedUnsigned`), so a sector that has one, torn or whole, is final.
* **UcosCoreProofs.** Lemmas about the critical sections of `Ucos` that both
  compositions use. `CoreInv` is `CoreTypeOK`, `ReadyIffRunnable`, `HighestRuns` and
  `PendingSound`: what `at`, `on`, `stat` and the wait lists have to do with each
  other while a pend is under way. The priority rule needs it, because it says which
  task may be in the middle of a pend while the scheduler is locked (none).
  The module also has the lemmas that say how each critical section moves
  `Granted`, the tasks that have been handed a count and have not returned.
* **UcosQProofs.** `KernelInvariant` adds the counts and the rings (`RingSound`: the
  two indices are `OSQEntries` apart) and gives `KernelTypes`, `KernelReady`,
  `KernelPriority`, `KernelPosts` and `KernelWaitLists`. `KernelCounts` adds that only a
  task that found no count blocks, and that a count is only added where nobody waits.
  In `KernelPosts` a hand-over moves one
  unit from the post into `Granted` and the return of the pend takes it out.
  `KernelQueues` is the refinement of `MsgQueue`: each action maps to a step of
  it or to a stutter; a flush and a pend map to `Flush` and `Take`, the hand-over to
  `Give`, which needs that nobody waits at a queue with messages, and the return of a
  pend to `Open`. The account `owed` makes the steps of the two agree on what was lost: a
  hand-over must fill the boxes of as many tasks as it adds, so `OS_EventTaskRdy` must
  turn a timeout noted before into a success. `KernelMessages` draws the
  balance from that refinement (`Settled` for one queue and message, `SettledStep`): each
  step of `MsgQueue` changes `owed` as it changes ring and boxes together.
* **TcpSleepProofs.** `Inv` is `CoreInv`, the types, `NetCount` (the stack's count,
  those it has been handed to and those inside add up to one), `Places`
  (which task is at which place, and which semaphore it pends on there) and
  `Covered` for each slot: its sleepers and clearers are at most its count plus
  one for its entry. `StackExclusive` follows from `NetCount`,
  `NobodySleepsUncalled` is `Covered`. Two points need care: a post that is refused
  takes the entry and adds no count, and is harmless only because a count as large as
  the number of clients covers all of them; and a task that
  clears its slot after a timeout may clear the entry of another, but then the
  slot's semaphore has a count left over, which wakes that one.

Model-checked only: the liveness properties (`LoopComesToRest`, `BlockedTogether`,
`FeederEndStopsBoard`, `ServedWhileTraffic`, `TransmitReturns`,
`WaitEndsUnlessServerSpins`, `StartedWriteEnds`, `TimeoutEnds`, `DataReceived`), which
rest on fairness or `ENABLED`, out of the prover's reach. Every invariant and every
action property that a passing run checks is a theorem, and so are both refinements of an
abstract specification. Of recursive definitions only those are reasoned about that a
theorem needs, by induction over a set of numbers; the decimal value of a serial
number stays what its definition says.

## 7. Disagreements between code and text

Five runs find the code to do other than a comment or the report says; the
quotations are in `PROJECT.json`.

* `calc_avalon`: the documented Load command never acts on the board, because
  the command must outlast one edge and the bus holds it for exactly one.
* `link_reply`: the report's receive comes after an endless loop.
* `link_frame`: "first" and "second quaternion" are whatever the stream holds.
* `sss_reject`: the request that is said to be rejected by closing its socket is left
  in the stack's queue, and starves the client being served.
* `serial_backspace`: a backspace in the serial number ("Handle backspaces.  How
  civilized.") decrements an index that the loop increments again. It is ignored: the key
  it was to take back stays, and the line is complete a key early.

## 8. Limits

Not modelled: the simulator's view of `calc.vhd`, whose process has an incomplete
sensitivity list (line 78), so that a Mult held for 33 ns is executed in
simulation and dropped in hardware; the indeterminate words the
application writes (`iniche_init.c:217-230`; the coprocessor is modelled for
every word) and its out-of-bounds stores (235-238); bytes and the one-past-the-end
terminator of the socket server's buffer (`simple_socket_server.c:367`); error
handlers that stop the operating system; chip initialisation and `dm9ka_close`;
a network that falls silent without an error.

`BoardIdentity`: an erase block is its first 32 bytes and the network settings are
one value; the driver's width detection, bus commands, unaligned ends and the
Intel variant's sequences are left out. An operation that fails leaves any of a few
contents, and its result is ignored as in the code; a chip left in its status mode
may answer the read that follows with something else (`ChipStuck`).

The kernel: creation and deletion at run time, `OSTaskChangePrio`, `OSTaskDel`,
pends on several events, `OS_POST_OPT_NO_SCHED`, nested interrupts and
`OSSchedUnlock` from an interrupt, and mutexes, mailboxes, flags, memory partitions
and timers.

`TcpSleep`: `SB_LOCK` and a socket used by two tasks (whose `SB_WAIT` the first to wake
clears for both); the waits in `accept`, `connect`, `send` and `select`, which go
through the same calls; TCP itself, which only decides when data arrives.
The application's one task and the network task are covered by one client.

The rest of the vendored and generated code (the protocols and demonstration
services of InterNiche, HAL, Quartus output, IEEE packages, Terasic cores, the
third-party FPU) appears only as what its callers see of it. It is most of the
lines of the repository and almost none of its logic: it is configured in, and the
application never calls the greater part. In `PROJECT.json` each part is listed
with its reason.

## 9. The plan

1. `WebInterface`: register file and read multiplexer over an abstract FPU that
   works only when started, which this design never does; refinement of a plain
   register file; proofs.
2. `QuatSystem`: `QuatLink`'s loop driving `CalcMaster`, for what a reply can
   depend on end to end.
3. `CalcSim`: `calc.vhd` with the simulator's event semantics, compared with
   `Calc`.
4. `Conversions`, `Normalise`: `half_to_float`, `float_to_half` and `norm` as
   operators against reference definitions.
5. `LineBuffer`: the socket server's receive buffer byte for byte, implementing
   the sequence in `SimpleSocketServer`.
6. Proofs: the driver's transmit path as an implementation of an abstract port, and
   a measure that falls in the loops of the flash driver, for the safe half of
   `StartedWriteEnds`.
7. More of the software below the application, in the order of what it
   could break: a socket shared by two tasks with `SB_LOCK`, the ARP cache with its
   pending packets, the DHCP client with its timers, `os_mutex.c`.
