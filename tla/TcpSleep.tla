------------------------------ MODULE TcpSleep ------------------------------
(***************************************************************************)
(* How the sockets of the network stack block on the kernel: the lock of   *)
(* the stack (osportco.c), the table of sleeping tasks (tk_crnos.c), recv  *)
(* (soreceive and sbwait) and the network task (netmain.c, ipnet.c), woken *)
(* by the driver's interrupt.                                              *)
(*                                                                         *)
(* Each client task loops in recv on a socket of its own; a socket has the *)
(* name of its task.  A socket's data is either there or not, and the peer *)
(* sends more only when the client has taken it (its window).  The lock of *)
(* the socket buffer (SB_LOCK) is left out: no two tasks share a socket.   *)
(* A step is what a task does up to a call of the kernel, with the first   *)
(* critical section of that call; steps of Ucos do the rest of it.         *)
(***************************************************************************)
EXTENDS UcosSem

CONSTANTS
  Net,          \* resid_semaphore[NET_RESID]
  Rx,           \* rcvdq_sem_ptr
  Slot,         \* the slots of global_TCPwakeup_set and their semaphores
  Tps           \* ticks a second

NetTask == 1
Client == 2 .. Idle - 1

ASSUME SleepAssumption ==
  /\ Sem = Slot \cup {Net, Rx} /\ Net # Rx /\ Slot \cap {Net, Rx} = {}
  /\ Slot \subseteq Nat
  /\ Queue = {}
  /\ Tps \in 1 .. MaxDelay
  /\ InitCnt = [s \in Sem |-> IF s = Net THEN 1 ELSE 0]
  /\ MaxCnt >= Cardinality(Client) /\ MaxCnt > 0

VARIABLES
  pc,           \* where the task is
  entry,        \* soc_event of the slots, 0 when there is none
  armed,        \* the slots with ctick # 0
  mine,         \* the local i of tcp_sleep
  data,         \* the sockets with data to receive
  flagged,      \* the sockets with SB_WAIT
  packets,      \* rcvdq: the sockets the queued packets are for
  event         \* the argument of tcp_wakeup

table == <<entry, armed, mine>>
stack == <<data, flagged, packets, event>>
vars == <<core, sems, pc, table, stack>>

Locations ==
  \* recv, tcp_sleep
  {"lock", "check", "unlock", "sleep", "pend", "clear", "full",
   "yield", "relock", "again",
  \* tk_netmain, pktdemux, tcp_wakeup
   "block", "demux", "delay", "dequeue", "input", "wakeup", "post", "leave"}

\* Inside the lock of the stack.
Inside == {"check", "unlock", "sleep", "full", "again",
           "input", "wakeup", "post", "leave"}

SleepTypeOK ==
  /\ pc \in [NetTask .. Idle - 1 -> Locations]
  /\ entry \in [Slot -> Client \cup {0}]
  /\ armed \subseteq Slot
  /\ mine \in [Client -> Slot \cup {0}]
  /\ data \subseteq Client /\ flagged \subseteq Client /\ packets \subseteq Client
  /\ event \in Client \cup {0}

TypeOK == CoreTypeOK /\ SemTypeOK /\ SleepTypeOK

Init ==
  /\ CoreInit /\ SemInit
  /\ pc = [t \in NetTask .. Idle - 1 |-> IF t = NetTask THEN "block" ELSE "lock"]
  /\ entry = [i \in Slot |-> 0] /\ armed = {}
  /\ mine = [t \in Client |-> 0]
  /\ data = {} /\ flagged = {} /\ packets = {} /\ event = 0

From(here, there) ==
  /\ cur # Idle
  /\ pc[cur] = here
  /\ pc' = [pc EXCEPT ![cur] = there]

\* LOCK_NET_RESOURCE(NET_RESID).  It pends again after a timeout, but a pend
\* without timeout has none.
Lock(here, there) ==
  /\ From(here, there)
  /\ OSSemPend(Net, 0)
  /\ UNCHANGED <<table, stack>>

\* UNLOCK_NET_RESOURCE(NET_RESID).
Unlock(here, there) ==
  /\ From(here, there)
  /\ OSSemPost(Net)
  /\ UNCHANGED <<table, stack>>

\* A step between calls of the kernel.
Local(here, there) == From(here, there) /\ Running /\ UNCHANGED <<core, sems>>

\* OSTimeDly(1), tk_yield.
Yield(here, there) ==
  /\ From(here, there)
  /\ OSTimeDly(1)
  /\ UNCHANGED <<sems, table, stack>>

-----------------------------------------------------------------------------
(* A client: t_recv, soreceive, sbwait, tcp_sleep                          *)

\* soreceive with data; the client returns from recv and calls it again.
Receive ==
  /\ Local("check", "unlock")
  /\ cur \in data
  /\ data' = data \ {cur}
  /\ UNCHANGED <<table, flagged, packets, event>>

Free == {i \in Slot : entry[i] = 0}

\* soreceive without data, sbwait and the search of tcp_sleep.  The time it
\* notes is 0 when the counter of ticks, cticks, happens to be.
EnterSlot(i) ==
  /\ Local("check", "sleep")
  /\ cur \notin data
  /\ flagged' = flagged \cup {cur}
  /\ entry' = [entry EXCEPT ![i] = cur]
  /\ armed' \in {armed \cup {i}, armed \ {i}}
  /\ mine' = [mine EXCEPT ![cur] = i]
  /\ UNCHANGED <<data, packets, event>>

\* The mutant does not look at soc_event.
ClaimAny == EnterSlot(Highest(Slot))
Claim == Free # {} /\ EnterSlot(Highest(Free))

TableFull ==
  /\ Local("check", "full")
  /\ cur \notin data
  /\ Free = {}
  /\ flagged' = flagged \cup {cur}
  /\ UNCHANGED <<table, data, packets, event>>

\* The pend on the slot's semaphore; the mutant waits for ever.
SleepForever ==
  /\ pc[cur] = "pend"
  /\ pc' = IF cnt[mine[cur]] > 0 THEN [pc EXCEPT ![cur] = "relock"] ELSE pc
  /\ OSSemPend(mine[cur], 0)
  /\ UNCHANGED <<table, stack>>
Sleep ==
  /\ pc[cur] = "pend"
  /\ pc' = IF cnt[mine[cur]] > 0 THEN [pc EXCEPT ![cur] = "relock"] ELSE pc
  /\ OSSemPend(mine[cur], Tps)
  /\ UNCHANGED <<table, stack>>

\* A timed-out sleep clears the entry, without the lock.
ClearEntry ==
  /\ Local("clear", "relock")
  /\ entry' = [entry EXCEPT ![mine[cur]] = 0]
  /\ armed' = armed \ {mine[cur]}
  /\ UNCHANGED <<mine, stack>>

\* The rest of sbwait, and soreceive's restart.
WaitOver ==
  /\ Local("again", "check")
  /\ flagged' = flagged \ {cur}
  /\ UNCHANGED <<table, data, packets, event>>

\* The mutant returns from the yield without the lock.
YieldUnlocked == Yield("yield", "again")
YieldFull == Yield("yield", "relock")

ClientStep ==
  /\ cur \in Client
  /\ \/ Lock("lock", "check") \/ Receive \/ Unlock("unlock", "lock")
     \/ Claim \/ Unlock("sleep", "pend") \/ Sleep \/ ClearEntry
     \/ TableFull \/ Unlock("full", "yield") \/ YieldFull
     \/ Lock("relock", "again") \/ WaitOver

-----------------------------------------------------------------------------
(* The network task: tk_netmain, pktdemux, sbwakeup, tcp_wakeup            *)

NetBlock ==
  /\ From("block", "demux")
  /\ OSSemPend(Rx, Tps)
  /\ UNCHANGED <<table, stack>>

Demux ==
  /\ \/ packets = {} /\ Local("demux", "block")
     \* packets of one round are limited by the free buffers
     \/ packets # {} /\ (Local("demux", "dequeue") \/ Local("demux", "delay"))
  /\ UNCHANGED <<table, stack>>

\* tcp_input for a packet: the data is appended; a flagged socket's client is
\* called.
Input(c) ==
  /\ c \in packets
  /\ Local("input", IF c \in flagged THEN "wakeup" ELSE "leave")
  /\ packets' = packets \ {c}
  /\ data' = data \cup {c}
  /\ event' = c
  /\ UNCHANGED <<table, flagged>>

WakeupStart ==
  /\ From("wakeup", "post")
  /\ OSSchedLock
  /\ UNCHANGED <<sems, table, stack>>

Called == {i \in armed : entry[i] = event}

\* One round of tcp_wakeup's loop.
PostEntry ==
  /\ Called # {}
  /\ From("post", "post")
  /\ Running
  /\ OSSemPost(Highest(Called)) \/ PostRefused(Highest(Called))
  /\ entry' = [entry EXCEPT ![Highest(Called)] = 0]
  /\ armed' = armed \ {Highest(Called)}
  /\ UNCHANGED <<mine, stack>>

WakeupEnd ==
  /\ Called = {}
  /\ From("post", "leave")
  /\ OSSchedUnlock
  /\ UNCHANGED <<sems, table, stack>>

NetStep ==
  /\ cur = NetTask
  /\ \/ NetBlock \/ Demux \/ Yield("delay", "dequeue") \/ Lock("dequeue", "input")
     \/ \E c \in Client : Input(c)
     \/ WakeupStart \/ PostEntry \/ WakeupEnd \/ Unlock("leave", "demux")

-----------------------------------------------------------------------------
(* The rest of the kernel's services, and interrupts                       *)

Reschedule == OS_Sched /\ UNCHANGED <<sems, pc, table, stack>>

\* The end of a pend; only a sleep looks at the reason (err == 10).
Resume ==
  /\ SemWake
  /\ pc' = IF pc[cur] # "pend" THEN pc
           ELSE [pc EXCEPT ![cur] = IF statPend[cur] = "timeout" THEN "clear"
                                                               ELSE "relock"]
  /\ UNCHANGED <<table, stack>>

Tick == OSTimeTick /\ UNCHANGED <<sems, pc, table, stack>>

\* A packet with data for c comes in and the driver signals it.
Packet(c) ==
  /\ c \notin data \cup packets
  /\ packets' = packets \cup {c}
  /\ \/ OSSemPostISR(Rx)
     \/ PostRefused(Rx)
  /\ UNCHANGED <<pc, table, data, flagged, event>>

Run == ClientStep \/ NetStep \/ Reschedule \/ Resume

Next == Run \/ Tick \/ \E c \in Client : Packet(c)

\* The system clock ticks, and slowly: the higher tasks leave the processor
\* to a task that is ready again and again, and that task makes its steps.
Spec ==
  /\ Init /\ [][Next]_vars
  /\ WF_vars(Tick)
  /\ \A t \in NetTask .. Idle - 1 :
       []<>(t \in rdy) => []<><<cur = t /\ Run>>_vars

-----------------------------------------------------------------------------
\* One task at a time is inside the network stack (osportco.c:166), however
\* the tasks sleep, time out, find the table full and are woken.
NetExclusive ==
  Cardinality({t \in NetTask .. Idle - 1 : pc[t] \in Inside /\ on[t] # Net}) <= 1

\* The tasks that will pend or are pending on the semaphore of slot i without
\* having been given a count, and those that will clear the slot.
Sleepers(i) == {t \in Client : /\ mine[t] = i
                              /\ \/ pc[t] = "sleep"
                                 \/ pc[t] = "pend" /\ t \notin Granted(i)}
Clearers(i) == {t \in Client : mine[t] = i /\ pc[t] = "clear"}

\* Nobody sleeps in a slot out of which no call can wake it: for each of the
\* tasks that sleep in a slot, or are about to clear it, the slot has its
\* entry or a post.  A slot is cleared without the lock and given to another
\* task while the one that timed out has still to clear it, and posts meant
\* for one task are taken by the next (tk_crnos.c:107-114).
SleepersCanBeCalled ==
  \A i \in Slot :
    Cardinality(Sleepers(i)) + Cardinality(Clearers(i))
      <= cnt[i] + IF entry[i] = 0 THEN 0 ELSE 1

\* Data for a client is received, although a call is missed when the
\* sleep began at tick 0 (tk_crnos.c:94, 153) or no slot was free.
DataReceived == \A c \in Client : (c \in data) ~> (c \notin data)

=============================================================================
