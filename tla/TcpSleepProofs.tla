---------------------------- MODULE TcpSleepProofs ----------------------------
(***************************************************************************)
(* Theorems about the blocking of sockets, for any number of clients and   *)
(* of slots in the table of sleepers: the lock of the stack excludes, and  *)
(* no task sleeps in a slot out of which it cannot be called.              *)
(***************************************************************************)
EXTENDS TcpSleep, UcosCoreProofs

USE KernelAssumption, SemAssumption, SleepAssumption
DEF KernelAssumption, SemAssumption, SleepAssumption

User == NetTask .. Idle - 1

\* The tasks inside the lock, and the one count there is for them.
Holders == {t \in User : pc[t] \in Inside /\ on[t] # Net}
NetCount == cnt[Net] + Cardinality(Granted(Net)) + Cardinality(Holders) = 1

Special == {"sleep", "pend", "clear"}

\* Where a task is that pends, and what it pends on.
PlaceOf(t) ==
  /\ on[t] = Net => pc[t] \in Inside /\ statPend[t] = "ok" /\ dly[t] = 0
  /\ on[t] \in Slot => pc[t] = "pend" /\ mine[t] = on[t]
  /\ pc[t] = "pend" => on[t] = NoMsg \/ on[t] = mine[t]
  /\ pc[t] \in Special => t \in Client /\ mine[t] \in Slot
Places == on[Idle] = NoMsg /\ \A t \in User : PlaceOf(t)

\* SleepersCanBeCalled for one slot.
Covered(i) ==
  Cardinality(Sleepers(i)) + Cardinality(Clearers(i))
    <= cnt[i] + IF entry[i] = 0 THEN 0 ELSE 1

TableTypeOK ==
  /\ pc \in [User -> Locations]
  /\ entry \in [Slot -> Client \cup {0}]
  /\ armed \subseteq Slot
  /\ mine \in [Client -> Slot \cup {0}]

Inv ==
  /\ CoreInv
  /\ cnt \in [Sem -> 0 .. MaxCnt]
  /\ TableTypeOK
  /\ Places
  /\ NetCount
  /\ \A i \in Slot : Covered(i)

-----------------------------------------------------------------------------
(* Sets of tasks are finite                                                *)

LEMMA UserFacts ==
  /\ IsFiniteSet(User) /\ Client \subseteq User /\ User \subseteq Task
  /\ Task = User \cup {Idle} /\ Idle \notin User
  /\ 0 \notin Client
<1>1. IsFiniteSet(User)
  BY FS_Interval DEF User, NetTask
<1>. QED  BY <1>1 DEF User, NetTask, Client, Task

LEMMA HoldersFinite ==
  IsFiniteSet(Holders) /\ Cardinality(Holders) \in Nat
<1>1. Holders \subseteq User
  BY DEF Holders
<1>. QED  BY <1>1, UserFacts, FS_Subset, FS_CardinalityType

LEMMA SleepersFinite ==
  ASSUME NEW i \in Slot
  PROVE  /\ IsFiniteSet(Sleepers(i)) /\ Cardinality(Sleepers(i)) \in Nat
         /\ IsFiniteSet(Clearers(i)) /\ Cardinality(Clearers(i)) \in Nat
<1>1. Sleepers(i) \subseteq User /\ Clearers(i) \subseteq User
  BY UserFacts DEF Sleepers, Clearers
<1>. QED  BY <1>1, UserFacts, FS_Subset, FS_CardinalityType

LEMMA GrantedCard ==
  ASSUME NEW s \in Sem
  PROVE  Cardinality(Granted(s)) \in Nat
BY GrantedFinite, FS_CardinalityType

-----------------------------------------------------------------------------
(* Steps that leave the semaphores of the lock and of the slots alone      *)

\* The state of the kernel after such a step.
Aside ==
  /\ CoreInv'
  /\ cnt' \in [Sem -> 0 .. MaxCnt]
  /\ \A s \in Sem \ {Rx} : cnt'[s] = cnt[s] /\ Granted(s)' = Granted(s)
  /\ \A t \in Task : on'[t] = on[t] \/ (t = cur /\ on[t] = NoMsg /\ on'[t] = Rx)
  /\ \A t \in Task : on[t] = Net /\ dly[t] = 0 /\ statPend[t] = "ok"
                       => dly'[t] = 0 /\ statPend'[t] = "ok"

LEMMA RunningFree ==
  ASSUME CoreInv, Running
  PROVE  cur \in Task /\ on[cur] = NoMsg
BY DEF Running, CoreInv, CoreTypeOK, PendingSound, PendingOf

\* NoMsg, the lock, the counter of packets and the slots differ.
LEMMA Distinct ==
  /\ Event = Sem /\ NoMsg \notin Sem /\ Net \in Sem /\ Rx \in Sem /\ Net # Rx
  /\ Slot \subseteq Sem /\ Net \notin Slot /\ Rx \notin Slot
BY DEF Event

LEMMA Quiet_Aside ==
  ASSUME Inv, UNCHANGED sems,
         \/ UNCHANGED core \/ OS_Sched \/ OSSchedLock \/ OSSchedUnlock
         \/ OSTimeTick
         \/ cur # Idle /\ OSTimeDly(1)
  PROVE  Aside
<1>. USE DEF Inv
<1>1. 1 \in 1 .. MaxDelay /\ cnt' = cnt
  BY DEF sems
<1>2. CoreInv'
  BY <1>1, Unchanged_Inv, Sched_Inv, Lock_Inv, TimeDly_Inv, TimeTick_Inv
<1>3. CASE UNCHANGED <<on, wait, statPend>> /\ (Running \/ dly' = dly)
                /\ \A t \in Task : t # cur => dly'[t] = dly[t]
  <2>1. \A s \in Sem : Granted(s)' = Granted(s)
    BY <1>3 DEF Granted
  <2>2. \A t \in Task : on[t] = Net => dly'[t] = dly[t]
    BY <1>3, RunningFree, Distinct
  <2>. QED  BY <1>1, <1>2, <1>3, <2>1, <2>2 DEF Aside
<1>4. CASE OSTimeTick
  <2>1. \A s \in Sem : Granted(s)' = Granted(s)
    BY <1>4, TaskServiceGranted
  <2>2. \A t \in Task : /\ on'[t] = on[t]
                        /\ dly[t] = 0 => dly'[t] = 0 /\ statPend'[t] = statPend[t]
    BY <1>4 DEF OSTimeTick, Expire
  <2>. QED  BY <1>1, <1>2, <2>1, <2>2 DEF Aside
<1>5. UNCHANGED core => UNCHANGED <<on, wait, statPend, dly>>
  BY DEF core, tcbs
<1>6. OS_Sched \/ OSSchedLock \/ OSSchedUnlock => UNCHANGED <<on, wait, statPend, dly>>
  BY DEF OS_Sched, OSSchedLock, OSSchedUnlock, tcbs
<1>7. OSTimeDly(1) => /\ UNCHANGED <<on, wait, statPend>> /\ Running
                      /\ \A t \in Task : t # cur => dly'[t] = dly[t]
  BY DEF OSTimeDly, CoreInv, CoreTypeOK
<1>. QED  BY <1>3, <1>4, <1>5, <1>6, <1>7


\* A count taken from or added to a semaphore that nobody waits for or that
\* has one.
LEMMA Count_Effect ==
  ASSUME Inv, NEW s \in Sem, TakeCount(s) \/ AddCount(s)
  PROVE  /\ CoreInv' /\ UNCHANGED <<on, dly, statPend>>
         /\ cnt' \in [Sem -> 0 .. MaxCnt]
         /\ \A r \in Sem : Granted(r)' = Granted(r)
         /\ \A r \in Sem \ {s} : cnt'[r] = cnt[r]
         /\ IF TakeCount(s) THEN cnt[s] > 0 /\ cnt'[s] = cnt[s] - 1
                            ELSE cnt'[s] = cnt[s] + 1
<1>. USE DEF Inv
<1>1. UNCHANGED core
  BY DEF TakeCount, AddCount
<1>2. CoreInv' /\ UNCHANGED <<on, dly, statPend>> /\ \A r \in Sem : Granted(r)' = Granted(r)
  BY <1>1, Unchanged_Inv DEF core, tcbs, Granted
<1>3. CASE TakeCount(s)
  <2>1. cnt[s] > 0 /\ cnt' = [cnt EXCEPT ![s] = @ - 1]
    BY <1>3 DEF TakeCount
  <2>. QED  BY <1>2, <1>3, <2>1
<1>4. CASE ~ TakeCount(s)
  <2>1. cnt[s] < MaxCnt /\ cnt' = [cnt EXCEPT ![s] = @ + 1]
    BY <1>4 DEF AddCount
  <2>. QED  BY <1>2, <1>4, <2>1
<1>. QED  BY <1>3, <1>4

LEMMA Block_Effect ==
  ASSUME Inv, NEW s \in Sem, NEW timeout \in 0 .. MaxDelay, Running, lock = 0,
         cur # Idle, Block(s, timeout), UNCHANGED sems
  PROVE  /\ CoreInv' /\ cnt' = cnt
         /\ \A r \in Sem : Granted(r)' = Granted(r)
         /\ cur \in User /\ on[cur] = NoMsg /\ on'[cur] = s
         /\ statPend'[cur] = "ok" /\ dly'[cur] = timeout
         /\ \A t \in Task \ {cur} :
              on'[t] = on[t] /\ dly'[t] = dly[t] /\ statPend'[t] = statPend[t]
<1>. USE DEF Inv
<1>1. s \in Event /\ cur \in User /\ cur \in Task /\ on[cur] = NoMsg
  BY RunningFree, Distinct, UserFacts
<1>2. CoreInv' /\ cnt' = cnt
  BY <1>1, Block_Inv DEF sems
<1>3. \A r \in Sem : Granted(r)' = Granted(r)
  BY <1>1, BlockGranted
<1>4. /\ on' = [on EXCEPT ![cur] = s] /\ dly' = [dly EXCEPT ![cur] = timeout]
      /\ statPend' = [statPend EXCEPT ![cur] = "ok"]
      /\ on \in [Task -> Event \cup {NoMsg}] /\ dly \in [Task -> 0 .. MaxDelay]
      /\ statPend \in [Task -> {"ok", "timeout", "abort"}]
  BY DEF Block, CoreInv, CoreTypeOK
<1>. QED  BY <1>1, <1>2, <1>3, <1>4

LEMMA HandOver_Effect ==
  ASSUME Inv, NEW s \in Sem, wait[s] # {},
         \/ HandOverByISR(s, NoMsg)
         \/ Running /\ HandOverByTask(s, NoMsg),
         UNCHANGED cnt
  PROVE  /\ CoreInv' /\ on' = on
         /\ Cardinality(Granted(s)') = Cardinality(Granted(s)) + 1
         /\ \E h \in Task \ Granted(s) :
              on[h] = s /\ h \in wait[s] /\ Granted(s)' = Granted(s) \cup {h}
         /\ \A r \in Sem \ {s} : Granted(r)' = Granted(r)
         /\ \A t \in Task : dly[t] = 0 /\ statPend[t] = "ok"
                              => dly'[t] = 0 /\ statPend'[t] = "ok"
<1>. USE DEF Inv
<1>. DEFINE h == Highest(wait[s])
<1>1. s \in Event /\ NoMsg \in Msg \cup {NoMsg}
  BY Distinct
<1>2. CoreInv'
  BY <1>1, HandOver_Inv
<1>3. HandOver(s, NoMsg) /\ on' = on
  BY DEF HandOverByISR, HandOverByTask, ThenSched
<1>4. {h} \in SUBSET wait[s] /\ h \in Task /\ wait[s] \in SUBSET Task
  BY <1>1, FirstWaits DEF CoreInv, CoreTypeOK
<1>5. Cardinality(Granted(s)') = Cardinality(Granted(s)) + 1
  BY <1>3, HandOverGranted
<1>6. \A r \in Sem \ {s} : Granted(r)' = Granted(r)
  BY <1>1, <1>3, <1>4, AbortGranted DEF HandOver
<1>7. /\ dly' = [t \in Task |-> IF t \in {h} THEN 0 ELSE dly[t]]
      /\ statPend' = [t \in Task |-> IF t \in {h} THEN "ok" ELSE statPend[t]]
      /\ wait' = [wait EXCEPT ![s] = @ \ {h}]
  BY <1>3 DEF HandOver, EventTaskRdy
<1>8. on[h] = s /\ h \in wait[s]
  BY <1>1, <1>4 DEF CoreInv, PendingSound, PendingOf
<1>9. wait'[s] = wait[s] \ {h}
  BY <1>1, <1>7 DEF CoreInv, CoreTypeOK
<1>. HIDE DEF h
<1>10. Granted(s)' = Granted(s) \cup {h} /\ h \notin Granted(s)
  BY <1>3, <1>4, <1>7, <1>8, <1>9 DEF Granted
<1>. QED  BY <1>2, <1>3, <1>4, <1>5, <1>6, <1>7, <1>8, <1>10

LEMMA Rx_Aside ==
  ASSUME Inv,
         \/ cur # Idle /\ OSSemPend(Rx, Tps)
         \/ OSSemPostISR(Rx)
         \/ UNCHANGED <<core, sems>>
  PROVE  Aside
<1>1. CASE UNCHANGED <<core, sems>>
  BY <1>1, Quiet_Aside
<1>2. CASE TakeCount(Rx) \/ AddCount(Rx)
  <2>1. /\ CoreInv' /\ UNCHANGED <<on, dly, statPend>>
        /\ cnt' \in [Sem -> 0 .. MaxCnt]
        /\ \A r \in Sem : Granted(r)' = Granted(r)
        /\ \A r \in Sem \ {Rx} : cnt'[r] = cnt[r]
    BY <1>2, Count_Effect, Distinct
  <2>. QED  BY <2>1 DEF Aside
<1>3. CASE Running /\ lock = 0 /\ cur # Idle /\ Block(Rx, Tps) /\ UNCHANGED sems
  <2>1. Tps \in 0 .. MaxDelay
    OBVIOUS
  <2>2. /\ CoreInv' /\ cnt' = cnt
        /\ \A r \in Sem : Granted(r)' = Granted(r)
        /\ cur \in User /\ on[cur] = NoMsg /\ on'[cur] = Rx
        /\ \A t \in Task \ {cur} :
             on'[t] = on[t] /\ dly'[t] = dly[t] /\ statPend'[t] = statPend[t]
    BY <1>3, <2>1, Block_Effect, Distinct
  <2>. QED  BY <2>2, Distinct DEF Aside, Inv
<1>4. CASE wait[Rx] # {} /\ HandOverByISR(Rx, NoMsg) /\ UNCHANGED cnt
  <2>1. /\ CoreInv' /\ on' = on
        /\ \A r \in Sem \ {Rx} : Granted(r)' = Granted(r)
        /\ \A t \in Task : dly[t] = 0 /\ statPend[t] = "ok"
                             => dly'[t] = 0 /\ statPend'[t] = "ok"
    BY <1>4, HandOver_Effect, Distinct
  <2>. QED  BY <1>4, <2>1 DEF Aside, Inv
<1>. QED  BY <1>1, <1>2, <1>3, <1>4 DEF OSSemPend, OSSemPostISR, Handed


\* A move of the current task that neither enters nor leaves the lock nor a
\* slot.
Move ==
  \/ pc' = pc /\ on' = on
  \/ /\ cur \in User /\ on[cur] = NoMsg
     /\ \E there \in Locations \ Special :
          /\ pc' = [pc EXCEPT ![cur] = there]
          /\ pc[cur] \in Inside <=> there \in Inside
     /\ pc[cur] \notin Special

LEMMA MoveAside_Inv ==
  ASSUME Inv, Aside, Move, UNCHANGED table
  PROVE  Inv'
<1>. USE DEF Inv
<1>1. UNCHANGED <<entry, armed, mine>>
  BY DEF table
<1>2. TableTypeOK'
  BY <1>1 DEF TableTypeOK, Move
<1>3. /\ \A t \in User : pc[t] \in Special \/ pc'[t] \in Special => pc'[t] = pc[t]
      /\ \A t \in User : pc'[t] \in Inside <=> pc[t] \in Inside
      /\ \A t \in User : \/ pc'[t] = pc[t] /\ on'[t] = on[t]
                         \/ t # cur /\ pc'[t] = pc[t]
                         \/ on[t] = NoMsg /\ pc'[t] \notin Special
  BY DEF Move, TableTypeOK
<1>4. /\ \A s \in Sem \ {Rx} : cnt'[s] = cnt[s] /\ Granted(s)' = Granted(s)
      /\ \A t \in Task : on'[t] = on[t] \/ (t = cur /\ on[t] = NoMsg /\ on'[t] = Rx)
      /\ \A t \in Task : on[t] = Net /\ dly[t] = 0 /\ statPend[t] = "ok"
                           => dly'[t] = 0 /\ statPend'[t] = "ok"
      /\ CoreInv' /\ cnt' \in [Sem -> 0 .. MaxCnt]
  BY DEF Aside
<1>5. Places'
  <2>1. on'[Idle] = NoMsg
    <3>1. cur # Idle \/ on' = on
      BY UserFacts DEF Move
    <3>. QED  BY <1>4, <3>1, UserFacts DEF Places
  <2>2. ASSUME NEW t \in User  PROVE PlaceOf(t)'
    <3>1. t \in Task /\ PlaceOf(t)
      BY UserFacts DEF Places
    <3>2. on'[t] = on[t] \/ (on[t] = NoMsg /\ on'[t] = Rx /\ pc'[t] \notin Special)
      BY <1>3, <1>4, <3>1
    <3>3. /\ on'[t] = Net => on[t] = Net
          /\ on'[t] \in Slot => on[t] = on'[t]
          /\ on[t] = Net \/ on[t] \in Slot => pc'[t] = pc[t]
      BY <1>3, <3>2, Distinct
    <3>4. /\ on[t] = Net => dly'[t] = 0 /\ statPend'[t] = "ok"
          /\ pc'[t] = "pend" => pc[t] = "pend" /\ on'[t] = on[t]
          /\ pc'[t] \in Special => pc[t] \in Special
      BY <1>3, <1>4, <3>1, <3>2 DEF PlaceOf, Special
    <3>. QED  BY <1>1, <3>1, <3>3, <3>4 DEF PlaceOf
  <2>. QED  BY <2>1, <2>2 DEF Places
<1>6. NetCount'
  <2>1. Holders' = Holders
    <3>1. \A t \in User : on'[t] = Net <=> on[t] = Net
      BY <1>4, UserFacts, Distinct
    <3>. QED  BY <1>3, <3>1 DEF Holders
  <2>. QED  BY <1>4, <2>1, Distinct DEF NetCount
<1>7. ASSUME NEW i \in Slot  PROVE Covered(i)'
  <2>1. cnt'[i] = cnt[i] /\ Granted(i)' = Granted(i) /\ entry'[i] = entry[i]
    BY <1>1, <1>4, Distinct
  <2>2. \A t \in Client : /\ pc'[t] = "sleep" <=> pc[t] = "sleep"
                          /\ pc'[t] = "pend" <=> pc[t] = "pend"
                          /\ pc'[t] = "clear" <=> pc[t] = "clear"
                          /\ mine'[t] = mine[t]
    BY <1>1, <1>3, UserFacts DEF Special
  <2>3. Sleepers(i)' = Sleepers(i) /\ Clearers(i)' = Clearers(i)
    BY <2>1, <2>2 DEF Sleepers, Clearers
  <2>. QED  BY <2>1, <2>3 DEF Covered
<1>. QED  BY <1>2, <1>4, <1>5, <1>6, <1>7


-----------------------------------------------------------------------------
(* The lock of the stack                                                   *)

\* Steps that leave slots alone; a task may go on to pend on its slot.
SlotsAside ==
  /\ \A i \in Slot : cnt'[i] = cnt[i] /\ Granted(i)' = Granted(i)
  /\ UNCHANGED <<entry, mine>>
  /\ \A t \in User : \/ pc'[t] = pc[t]
                     \/ pc[t] \notin Special /\ pc'[t] \notin Special
                     \/ pc[t] = "sleep" /\ pc'[t] = "pend" /\ on[t] = NoMsg

LEMMA SlotsAside_Covered ==
  ASSUME Inv, SlotsAside
  PROVE  \A i \in Slot : Covered(i)'
<1>1. ASSUME NEW i \in Slot  PROVE Covered(i)'
  <2>1. /\ cnt'[i] = cnt[i] /\ Granted(i)' = Granted(i) /\ entry'[i] = entry[i]
        /\ mine' = mine
    BY <1>1 DEF SlotsAside
  <2>2. ASSUME NEW t \in Client
        PROVE  /\ t \in Sleepers(i)' <=> t \in Sleepers(i)
               /\ t \in Clearers(i)' <=> t \in Clearers(i)
    <3>0. t \in User
      BY UserFacts
    <3>1. CASE pc'[t] = pc[t] \/ (pc[t] \notin Special /\ pc'[t] \notin Special)
      BY <2>1, <3>1 DEF Sleepers, Clearers, Special
    <3>2. CASE pc[t] = "sleep" /\ pc'[t] = "pend" /\ on[t] = NoMsg
      <4>1. t \notin Granted(i)
        BY <3>2, Distinct DEF Granted
      <4>. QED  BY <2>1, <3>2, <4>1 DEF Sleepers, Clearers
    <3>. QED  BY <3>0, <3>1, <3>2 DEF SlotsAside
  <2>3. Sleepers(i)' = Sleepers(i) /\ Clearers(i)' = Clearers(i)
    BY <2>2 DEF Sleepers, Clearers
  <2>. QED  BY <2>1, <2>3 DEF Covered, Inv
<1>. QED  BY <1>1

\* What From does.
LEMMA From_Effect ==
  ASSUME Inv, NEW here, NEW there \in Locations, From(here, there)
  PROVE  /\ cur \in User /\ cur \in Task /\ pc[cur] = here
         /\ pc'[cur] = there /\ pc' \in [User -> Locations]
         /\ \A t \in User \ {cur} : pc'[t] = pc[t]
<1>1. cur \in User
  BY UserFacts DEF From, Inv, CoreInv, CoreTypeOK
<1>. QED  BY <1>1, UserFacts DEF From, Inv, TableTypeOK

LEMMA Enter_Inv ==
  ASSUME Inv, NEW here, here \notin Inside \cup Special,
         NEW there \in Inside \ Special, Lock(here, there)
  PROVE  Inv'
<1>. USE DEF Inv
<1>0. there \in Locations
  BY DEF Inside, Locations
<1>1. /\ cur \in User /\ cur \in Task /\ pc[cur] = here
      /\ pc'[cur] = there /\ pc' \in [User -> Locations]
      /\ \A t \in User \ {cur} : pc'[t] = pc[t]
      /\ Running /\ lock = 0 /\ cur # Idle
  BY <1>0, From_Effect DEF Lock, From, OSSemPend
<1>2. /\ UNCHANGED <<entry, armed, mine>> /\ TableTypeOK' /\ on[cur] = NoMsg
      /\ cur \notin Holders
  BY <1>1, RunningFree DEF Lock, table, TableTypeOK, Holders
<1>3. CASE TakeCount(Net)
  <2>1. /\ CoreInv' /\ UNCHANGED <<on, dly, statPend>>
        /\ cnt' \in [Sem -> 0 .. MaxCnt]
        /\ \A r \in Sem : Granted(r)' = Granted(r)
        /\ \A r \in Sem \ {Net} : cnt'[r] = cnt[r]
        /\ cnt'[Net] = cnt[Net] - 1
    BY <1>3, Count_Effect, Distinct
  <2>2. Holders' = Holders \cup {cur}
    BY <1>1, <1>2, <2>1, Distinct DEF Holders
  <2>3. NetCount'
    <3>1. Cardinality(Holders') = Cardinality(Holders) + 1
      BY <1>2, <2>2, HoldersFinite, FS_AddElement
    <3>. QED  BY <2>1, <3>1, HoldersFinite, GrantedCard, Distinct DEF NetCount
  <2>4. Places'
    BY <1>1, <1>2, <2>1, Distinct DEF Places, PlaceOf, Special
  <2>5. SlotsAside
    BY <1>1, <1>2, <2>1, Distinct DEF SlotsAside
  <2>. QED  BY <1>2, <2>1, <2>3, <2>4, <2>5, SlotsAside_Covered
<1>4. CASE Block(Net, 0) /\ UNCHANGED sems
  <2>1. /\ CoreInv' /\ cnt' = cnt
        /\ \A r \in Sem : Granted(r)' = Granted(r)
        /\ on[cur] = NoMsg /\ on'[cur] = Net
        /\ statPend'[cur] = "ok" /\ dly'[cur] = 0
        /\ \A t \in Task \ {cur} :
             on'[t] = on[t] /\ dly'[t] = dly[t] /\ statPend'[t] = statPend[t]
    <3>1. 0 \in 0 .. MaxDelay
      OBVIOUS
    <3>. QED  BY <1>1, <1>4, <3>1, Block_Effect, Distinct
  <2>2. Holders' = Holders
    BY <1>1, <1>2, <2>1, UserFacts DEF Holders
  <2>3. NetCount'
    BY <2>1, <2>2, Distinct DEF NetCount
  <2>4. Places'
    <3>1. on'[Idle] = NoMsg
      BY <1>1, <2>1, UserFacts DEF Places
    <3>2. ASSUME NEW t \in User, t = cur  PROVE PlaceOf(t)'
      BY <1>1, <2>1, <3>2, Distinct DEF PlaceOf, Special
    <3>3. \A t \in User \ {cur} : PlaceOf(t)'
      BY <1>1, <1>2, <2>1, UserFacts DEF Places, PlaceOf
    <3>. QED  BY <3>1, <3>2, <3>3 DEF Places
  <2>5. SlotsAside
    BY <1>1, <1>2, <2>1, Distinct DEF SlotsAside
  <2>. QED  BY <1>2, <2>1, <2>3, <2>4, <2>5, SlotsAside_Covered
<1>. QED  BY <1>3, <1>4 DEF Lock, OSSemPend

LEMMA Leave_Inv ==
  ASSUME Inv, NEW here \in Inside, NEW there \in Locations \ Inside,
         \/ here \notin Special /\ there \notin Special
         \/ here = "sleep" /\ there = "pend",
         Unlock(here, there)
  PROVE  Inv'
<1>. USE DEF Inv
<1>1. /\ cur \in User /\ cur \in Task /\ pc[cur] = here
      /\ pc'[cur] = there /\ pc' \in [User -> Locations]
      /\ \A t \in User \ {cur} : pc'[t] = pc[t]
      /\ Running /\ cur # Idle
  BY From_Effect DEF Unlock, From, OSSemPost
<1>2. /\ UNCHANGED <<entry, armed, mine>> /\ TableTypeOK' /\ on[cur] = NoMsg
      /\ cur \in Holders
  BY <1>1, RunningFree, Distinct DEF Unlock, table, TableTypeOK, Holders
<1>3. /\ \A t \in User : on'[t] = on[t]
      /\ CoreInv' /\ cnt' \in [Sem -> 0 .. MaxCnt] /\ on' = on
      /\ \A r \in Sem \ {Net} : cnt'[r] = cnt[r] /\ Granted(r)' = Granted(r)
      /\ \A t \in Task : dly[t] = 0 /\ statPend[t] = "ok"
                           => dly'[t] = 0 /\ statPend'[t] = "ok"
      /\ cnt'[Net] + Cardinality(Granted(Net)') = cnt[Net] + Cardinality(Granted(Net)) + 1
      /\ Cardinality(Granted(Net)') \in Nat
  <2>1. CASE AddCount(Net)
    <3>0. ~ TakeCount(Net)
      BY <2>1, Distinct DEF AddCount, TakeCount
    <3>1. /\ CoreInv' /\ UNCHANGED <<on, dly, statPend>>
          /\ cnt' \in [Sem -> 0 .. MaxCnt]
          /\ \A r \in Sem : Granted(r)' = Granted(r)
          /\ \A r \in Sem \ {Net} : cnt'[r] = cnt[r]
          /\ cnt'[Net] = cnt[Net] + 1
      BY <2>1, <3>0, Count_Effect, Distinct
    <3>. QED  BY <3>1, GrantedCard, Distinct
  <2>2. CASE wait[Net] # {} /\ HandOverByTask(Net, NoMsg) /\ Handed(Net)
    <3>1. cnt' = cnt
      BY <2>2 DEF Handed
    <3>2. /\ CoreInv' /\ on' = on
          /\ Cardinality(Granted(Net)') = Cardinality(Granted(Net)) + 1
          /\ \A r \in Sem \ {Net} : Granted(r)' = Granted(r)
          /\ \A t \in Task : dly[t] = 0 /\ statPend[t] = "ok"
                               => dly'[t] = 0 /\ statPend'[t] = "ok"
      BY <1>1, <2>2, <3>1, HandOver_Effect, Distinct
    <3>. QED  BY <3>1, <3>2, GrantedCard, Distinct
  <2>. QED  BY <2>1, <2>2 DEF Unlock, OSSemPost
<1>4. Holders' = Holders \ {cur}
  BY <1>1, <1>3 DEF Holders
<1>5. NetCount'
  <2>1. Cardinality(Holders') = Cardinality(Holders) - 1
    BY <1>2, <1>4, HoldersFinite, FS_RemoveElement
  <2>2. cnt'[Net] \in Int /\ cnt[Net] \in Int
    BY <1>3, Distinct
  <2>. QED  BY <1>3, <2>1, <2>2, HoldersFinite, GrantedCard, Distinct DEF NetCount
<1>6. Places'
  <2>1. ASSUME NEW t \in User, t = cur  PROVE PlaceOf(t)'
    BY <1>1, <1>2, <1>3, <2>1, Distinct DEF Places, PlaceOf, Special
  <2>2. \A t \in User \ {cur} : PlaceOf(t)'
    BY <1>1, <1>2, <1>3, UserFacts DEF Places, PlaceOf
  <2>. QED  BY <1>3, <2>1, <2>2 DEF Places
<1>7. SlotsAside
  BY <1>1, <1>2, <1>3, Distinct DEF SlotsAside
<1>. QED  BY <1>2, <1>3, <1>5, <1>6, <1>7, SlotsAside_Covered


-----------------------------------------------------------------------------
(* The slots                                                               *)

\* Steps after which nobody is in or out of the lock who was not before.
LockAside ==
  /\ cnt'[Net] = cnt[Net] /\ Granted(Net)' = Granted(Net)
  /\ \A t \in User : (pc'[t] \in Inside /\ on'[t] # Net) <=> (pc[t] \in Inside /\ on[t] # Net)

LEMMA LockAside_Count ==
  ASSUME Inv, LockAside
  PROVE  NetCount'
<1>1. Holders' = Holders
  BY DEF LockAside, Holders
<1>. QED  BY <1>1 DEF LockAside, NetCount, Inv

\* A slot whose entry, count and sleepers stay is as well off as before.
LEMMA SlotKept ==
  ASSUME Inv, NEW i \in Slot, cnt'[i] = cnt[i], Granted(i)' = Granted(i),
         entry'[i] = entry[i],
         \A t \in Client :
           \/ pc'[t] = pc[t] /\ mine'[t] = mine[t]
           \/ (mine[t] # i \/ pc[t] \notin Special) /\ (mine'[t] # i \/ pc'[t] \notin Special)
  PROVE  Covered(i)'
<1>1. Sleepers(i)' = Sleepers(i) /\ Clearers(i)' = Clearers(i)
  BY DEF Sleepers, Clearers, Special
<1>. QED  BY <1>1 DEF Covered, Inv

LEMMA Claim_Inv ==
  ASSUME Inv, cur \in Client, Claim
  PROVE  Inv'
<1>. USE DEF Inv
<1>1. PICK i \in Slot : EnterSlot(i) /\ entry[i] = 0
  <2>1. Free \in SUBSET Nat /\ Free # {}
    BY DEF Claim, Free
  <2>2. Highest(Free) \in Free
    BY <2>1, HighestIsLeast
  <2>. QED  BY <2>2 DEF Free, Claim
<1>3. /\ cur \in User /\ cur \in Task /\ pc[cur] = "check" /\ pc'[cur] = "sleep"
      /\ pc' \in [User -> Locations] /\ \A t \in User \ {cur} : pc'[t] = pc[t]
      /\ Running /\ UNCHANGED core /\ UNCHANGED sems
  BY <1>1, From_Effect DEF EnterSlot, Local, Locations
<1>4. /\ entry' = [entry EXCEPT ![i] = cur] /\ armed' \subseteq Slot
      /\ mine' = [mine EXCEPT ![cur] = i] /\ on[cur] = NoMsg
  BY <1>1, <1>3, RunningFree DEF EnterSlot, TableTypeOK
<1>5. /\ Aside /\ \A s \in Sem : Granted(s)' = Granted(s)
      /\ UNCHANGED <<on, dly, statPend, cnt, cur>>
  BY <1>3, Quiet_Aside DEF core, tcbs, sems, Granted
<1>6. TableTypeOK'
  BY <1>1, <1>3, <1>4, UserFacts DEF TableTypeOK
<1>7. NetCount'
  <2>1. LockAside
    BY <1>3, <1>5, Distinct DEF LockAside, Inside
  <2>. QED  BY <2>1, LockAside_Count
<1>8. Places'
  <2>1. ASSUME NEW t \in User, t = cur  PROVE PlaceOf(t)'
    <3>1. mine'[cur] = i
      BY <1>4 DEF TableTypeOK
    <3>. QED  BY <1>1, <1>3, <1>4, <1>5, <2>1, <3>1, Distinct DEF PlaceOf
  <2>2. ASSUME NEW t \in User \ {cur}  PROVE PlaceOf(t)'
    <3>1. t \in Client => mine'[t] = mine[t]
      BY <1>4 DEF TableTypeOK
    <3>2. t \notin Client => on[t] \notin Slot /\ pc[t] \notin Special
      BY UserFacts DEF Places, PlaceOf, Special
    <3>. QED  BY <1>3, <1>5, <3>1, <3>2 DEF Places, PlaceOf, Special
  <2>. QED  BY <1>5, <2>1, <2>2 DEF Places
<1>9. ASSUME NEW j \in Slot, j # i  PROVE Covered(j)'
  <2>1. entry'[j] = entry[j]
    BY <1>1, <1>4, <1>9 DEF TableTypeOK
  <2>2. /\ mine'[cur] # j /\ pc[cur] \notin Special
        /\ \A t \in Client \ {cur} : mine'[t] = mine[t] /\ pc'[t] = pc[t]
    BY <1>1, <1>3, <1>4, <1>9, UserFacts DEF TableTypeOK, Special
  <2>3. \A t \in Client :
          \/ pc'[t] = pc[t] /\ mine'[t] = mine[t]
          \/ (mine[t] # j \/ pc[t] \notin Special) /\ (mine'[t] # j \/ pc'[t] \notin Special)
    BY <2>2
  <2>4. cnt'[j] = cnt[j] /\ Granted(j)' = Granted(j)
    BY <1>5, Distinct
  <2>. QED  BY <2>1, <2>3, <2>4, SlotKept
<1>10. Covered(i)'
  <2>1. /\ mine'[cur] = i /\ entry'[i] = cur /\ cur # 0
        /\ \A t \in Client \ {cur} : mine'[t] = mine[t] /\ pc'[t] = pc[t]
    BY <1>1, <1>3, <1>4, UserFacts DEF TableTypeOK
  <2>2. /\ \A t \in Client : t \in Clearers(i)' <=> t \in Clearers(i)
        /\ \A t \in Client : t \in Sleepers(i)' <=> t \in Sleepers(i) \/ t = cur
        /\ cur \notin Sleepers(i)
    <3>1. Granted(i)' = Granted(i)
      BY <1>5, Distinct
    <3>. QED  BY <1>3, <2>1, <3>1 DEF Sleepers, Clearers
  <2>3. Sleepers(i)' = Sleepers(i) \cup {cur} /\ Clearers(i)' = Clearers(i)
    BY <2>2 DEF Sleepers, Clearers
  <2>4. Cardinality(Sleepers(i)') = Cardinality(Sleepers(i)) + 1
    <3>1. IsFiniteSet(Sleepers(i))
      BY SleepersFinite
    <3>2. Cardinality(Sleepers(i) \cup {cur}) = Cardinality(Sleepers(i)) + 1
      BY <2>2, <3>1, FS_AddElement
    <3>. QED  BY <2>3, <3>2
  <2>5. Cardinality(Sleepers(i)) + Cardinality(Clearers(i)) <= cnt[i] /\ cnt[i] \in Nat
    BY <1>1, Distinct DEF Covered
  <2>6. entry'[i] # 0 /\ cnt'[i] = cnt[i]
    BY <1>5, <2>1
  <2>. QED  BY <2>3, <2>4, <2>5, <2>6, SleepersFinite DEF Covered
<1>. QED  BY <1>5, <1>6, <1>7, <1>8, <1>9, <1>10 DEF Aside

LEMMA ClearEntry_Inv ==
  ASSUME Inv, cur \in Client, ClearEntry
  PROVE  Inv'
<1>. USE DEF Inv
<1>1. /\ cur \in User /\ cur \in Task /\ pc[cur] = "clear" /\ pc'[cur] = "relock"
      /\ pc' \in [User -> Locations] /\ \A t \in User \ {cur} : pc'[t] = pc[t]
      /\ Running /\ UNCHANGED core /\ UNCHANGED sems
  BY From_Effect DEF ClearEntry, Local, Locations
<1>2. mine[cur] \in Slot /\ on[cur] = NoMsg
  BY <1>1, RunningFree DEF Places, PlaceOf, Special
<1>3. PICK i \in Slot : i = mine[cur]
  BY <1>2
<1>4. /\ entry' = [entry EXCEPT ![i] = 0] /\ armed' = armed \ {i} /\ mine' = mine
  BY <1>3 DEF ClearEntry
<1>5. /\ Aside /\ \A s \in Sem : Granted(s)' = Granted(s)
      /\ UNCHANGED <<on, dly, statPend, cnt, cur>>
  BY <1>1, Quiet_Aside DEF core, tcbs, sems, Granted
<1>6. TableTypeOK'
  BY <1>1, <1>4 DEF TableTypeOK
<1>7. NetCount'
  <2>1. LockAside
    BY <1>1, <1>5, Distinct DEF LockAside, Inside
  <2>. QED  BY <2>1, LockAside_Count
<1>8. Places'
  <2>1. ASSUME NEW t \in User, t = cur  PROVE PlaceOf(t)'
    BY <1>1, <1>2, <1>5, <2>1, Distinct DEF PlaceOf, Special
  <2>2. \A t \in User \ {cur} : PlaceOf(t)'
    BY <1>1, <1>4, <1>5 DEF Places, PlaceOf
  <2>. QED  BY <1>5, <2>1, <2>2 DEF Places
<1>9. ASSUME NEW j \in Slot, j # i  PROVE Covered(j)'
  <2>1. entry'[j] = entry[j] /\ mine[cur] # j /\ mine' = mine
    BY <1>3, <1>4, <1>9 DEF TableTypeOK
  <2>2. \A t \in Client :
          \/ pc'[t] = pc[t] /\ mine'[t] = mine[t]
          \/ (mine[t] # j \/ pc[t] \notin Special) /\ (mine'[t] # j \/ pc'[t] \notin Special)
    BY <1>1, <2>1, UserFacts
  <2>3. cnt'[j] = cnt[j] /\ Granted(j)' = Granted(j)
    BY <1>5, Distinct
  <2>. QED  BY <2>1, <2>2, <2>3, SlotKept
<1>10. Covered(i)'
  <2>1. mine' = mine /\ entry'[i] = 0
        /\ \A t \in Client \ {cur} : pc'[t] = pc[t]
    BY <1>1, <1>4, UserFacts DEF TableTypeOK
  <2>2. /\ \A t \in Client : t \in Clearers(i)' <=> t \in Clearers(i) /\ t # cur
        /\ \A t \in Client : t \in Sleepers(i)' <=> t \in Sleepers(i)
        /\ cur \in Clearers(i)
    <3>1. Granted(i)' = Granted(i)
      BY <1>5, Distinct
    <3>. QED  BY <1>1, <1>3, <2>1, <3>1 DEF Sleepers, Clearers
  <2>3. Clearers(i)' = Clearers(i) \ {cur} /\ Sleepers(i)' = Sleepers(i)
    BY <2>2 DEF Sleepers, Clearers
  <2>4. Cardinality(Clearers(i)') = Cardinality(Clearers(i)) - 1
    BY <2>2, <2>3, SleepersFinite, FS_RemoveElement
  <2>5. Cardinality(Sleepers(i)) + Cardinality(Clearers(i)) <= cnt[i] + 1
        /\ cnt[i] \in Nat /\ cnt'[i] = cnt[i]
    <3>1. Cardinality(Sleepers(i)) + Cardinality(Clearers(i))
            <= cnt[i] + IF entry[i] = 0 THEN 0 ELSE 1
      BY DEF Covered
    <3>2. cnt[i] \in Nat /\ cnt'[i] = cnt[i]
      BY <1>5, Distinct
    <3>. QED  BY <3>1, <3>2, SleepersFinite
  <2>6. Cardinality(Sleepers(i)) \in Nat /\ Cardinality(Clearers(i)) \in Nat
    BY SleepersFinite
  <2>7. cnt'[i] + (IF entry'[i] = 0 THEN 0 ELSE 1) = cnt[i]
    BY <2>1, <2>5
  <2>. QED  BY <2>3, <2>4, <2>5, <2>6, <2>7 DEF Covered
<1>. QED  BY <1>5, <1>6, <1>7, <1>8, <1>9, <1>10 DEF Aside

\* What is left to show of a step that moves one task in or out of a slot.
LEMMA SlotStep ==
  ASSUME Inv, CoreInv', cnt' \in [Sem -> 0 .. MaxCnt], TableTypeOK', Places',
         LockAside, NEW i \in Slot, Covered(i)',
         \A j \in Slot \ {i} : cnt'[j] = cnt[j] /\ Granted(j)' = Granted(j)
                                 /\ entry'[j] = entry[j],
         \A t \in Client :
           \/ pc'[t] = pc[t] /\ mine'[t] = mine[t]
           \/ mine[t] = i /\ mine'[t] = i
  PROVE  Inv'
<1>1. NetCount'
  BY LockAside_Count
<1>2. ASSUME NEW j \in Slot, j # i  PROVE Covered(j)'
  <2>1. \A t \in Client :
          \/ pc'[t] = pc[t] /\ mine'[t] = mine[t]
          \/ (mine[t] # j \/ pc[t] \notin Special) /\ (mine'[t] # j \/ pc'[t] \notin Special)
    BY <1>2
  <2>2. cnt'[j] = cnt[j] /\ Granted(j)' = Granted(j) /\ entry'[j] = entry[j]
    BY <1>2
  <2>. QED  BY <2>1, <2>2, SlotKept
<1>. QED  BY <1>1, <1>2 DEF Inv

\* A sleeper that leaves, and perhaps goes on to clear the slot.
LEMMA SleeperLeaves ==
  ASSUME Inv, NEW i \in Slot, NEW t \in Sleepers(i),
         Sleepers(i)' = Sleepers(i) \ {t}
  PROVE  /\ Cardinality(Sleepers(i)') = Cardinality(Sleepers(i)) - 1
         /\ Cardinality(Sleepers(i)') \in Nat
         /\ Cardinality(Clearers(i)) \in Nat /\ cnt[i] \in Nat
         /\ Cardinality(Sleepers(i)) + Cardinality(Clearers(i))
              <= cnt[i] + IF entry[i] = 0 THEN 0 ELSE 1
<1>1. IsFiniteSet(Sleepers(i)) /\ Cardinality(Sleepers(i)) \in Nat
      /\ Cardinality(Clearers(i)) \in Nat
  BY SleepersFinite
<1>2. Cardinality(Sleepers(i) \ {t}) = Cardinality(Sleepers(i)) - 1
  BY <1>1, FS_RemoveElement
<1>3. IsFiniteSet(Sleepers(i) \ {t})
  BY <1>1, FS_RemoveElement
<1>4. Cardinality(Sleepers(i) \ {t}) \in Nat
  BY <1>3, FS_CardinalityType
<1>5. cnt[i] \in Nat /\ Covered(i)
  BY Distinct DEF Inv
<1>. QED  BY <1>1, <1>2, <1>4, <1>5 DEF Covered

LEMMA Sleep_Inv ==
  ASSUME Inv, cur \in Client, Sleep
  PROVE  Inv'
<1>. USE DEF Inv
<1>1. /\ cur \in User /\ cur \in Task /\ cur # Idle /\ pc[cur] = "pend"
      /\ Running /\ lock = 0 /\ on[cur] = NoMsg
      /\ UNCHANGED <<entry, armed, mine>>
  BY UserFacts, RunningFree DEF Sleep, OSSemPend, table
<1>2. mine[cur] \in Slot
  BY <1>1 DEF Places, PlaceOf, Special
<1>3. PICK i \in Slot : i = mine[cur]
  BY <1>2
<1>4. /\ pc' = IF cnt[i] > 0 THEN [pc EXCEPT ![cur] = "relock"] ELSE pc
      /\ \/ TakeCount(i)
         \/ cnt[i] = 0 /\ Block(i, Tps) /\ UNCHANGED sems
  BY <1>3 DEF Sleep, OSSemPend
<1>5. CASE TakeCount(i)
  <2>1. /\ CoreInv' /\ UNCHANGED <<on, dly, statPend>>
        /\ cnt' \in [Sem -> 0 .. MaxCnt]
        /\ \A r \in Sem : Granted(r)' = Granted(r)
        /\ \A r \in Sem \ {i} : cnt'[r] = cnt[r]
        /\ cnt[i] > 0 /\ cnt'[i] = cnt[i] - 1
    BY <1>5, Count_Effect, Distinct
  <2>2. /\ pc' \in [User -> Locations] /\ pc'[cur] = "relock"
        /\ \A t \in User \ {cur} : pc'[t] = pc[t]
    BY <1>1, <1>4, <2>1 DEF TableTypeOK, Locations
  <2>3. TableTypeOK'
    BY <1>1, <2>2 DEF TableTypeOK
  <2>4. Places'
    <3>1. ASSUME NEW t \in User, t = cur  PROVE PlaceOf(t)'
      BY <1>1, <2>1, <2>2, <3>1, Distinct DEF PlaceOf, Special
    <3>2. \A t \in User \ {cur} : PlaceOf(t)'
      BY <1>1, <2>1, <2>2 DEF Places, PlaceOf
    <3>. QED  BY <2>1, <3>1, <3>2 DEF Places
  <2>5. LockAside
    BY <1>1, <2>1, <2>2, Distinct DEF LockAside, Inside
  <2>6. Covered(i)'
    <3>1. cur \in Sleepers(i)
      BY <1>1, <1>3, Distinct DEF Sleepers, Granted
    <3>2. /\ \A t \in Client : t \in Sleepers(i)' <=> t \in Sleepers(i) /\ t # cur
          /\ \A t \in Client : t \in Clearers(i)' <=> t \in Clearers(i)
      <4>1. Granted(i)' = Granted(i)
        BY <2>1, Distinct
      <4>. QED  BY <1>1, <2>2, <4>1, UserFacts DEF Sleepers, Clearers
    <3>3. Sleepers(i)' = Sleepers(i) \ {cur} /\ Clearers(i)' = Clearers(i)
      BY <3>2 DEF Sleepers, Clearers
    <3>4. /\ Cardinality(Sleepers(i)') = Cardinality(Sleepers(i)) - 1
          /\ Cardinality(Sleepers(i)') \in Nat
          /\ Cardinality(Clearers(i)) \in Nat /\ cnt[i] \in Nat
          /\ Cardinality(Sleepers(i)) + Cardinality(Clearers(i))
               <= cnt[i] + IF entry[i] = 0 THEN 0 ELSE 1
      BY <3>1, <3>3, SleeperLeaves
    <3>5. entry' = entry /\ cnt'[i] = cnt[i] - 1 /\ Clearers(i)' = Clearers(i)
      BY <1>1, <2>1, <3>3
    <3>6. Cardinality(Sleepers(i)) \in Nat
      BY SleepersFinite
    <3>. QED  BY <3>4, <3>5, <3>6 DEF Covered
  <2>. QED  BY <1>1, <1>3, <2>1, <2>2, <2>3, <2>4, <2>5, <2>6, SlotStep, Distinct, UserFacts
<1>6. CASE cnt[i] = 0 /\ Block(i, Tps) /\ UNCHANGED sems
  <2>1. /\ CoreInv' /\ cnt' = cnt /\ pc' = pc
        /\ \A r \in Sem : Granted(r)' = Granted(r)
        /\ on'[cur] = i
        /\ \A t \in Task \ {cur} :
             on'[t] = on[t] /\ dly'[t] = dly[t] /\ statPend'[t] = statPend[t]
    <3>1. Tps \in 0 .. MaxDelay /\ i \in Sem
      BY Distinct
    <3>. QED  BY <1>1, <1>4, <1>6, <3>1, Block_Effect
  <2>2. TableTypeOK'
    BY <1>1, <2>1 DEF TableTypeOK
  <2>3. Places'
    <3>1. ASSUME NEW t \in User, t = cur  PROVE PlaceOf(t)'
      BY <1>1, <1>3, <2>1, <3>1, Distinct DEF PlaceOf, Places
    <3>2. \A t \in User \ {cur} : PlaceOf(t)'
      BY <1>1, <2>1, UserFacts DEF Places, PlaceOf
    <3>3. on'[Idle] = NoMsg
      BY <1>1, <2>1, UserFacts DEF Places
    <3>. QED  BY <3>1, <3>2, <3>3 DEF Places
  <2>4. LockAside
    BY <1>1, <2>1, UserFacts, Distinct DEF LockAside, Inside
  <2>5. SlotsAside
    BY <1>1, <2>1, Distinct DEF SlotsAside
  <2>. QED  BY <2>1, <2>2, <2>3, <2>4, <2>5, LockAside_Count, SlotsAside_Covered
<1>. QED  BY <1>4, <1>5, <1>6

\* A call takes the entry away, and gives a count or finds there are enough.
LEMMA PostEntry_Inv ==
  ASSUME Inv, cur = NetTask, PostEntry
  PROVE  Inv'
<1>. USE DEF Inv
<1>1. /\ cur \in User /\ cur \in Task /\ pc' = pc /\ Running /\ cur # Idle
      /\ UNCHANGED mine
  BY UserFacts DEF PostEntry, From, TableTypeOK, CoreInv, CoreTypeOK
<1>2. PICK i \in Slot : i = Highest(Called)
  <2>1. Called \in SUBSET Nat /\ Called # {} /\ Called \subseteq Slot
    BY DEF PostEntry, Called, TableTypeOK
  <2>. QED  BY <2>1, HighestIsLeast
<1>3. /\ entry' = [entry EXCEPT ![i] = 0] /\ armed' = armed \ {i}
      /\ OSSemPost(i) \/ PostRefused(i)
  BY <1>2 DEF PostEntry
<1>4. TableTypeOK'
  BY <1>1, <1>3 DEF TableTypeOK
<1>5. /\ \A j \in Slot \ {i} : entry'[j] = entry[j]
      /\ entry'[i] = 0
      /\ cnt[i] \in Nat
      /\ Cardinality(Sleepers(i)) \in Nat /\ Cardinality(Clearers(i)) \in Nat
      /\ Cardinality(Sleepers(i)) + Cardinality(Clearers(i))
           <= cnt[i] + IF entry[i] = 0 THEN 0 ELSE 1
  BY <1>3, SleepersFinite, Distinct DEF TableTypeOK, Covered
<1>6. CASE AddCount(i)
  <2>0. ~ TakeCount(i)
    BY <1>6, Distinct DEF AddCount, TakeCount
  <2>1. /\ CoreInv' /\ UNCHANGED <<on, dly, statPend>>
        /\ cnt' \in [Sem -> 0 .. MaxCnt]
        /\ \A r \in Sem : Granted(r)' = Granted(r)
        /\ \A r \in Sem \ {i} : cnt'[r] = cnt[r]
        /\ cnt'[i] = cnt[i] + 1
    BY <1>6, <2>0, Count_Effect, Distinct
  <2>2. Places'
    BY <1>1, <2>1 DEF Places, PlaceOf
  <2>3. LockAside
    BY <1>1, <2>1, Distinct DEF LockAside
  <2>4. Covered(i)'
    <3>1. Sleepers(i)' = Sleepers(i) /\ Clearers(i)' = Clearers(i)
      BY <1>1, <2>1, Distinct DEF Sleepers, Clearers
    <3>. QED  BY <1>5, <2>1, <3>1 DEF Covered
  <2>. QED  BY <1>1, <1>4, <1>5, <2>1, <2>2, <2>3, <2>4, SlotStep, Distinct
<1>7. CASE wait[i] # {} /\ HandOverByTask(i, NoMsg) /\ Handed(i)
  <2>1. cnt' = cnt
    BY <1>7 DEF Handed
  <2>2. PICK h \in Task \ Granted(i) :
          on[h] = i /\ Granted(i)' = Granted(i) \cup {h}
    BY <1>1, <1>7, <2>1, HandOver_Effect, Distinct
  <2>3. /\ CoreInv' /\ on' = on
        /\ \A r \in Sem \ {i} : Granted(r)' = Granted(r)
        /\ \A t \in Task : dly[t] = 0 /\ statPend[t] = "ok"
                             => dly'[t] = 0 /\ statPend'[t] = "ok"
    BY <1>1, <1>7, <2>1, HandOver_Effect, Distinct
  <2>4. Places'
    BY <1>1, <2>3, UserFacts DEF Places, PlaceOf
  <2>5. LockAside
    BY <1>1, <2>1, <2>3, Distinct DEF LockAside
  <2>6. Covered(i)'
    <3>1. h \in Sleepers(i)
      BY <2>2, UserFacts, Distinct DEF Places, PlaceOf, Special, Sleepers
    <3>2. /\ \A t \in Client : t \in Sleepers(i)' <=> t \in Sleepers(i) /\ t # h
          /\ Clearers(i)' = Clearers(i)
      <4>1. pc[h] = "pend"
        BY <2>2, UserFacts, Distinct DEF Places, PlaceOf
      <4>. QED  BY <1>1, <2>2, <4>1 DEF Sleepers, Clearers
    <3>3. Sleepers(i)' = Sleepers(i) \ {h}
      BY <3>2 DEF Sleepers
    <3>4. Cardinality(Sleepers(i)') = Cardinality(Sleepers(i)) - 1
          /\ Cardinality(Sleepers(i)') \in Nat
      BY <3>1, <3>3, SleeperLeaves
    <3>. QED  BY <1>5, <2>1, <3>2, <3>4 DEF Covered
  <2>. QED  BY <1>1, <1>4, <1>5, <2>1, <2>3, <2>4, <2>5, <2>6, SlotStep, Distinct
<1>8. CASE PostRefused(i)
  <2>1. /\ CoreInv' /\ cnt' = cnt /\ UNCHANGED <<on, dly, statPend>>
        /\ \A r \in Sem : Granted(r)' = Granted(r)
        /\ cnt[i] = MaxCnt
    BY <1>8, Unchanged_Inv DEF PostRefused, core, tcbs, sems, Granted
  <2>2. Places'
    BY <1>1, <2>1 DEF Places, PlaceOf
  <2>3. LockAside
    BY <1>1, <2>1, Distinct DEF LockAside
  <2>4. Covered(i)'
    <3>1. Sleepers(i)' = Sleepers(i) /\ Clearers(i)' = Clearers(i)
      BY <1>1, <2>1, Distinct DEF Sleepers, Clearers
    <3>2. Cardinality(Sleepers(i)) + Cardinality(Clearers(i)) <= MaxCnt
      <4>1. Sleepers(i) \cap Clearers(i) = {}
        BY DEF Sleepers, Clearers
      <4>2. IsFiniteSet(Sleepers(i)) /\ IsFiniteSet(Clearers(i))
        BY SleepersFinite
      <4>3. Cardinality(Sleepers(i) \cup Clearers(i))
              = Cardinality(Sleepers(i)) + Cardinality(Clearers(i))
        <5>1. Cardinality(Sleepers(i) \cup Clearers(i))
                = Cardinality(Sleepers(i)) + Cardinality(Clearers(i))
                    - Cardinality(Sleepers(i) \cap Clearers(i))
          BY <4>2, FS_Union
        <5>2. Cardinality(Sleepers(i) \cap Clearers(i)) = 0
          BY <4>1, FS_EmptySet
        <5>. QED  BY <1>5, <5>1, <5>2
      <4>4. Sleepers(i) \cup Clearers(i) \subseteq Client
        BY DEF Sleepers, Clearers
      <4>5. IsFiniteSet(Client)
        BY UserFacts, FS_Subset
      <4>6. /\ Cardinality(Sleepers(i) \cup Clearers(i)) <= Cardinality(Client)
            /\ Cardinality(Client) \in Nat
        BY <4>4, <4>5, FS_Subset, FS_CardinalityType
      <4>. QED  BY <1>5, <4>3, <4>6
    <3>. QED  BY <1>5, <2>1, <3>1, <3>2 DEF Covered
  <2>. QED  BY <1>1, <1>4, <1>5, <2>1, <2>2, <2>3, <2>4, SlotStep, Distinct
<1>. QED  BY <1>3, <1>6, <1>7, <1>8 DEF OSSemPost

\* The end of a pend: on the lock, on the counter of packets, on a slot.
LEMMA PendOver_Inv ==
  ASSUME Inv, Resume
  PROVE  Inv'
<1>. USE DEF Inv
<1>1. /\ Wake /\ at[cur] = "wake" /\ CoreInv' /\ cnt' = cnt
      /\ UNCHANGED <<entry, armed, mine>>
  BY Wake_Inv DEF Resume, SemWake, Wake, table
<1>2. /\ cur \in Task /\ on[cur] \in Sem /\ on[cur] # NoMsg
  BY <1>1, Distinct DEF CoreInv, CoreTypeOK, PendingSound, PendingOf
<1>3. cur \in User
  BY <1>2, UserFacts DEF Places
<1>4. /\ on'[cur] = NoMsg /\ dly' = dly
      /\ \A t \in Task \ {cur} : on'[t] = on[t] /\ statPend'[t] = statPend[t]
  BY <1>1, <1>2 DEF Wake, CoreInv, CoreTypeOK
<1>5. \A r \in Sem : r # on[cur] \/ statPend[cur] # "ok" => Granted(r)' = Granted(r)
  BY <1>1, WakeGranted
<1>6. CASE on[cur] = Net
  <2>1. pc[cur] \in Inside /\ statPend[cur] = "ok" /\ pc' = pc
    BY <1>3, <1>6 DEF Places, PlaceOf, Resume, Inside
  <2>2. Cardinality(Granted(Net)') = Cardinality(Granted(Net)) - 1
    BY <1>1, <1>6, <2>1, WakeGranted, Distinct
  <2>3. TableTypeOK'
    BY <1>1, <2>1 DEF TableTypeOK
  <2>4. Places'
    <3>1. ASSUME NEW t \in User, t = cur  PROVE PlaceOf(t)'
      BY <1>1, <1>3, <1>4, <2>1, <3>1, Distinct DEF Places, PlaceOf
    <3>2. \A t \in User \ {cur} : PlaceOf(t)'
      BY <1>1, <1>4, <2>1, UserFacts DEF Places, PlaceOf
    <3>. QED  BY <1>3, <1>4, <3>1, <3>2, UserFacts DEF Places
  <2>5. NetCount'
    <3>1. Holders' = Holders \cup {cur} /\ cur \notin Holders
      BY <1>3, <1>4, <1>6, <2>1, UserFacts, Distinct DEF Holders
    <3>2. Cardinality(Holders') = Cardinality(Holders) + 1
      BY <3>1, HoldersFinite, FS_AddElement
    <3>. QED  BY <1>1, <2>2, <3>2, HoldersFinite, GrantedCard, Distinct DEF NetCount
  <2>6. SlotsAside
    BY <1>1, <1>5, <1>6, <2>1, Distinct DEF SlotsAside
  <2>. QED  BY <1>1, <2>3, <2>4, <2>5, <2>6, SlotsAside_Covered
<1>7. CASE on[cur] = Rx
  <2>1. pc' = pc
    <3>1. pc[cur] # "pend"
      BY <1>2, <1>3, <1>7, Distinct DEF Places, PlaceOf, Special
    <3>. QED  BY <3>1 DEF Resume
  <2>2. TableTypeOK'
    BY <1>1, <2>1 DEF TableTypeOK
  <2>3. Places'
    <3>1. ASSUME NEW t \in User, t = cur  PROVE PlaceOf(t)'
      BY <1>1, <1>3, <1>4, <2>1, <3>1, Distinct DEF Places, PlaceOf
    <3>2. \A t \in User \ {cur} : PlaceOf(t)'
      BY <1>1, <1>4, <2>1, UserFacts DEF Places, PlaceOf
    <3>. QED  BY <1>3, <1>4, <3>1, <3>2, UserFacts DEF Places
  <2>4. LockAside
    BY <1>1, <1>4, <1>5, <1>7, <2>1, UserFacts, Distinct DEF LockAside
  <2>5. SlotsAside
    BY <1>1, <1>5, <1>7, <2>1, Distinct DEF SlotsAside
  <2>. QED  BY <1>1, <2>2, <2>3, <2>4, <2>5, LockAside_Count, SlotsAside_Covered
<1>8. CASE on[cur] \in Slot
  <2>1. PICK i \in Slot : i = on[cur]
    BY <1>8
  <2>2. pc[cur] = "pend" /\ mine[cur] = i /\ cur \in Client
    BY <1>3, <2>1 DEF Places, PlaceOf, Special
  <2>3. PICK there \in {"clear", "relock"} :
          /\ there = "clear" <=> statPend[cur] = "timeout"
          /\ pc' = [pc EXCEPT ![cur] = there]
    BY <2>2 DEF Resume
  <2>4. /\ pc' \in [User -> Locations] /\ pc'[cur] = there
        /\ \A t \in User \ {cur} : pc'[t] = pc[t]
    BY <1>3, <2>3 DEF TableTypeOK, Locations
  <2>5. TableTypeOK'
    BY <1>1, <2>4 DEF TableTypeOK
  <2>6. Places'
    <3>1. ASSUME NEW t \in User, t = cur  PROVE PlaceOf(t)'
      BY <1>1, <1>4, <2>2, <2>4, <3>1, Distinct DEF PlaceOf, Special
    <3>2. \A t \in User \ {cur} : PlaceOf(t)'
      BY <1>1, <1>4, <2>4, UserFacts DEF Places, PlaceOf
    <3>. QED  BY <1>3, <1>4, <3>1, <3>2, UserFacts DEF Places
  <2>7. LockAside
    BY <1>1, <1>4, <1>5, <2>1, <2>2, <2>4, UserFacts, Distinct DEF LockAside, Inside
  <2>8. /\ Cardinality(Sleepers(i)) \in Nat /\ Cardinality(Clearers(i)) \in Nat
        /\ IsFiniteSet(Clearers(i)) /\ cnt'[i] = cnt[i] /\ entry'[i] = entry[i]
        /\ cnt[i] \in Nat
        /\ Cardinality(Sleepers(i)) + Cardinality(Clearers(i))
             <= cnt[i] + IF entry[i] = 0 THEN 0 ELSE 1
    BY <1>1, SleepersFinite, Distinct DEF Covered
  <2>9. Covered(i)'
    <3>1. CASE statPend[cur] = "ok"
      <4>1. cur \in Granted(i) /\ \A t \in Client \ {cur} : t \in Granted(i)' <=> t \in Granted(i)
        <5>1. cur \in Granted(i)
          <6>1. stat[cur] = {}
            <7>1. lock = 0 /\ at[cur] = "wake"
              BY <1>1 DEF CoreInv, CoreTypeOK, HighestRuns
            <7>. QED  BY <7>1, CurrentReady
          <6>. QED  BY <1>2, <2>1, <3>1, <6>1, Distinct
                    DEF Granted, CoreInv, PendingSound, PendingOf
        <5>2. \A t \in Task \ {cur} : t \in wait'[i] <=> t \in wait[i]
          BY <1>1, <1>2, Distinct DEF Wake, CoreInv, CoreTypeOK
        <5>. QED  BY <1>4, <5>1, <5>2, UserFacts DEF Granted
      <4>2. /\ \A t \in Client : t \in Sleepers(i)' <=> t \in Sleepers(i)
            /\ \A t \in Client : t \in Clearers(i)' <=> t \in Clearers(i)
        BY <1>1, <2>2, <2>3, <2>4, <3>1, <4>1, UserFacts DEF Sleepers, Clearers
      <4>3. Sleepers(i)' = Sleepers(i) /\ Clearers(i)' = Clearers(i)
        BY <4>2 DEF Sleepers, Clearers
      <4>. QED  BY <2>8, <4>3 DEF Covered
    <3>2. CASE statPend[cur] # "ok"
      <4>1. Granted(i)' = Granted(i) /\ cur \notin Granted(i)
        BY <1>5, <3>2, Distinct DEF Granted
      <4>2. cur \in Sleepers(i) /\ cur \notin Clearers(i)
        BY <2>2, <4>1 DEF Sleepers, Clearers
      <4>3. /\ \A t \in Client : t \in Sleepers(i)' <=> t \in Sleepers(i) /\ t # cur
            /\ \A t \in Client : t \in Clearers(i)' <=>
                 t \in Clearers(i) \/ (t = cur /\ there = "clear")
        BY <1>1, <2>2, <2>4, <4>1, UserFacts DEF Sleepers, Clearers
      <4>4. /\ Sleepers(i)' = Sleepers(i) \ {cur}
            /\ Clearers(i)' = IF there = "clear" THEN Clearers(i) \cup {cur}
                                                 ELSE Clearers(i)
        BY <2>2, <4>3 DEF Sleepers, Clearers
      <4>5. Cardinality(Sleepers(i)') = Cardinality(Sleepers(i)) - 1
        BY <4>2, <4>4, SleeperLeaves
      <4>6. Cardinality(Clearers(i)') \in {Cardinality(Clearers(i)), Cardinality(Clearers(i)) + 1}
        <5>1. Cardinality(Clearers(i) \cup {cur}) = Cardinality(Clearers(i)) + 1
          BY <2>8, <4>2, FS_AddElement
        <5>. QED  BY <4>4, <5>1
      <4>. QED  BY <2>8, <4>5, <4>6 DEF Covered
    <3>. QED  BY <3>1, <3>2
  <2>10. \A j \in Slot \ {i} : cnt'[j] = cnt[j] /\ Granted(j)' = Granted(j)
                                 /\ entry'[j] = entry[j]
    BY <1>1, <1>5, <2>1, Distinct
  <2>. QED  BY <1>1, <2>2, <2>4, <2>5, <2>6, <2>7, <2>9, <2>10, SlotStep, UserFacts
<1>. QED  BY <1>2, <1>6, <1>7, <1>8

-----------------------------------------------------------------------------
(* The theorems                                                            *)

\* The steps that neither enter nor leave the lock or a slot.
LEMMA Quiet_Inv ==
  ASSUME Inv,
         \/ cur \in Client /\ (Receive \/ TableFull \/ YieldFull \/ WaitOver)
         \/ cur = NetTask /\ \/ NetBlock \/ Demux \/ Yield("delay", "dequeue")
                             \/ \E c \in Client : Input(c)
                             \/ WakeupStart \/ WakeupEnd
         \/ Reschedule \/ Tick \/ \E c \in Client : Packet(c)
  PROVE  Inv'
<1>1. ASSUME NEW here \in Locations, NEW there \in Locations \ Special,
             here \notin Special, here \in Inside <=> there \in Inside,
             From(here, there), Running
      PROVE  Move
  <2>1. cur \in User /\ pc[cur] = here /\ pc' = [pc EXCEPT ![cur] = there]
    BY <1>1, UserFacts DEF From, Inv, CoreInv, CoreTypeOK
  <2>2. on[cur] = NoMsg
    BY <1>1, RunningFree DEF Inv
  <2>. QED  BY <1>1, <2>1, <2>2 DEF Move
<1>2. CASE cur \in Client /\ (Receive \/ TableFull \/ YieldFull \/ WaitOver)
  <2>1. Move
    BY <1>1, <1>2 DEF Receive, TableFull, YieldFull, WaitOver, Local, Yield,
                      OSTimeDly, Locations, Special, Inside
  <2>2. UNCHANGED sems /\ (UNCHANGED core \/ (cur # Idle /\ OSTimeDly(1)))
    BY <1>2 DEF Receive, TableFull, YieldFull, WaitOver, Local, Yield, From
  <2>3. UNCHANGED table
    BY <1>2 DEF Receive, TableFull, YieldFull, WaitOver, Yield
  <2>. QED  BY <2>1, <2>2, <2>3, Quiet_Aside, MoveAside_Inv
<1>3. CASE cur = NetTask /\ (\/ Demux \/ Yield("delay", "dequeue")
                             \/ \E c \in Client : Input(c)
                             \/ WakeupStart \/ WakeupEnd)
  <2>1. Move
    BY <1>1, <1>3 DEF Demux, Input, WakeupStart, WakeupEnd, OSSchedLock,
                      OSSchedUnlock, Local, Yield, OSTimeDly, Locations, Special, Inside
  <2>2. UNCHANGED sems /\ \/ UNCHANGED core \/ OSSchedLock \/ OSSchedUnlock
                          \/ cur # Idle /\ OSTimeDly(1)
    BY <1>3 DEF Demux, Input, WakeupStart, WakeupEnd, Local, Yield, From
  <2>3. UNCHANGED table
    BY <1>3 DEF Demux, Input, WakeupStart, WakeupEnd, Yield
  <2>. QED  BY <2>1, <2>2, <2>3, Quiet_Aside, MoveAside_Inv
<1>4. CASE cur = NetTask /\ NetBlock
  <2>1. Move
    BY <1>1, <1>4 DEF NetBlock, OSSemPend, Locations, Special, Inside
  <2>2. Aside /\ UNCHANGED table
    BY <1>4, Rx_Aside DEF NetBlock, From
  <2>. QED  BY <2>1, <2>2, MoveAside_Inv
<1>5. CASE Reschedule \/ Tick
  <2>1. UNCHANGED sems /\ pc' = pc /\ on' = on /\ UNCHANGED table
        /\ (OS_Sched \/ OSTimeTick)
    BY <1>5 DEF Reschedule, Tick, OS_Sched, OSTimeTick, Expire
  <2>. QED  BY <2>1, Quiet_Aside, MoveAside_Inv DEF Move
<1>6. ASSUME NEW c \in Client, Packet(c)  PROVE Inv'
  <2>1. pc' = pc /\ UNCHANGED table /\ (OSSemPostISR(Rx) \/ UNCHANGED <<core, sems>>)
    BY <1>6 DEF Packet, PostRefused
  <2>2. Aside
    BY <2>1, Rx_Aside
  <2>3. on' = on
    BY <2>1 DEF OSSemPostISR, AddCount, HandOverByISR, HandOver, core
  <2>. QED  BY <2>1, <2>2, <2>3, MoveAside_Inv DEF Move
<1>. QED  BY <1>2, <1>3, <1>4, <1>5, <1>6

LEMMA StepInv ==
  ASSUME Inv, [Next]_vars
  PROVE  Inv'
<1>1. CASE UNCHANGED vars
  <2>1. UNCHANGED core /\ UNCHANGED <<cnt, pc, entry, armed, mine>>
    BY <1>1 DEF vars, sems, table
  <2>2. CoreInv'
    BY <2>1, Unchanged_Inv DEF Inv
  <2>3. UNCHANGED <<cur, on, statPend, dly, wait>>
    BY <2>1 DEF core, tcbs
  <2>4. Holders' = Holders /\ Granted(Net)' = Granted(Net) /\ Places' = Places
    BY <2>1, <2>3 DEF Holders, Granted, Places, PlaceOf
  <2>5. \A i \in Slot : Covered(i)' = Covered(i)
    BY <2>1, <2>3 DEF Covered, Sleepers, Clearers, Granted
  <2>. QED  BY <2>1, <2>2, <2>4, <2>5 DEF Inv, TableTypeOK, NetCount
<1>2. CASE ClientStep
  <2>1. cur \in Client
    BY <1>2 DEF ClientStep
  <2>2. CASE Lock("lock", "check") \/ Lock("relock", "again")
    BY <2>2, Enter_Inv DEF Inside, Special
  <2>3. CASE Unlock("unlock", "lock") \/ Unlock("full", "yield")
    BY <2>3, Leave_Inv DEF Inside, Special, Locations
  <2>4. CASE Unlock("sleep", "pend")
    BY <2>4, Leave_Inv DEF Inside, Locations
  <2>. QED  BY <1>2, <2>1, <2>2, <2>3, <2>4, Claim_Inv, Sleep_Inv, ClearEntry_Inv,
               Quiet_Inv DEF ClientStep
<1>3. CASE NetStep
  <2>1. cur = NetTask
    BY <1>3 DEF NetStep
  <2>2. CASE Lock("dequeue", "input")
    BY <2>2, Enter_Inv DEF Inside, Special
  <2>3. CASE Unlock("leave", "demux")
    BY <2>3, Leave_Inv DEF Inside, Special, Locations
  <2>. QED  BY <1>3, <2>1, <2>2, <2>3, PostEntry_Inv, Quiet_Inv DEF NetStep
<1>. QED  BY <1>1, <1>2, <1>3, PendOver_Inv, Quiet_Inv DEF Next, Run

LEMMA InitInv == Init => Inv
<1>. SUFFICES ASSUME Init  PROVE Inv
  OBVIOUS
<1>1. CoreInv /\ on = [t \in Task |-> NoMsg] /\ cnt = InitCnt
  BY CoreInit_Inv DEF Init, CoreInit, SemInit
<1>2. /\ pc = [t \in User |-> IF t = NetTask THEN "block" ELSE "lock"]
      /\ entry = [i \in Slot |-> 0] /\ armed = {} /\ mine = [t \in Client |-> 0]
  BY DEF Init, User
<1>3. cnt \in [Sem -> 0 .. MaxCnt]
  BY <1>1
<1>4. TableTypeOK
  BY <1>2 DEF TableTypeOK, Locations
<1>5. Places
  <2>1. \A t \in User : on[t] = NoMsg /\ pc[t] \notin Special
    BY <1>1, <1>2, UserFacts DEF Special
  <2>2. on[Idle] = NoMsg
    BY <1>1, UserFacts
  <2>. QED  BY <2>1, <2>2, Distinct DEF Places, PlaceOf, Special
<1>6. \A s \in Sem : Granted(s) = {}
  BY <1>1, Distinct DEF Granted
<1>7. NetCount
  <2>1. Holders = {}
    BY <1>2 DEF Holders, Inside
  <2>2. cnt[Net] = 1
    BY <1>1, Distinct
  <2>3. Cardinality(Holders) = 0 /\ Cardinality(Granted(Net)) = 0
    BY <1>6, <2>1, FS_EmptySet, Distinct
  <2>. QED  BY <2>2, <2>3 DEF NetCount
<1>8. ASSUME NEW i \in Slot  PROVE Covered(i)
  <2>1. Sleepers(i) = {} /\ Clearers(i) = {}
    BY <1>2, UserFacts DEF Sleepers, Clearers
  <2>2. cnt[i] = 0 /\ entry[i] = 0
    BY <1>1, <1>2, Distinct
  <2>. QED  BY <2>1, <2>2, FS_EmptySet DEF Covered
<1>. QED  BY <1>1, <1>3, <1>4, <1>5, <1>7, <1>8 DEF Inv

THEOREM SleepInvariant == Spec => []Inv
BY InitInv, StepInv, PTL DEF Spec

\* One task at a time is inside the stack: the lock's semaphore has one count
\* for the tasks inside, those that were handed it and itself.
THEOREM StackExclusive == Spec => []NetExclusive
<1>1. Inv => NetExclusive
  <2>. SUFFICES ASSUME Inv  PROVE Cardinality(Holders) <= 1
    BY DEF NetExclusive, Holders, User
  <2>1. cnt[Net] \in Nat /\ Cardinality(Granted(Net)) \in Nat
    BY GrantedCard, Distinct DEF Inv
  <2>. QED  BY <2>1, HoldersFinite DEF Inv, NetCount
<1>. QED  BY <1>1, SleepInvariant, PTL

\* A slot has an entry or a count for every task that sleeps in it or is
\* about to clear it, for any number of tasks and of slots.
THEOREM NobodySleepsUncalled == Spec => []SleepersCanBeCalled
<1>1. Inv => SleepersCanBeCalled
  BY DEF Inv, Covered, SleepersCanBeCalled
<1>. QED  BY <1>1, SleepInvariant, PTL

===============================================================================
