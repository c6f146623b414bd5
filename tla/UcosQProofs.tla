----------------------------- MODULE UcosQProofs -----------------------------
(***************************************************************************)
(* Theorems about the whole kernel of UcosQ: for any number of tasks,      *)
(* semaphores, queues and messages, any counts, delays and ring size.      *)
(***************************************************************************)
EXTENDS UcosQ, UcosCoreProofs, SequenceTheorems

USE KernelAssumption, SemAssumption, QueueAssumption
DEF KernelAssumption, SemAssumption, QueueAssumption

RingTypeOK ==
  /\ buf \in [Queue -> [Slot -> Msg \cup {NoMsg}]]
  /\ qin \in [Queue -> Slot] /\ qout \in [Queue -> Slot]
  /\ entries \in [Queue -> 0 .. QSize]

OwedTypeOK == owed \in [Queue -> [Msg -> Int]]

SemInv == SemTypeOK /\ NoPostLost

-----------------------------------------------------------------------------
(* What the parts of a step do to the variables of Ucos                    *)

LEMMA CoreStep ==
  ASSUME CoreInv, Next
  PROVE  CoreInv'
<1>1. CASE OS_Sched \/ TaskService
  BY <1>1, Sched_Inv, TaskService_Inv
<1>2. CASE QWake
  BY <1>2, Wake_Inv DEF QWake, SemWake
<1>3. CASE SemService
  <2>1. CASE UNCHANGED core
    BY <2>1, Unchanged_Inv
  <2>2. ASSUME NEW s \in Sem, OSSemPost(s)  PROVE CoreInv'
    <3>1. s \in Event /\ NoMsg \in Msg \cup {NoMsg}
      BY DEF Event
    <3>. QED  BY <2>1, <2>2, <3>1, HandOver_Inv DEF OSSemPost, AddCount
  <2>3. ASSUME NEW s \in Sem, NEW timeout \in 0 .. MaxDelay, OSSemPend(s, timeout),
               cur # Idle
        PROVE  CoreInv'
    <3>1. s \in Event
      BY DEF Event
    <3>. QED  BY <2>1, <2>3, <3>1, Block_Inv DEF OSSemPend, TakeCount
  <2>. QED  BY <1>3, <2>1, <2>2, <2>3
            DEF SemService, OSSemAccept, TakeCount, OSSemSet
<1>4. CASE QService
  <2>1. CASE UNCHANGED core
    BY <2>1, Unchanged_Inv
  <2>2. ASSUME NEW e \in Queue, NEW m \in Msg, OSQPost(e, m)  PROVE CoreInv'
    <3>1. e \in Event /\ m \in Msg \cup {NoMsg}
      BY DEF Event
    <3>. QED  BY <2>1, <2>2, <3>1, HandOver_Inv DEF OSQPost, Insert, InsertFront
  <2>3. ASSUME NEW e \in Queue, NEW m \in Msg, Broadcast(e, m)  PROVE CoreInv'
    <3>1. e \in Event /\ m \in Msg \cup {NoMsg} /\ Ending
      BY <2>3 DEF Event, Broadcast, Ending
    <3>2. EventTaskRdy(e, wait[e], m, "ok")
      BY <2>3 DEF Broadcast
    <3>. QED  BY <3>1, <3>2, EventTaskRdy_Inv
  <2>4. ASSUME NEW e \in Queue, NEW timeout \in 0 .. MaxDelay, OSQPend(e, timeout),
               cur # Idle
        PROVE  CoreInv'
    <3>1. e \in Event
      BY DEF Event
    <3>. QED  BY <2>1, <2>4, <3>1, Block_Inv DEF OSQPend, Extract
  <2>. QED  BY <1>4, <2>1, <2>2, <2>3, <2>4
            DEF QService, OSQAccept, Extract, OSQFlush
<1>5. CASE Tick
  BY <1>5, TimeTick_Inv DEF Tick
<1>6. CASE ISR
  <2>1. CASE UNCHANGED core
    BY <2>1, Unchanged_Inv
  <2>2. ASSUME NEW s \in Sem, OSSemPostISR(s)  PROVE CoreInv'
    <3>1. s \in Event /\ NoMsg \in Msg \cup {NoMsg}
      BY DEF Event
    <3>. QED  BY <2>1, <2>2, <3>1, HandOver_Inv DEF OSSemPostISR, AddCount
  <2>3. ASSUME NEW e \in Queue, NEW m \in Msg, OSQPostISR(e, m)  PROVE CoreInv'
    <3>1. e \in Event /\ m \in Msg \cup {NoMsg}
      BY DEF Event
    <3>. QED  BY <2>1, <2>3, <3>1, HandOver_Inv DEF OSQPostISR, Insert, InsertFront
  <2>. QED  BY <1>6, <2>2, <2>3 DEF ISR
<1>. QED  BY <1>1, <1>2, <1>3, <1>4, <1>5, <1>6 DEF Next

-----------------------------------------------------------------------------
(* The ring                                                                *)

LEMMA Neighbours ==
  ASSUME NEW i \in Slot
  PROVE  After(i) \in Slot /\ Before(i) \in Slot
BY DEF After, Before, Slot

LEMMA Extract_Ring ==
  ASSUME RingTypeOK, NEW e \in Queue, Extract(e)
  PROVE  RingTypeOK'
<1>1. /\ qout' = [qout EXCEPT ![e] = After(@)] /\ entries[e] > 0
      /\ entries' = [entries EXCEPT ![e] = @ - 1] /\ UNCHANGED <<buf, qin>>
  BY DEF Extract
<1>. QED  BY <1>1, Neighbours DEF RingTypeOK

LEMMA Insert_Ring ==
  ASSUME RingTypeOK, NEW e \in Queue, NEW m \in Msg, Insert(e, m) \/ InsertFront(e, m)
  PROVE  RingTypeOK'
<1>1. PICK i \in Slot :
        /\ buf' = [buf EXCEPT ![e][i] = m]
        /\ \/ qin' = [qin EXCEPT ![e] = After(@)] /\ qout' = qout
           \/ qout' = [qout EXCEPT ![e] = Before(@)] /\ qin' = qin
        /\ entries[e] < QSize
        /\ entries' = [entries EXCEPT ![e] = @ + 1]
  BY Neighbours DEF Insert, InsertFront, RingTypeOK
<1>2. buf' \in [Queue -> [Slot -> Msg \cup {NoMsg}]]
  BY <1>1 DEF RingTypeOK
<1>3. entries' \in [Queue -> 0 .. QSize]
  BY <1>1 DEF RingTypeOK
<1>4. qin' \in [Queue -> Slot] /\ qout' \in [Queue -> Slot]
  <2>1. After(qin[e]) \in Slot /\ Before(qout[e]) \in Slot
    BY Neighbours DEF RingTypeOK
  <2>. QED  BY <1>1, <2>1 DEF RingTypeOK
<1>. QED  BY <1>2, <1>3, <1>4 DEF RingTypeOK

LEMMA RingStep ==
  ASSUME RingTypeOK, Next
  PROVE  RingTypeOK'
<1>1. CASE UNCHANGED ring
  BY <1>1 DEF ring, RingTypeOK
<1>2. CASE \E e \in Queue : Extract(e)
  BY <1>2, Extract_Ring
<1>3. CASE \E e \in Queue, m \in Msg : Insert(e, m) \/ InsertFront(e, m)
  BY <1>3, Insert_Ring
<1>4. ASSUME NEW e \in Queue, OSQFlush(e)  PROVE RingTypeOK'
  BY <1>4 DEF OSQFlush, RingTypeOK, Slot
<1>5. QService => \/ UNCHANGED ring \/ \E e \in Queue : Extract(e)
                  \/ \E e \in Queue, m \in Msg : Insert(e, m) \/ InsertFront(e, m)
                  \/ \E e \in Queue : OSQFlush(e)
  BY DEF QService, OSQAccept, OSQPend, OSQPost, Broadcast
<1>6. ISR => UNCHANGED ring
             \/ \E e \in Queue, m \in Msg : Insert(e, m) \/ InsertFront(e, m)
  BY DEF ISR, OSQPostISR
<1>. QED  BY <1>1, <1>2, <1>3, <1>4, <1>5, <1>6 DEF Next, Tick, QWake

-----------------------------------------------------------------------------
(* The history of the queues                                               *)

LEMMA Owe_Type ==
  ASSUME OwedTypeOK, NEW e \in Queue, NEW m, NEW n \in Int, Owe(e, m, n)
  PROVE  OwedTypeOK'
<1>. DEFINE f == [owed[e] EXCEPT ![m] = owed[e][m] + n]
<1>1. owed' = [owed EXCEPT ![e] = f] /\ owed[e] \in [Msg -> Int]
  BY DEF Owe, OwedTypeOK
<1>2. f \in [Msg -> Int]
  <2>1. \A x \in Msg : f[x] = IF x = m THEN owed[e][m] + n ELSE owed[e][x]
    BY <1>1
  <2>2. f = [x \in Msg |-> f[x]]
    BY <1>1
  <2>3. \A x \in Msg : f[x] \in Int
    BY <1>1, <2>1
  <2>. HIDE DEF f
  <2>. QED  BY <2>2, <2>3
<1>. HIDE DEF f
<1>. QED  BY <1>1, <1>2 DEF OwedTypeOK

LEMMA OwedStep ==
  ASSUME CoreInv, RingTypeOK, OwedTypeOK, Next
  PROVE  OwedTypeOK'
<1>1. CASE UNCHANGED owed
  BY <1>1 DEF OwedTypeOK
<1>2. ASSUME NEW e \in Queue, NEW m, NEW n \in Int, Owe(e, m, n)
      PROVE  OwedTypeOK'
  BY <1>2, Owe_Type
<1>3. \A e \in Queue : Cardinality(wait[e]) \in Int
  <2>1. ASSUME NEW e \in Queue  PROVE IsFiniteSet(wait[e])
    <3>1. wait[e] \in SUBSET (0 .. Idle)
      BY DEF CoreInv, CoreTypeOK, Event, Task
    <3>2. IsFiniteSet(0 .. Idle)
      BY FS_Interval
    <3>. QED  BY <3>1, <3>2, FS_Subset
  <2>. QED  BY <2>1, FS_CardinalityType
<1>4. ASSUME NEW e \in Queue, OSQFlush(e)  PROVE OwedTypeOK'
  <2>1. ASSUME NEW m \in Msg  PROVE Occurrences(Contents[e], m) \in Int
    <3>1. entries[e] \in Nat /\ DOMAIN Contents[e] = 1 .. entries[e]
      BY DEF RingTypeOK, Contents
    <3>2. IsFiniteSet(1 .. entries[e])
      <4>1. 1 \in Int /\ entries[e] \in Int
        BY <3>1
      <4>. QED  BY <4>1, FS_Interval, Zenon
    <3>2a. IsFiniteSet(DOMAIN Contents[e])
      BY <3>1, <3>2, Zenon
    <3>3. IsFiniteSet({i \in DOMAIN Contents[e] : Contents[e][i] = m})
      BY <3>2a, FS_Subset
    <3>. QED  BY <3>3, FS_CardinalityType DEF Occurrences
  <2>2. [m \in Msg |-> owed[e][m] - Occurrences(Contents[e], m)] \in [Msg -> Int]
    BY <2>1 DEF OwedTypeOK
  <2>. QED  BY <1>4, <2>2 DEF OSQFlush, OwedTypeOK
<1>5. CASE QService
  <2>1. PICK e \in Queue :
          \/ UNCHANGED owed \/ OSQFlush(e)
          \/ \E m : Owe(e, m, -1) \/ Owe(e, m, 1) \/ Owe(e, m, Cardinality(wait[e]))
    BY <1>5 DEF QService, OSQAccept, OSQPend, OSQPost, Broadcast, Extract, Insert,
       InsertFront
  <2>. QED  BY <1>1, <1>2, <1>3, <1>4, <2>1
<1>6. CASE ISR
  BY <1>1, <1>2, <1>6 DEF ISR, OSQPostISR, Insert, InsertFront
<1>7. CASE QWake
  BY <1>1, <1>2, <1>7 DEF QWake
<1>. QED  BY <1>1, <1>5, <1>6, <1>7 DEF Next, Tick

-----------------------------------------------------------------------------
(* The counts                                                              *)

\* The types of the counts, and the count of one semaphore moves with its
\* balance.
LEMMA Count_Sem ==
  ASSUME SemInv, CoreInv, NEW s \in Sem, NEW n \in 0 .. MaxCnt, UNCHANGED core,
         cnt' = [cnt EXCEPT ![s] = n],
         balance' = [balance EXCEPT ![s] = @ + n - cnt[s]]
  PROVE  SemInv'
<1>. USE DEF SemInv, SemTypeOK
<1>1. SemTypeOK'
  OBVIOUS
<1>2. \A r \in Sem : Granted(r)' = Granted(r)
  BY DEF core, tcbs, Granted
<1>3. ASSUME NEW r \in Sem  PROVE balance'[r] = cnt'[r] + Cardinality(Granted(r)')
  <2>1. balance'[r] - cnt'[r] = balance[r] - cnt[r]
    OBVIOUS
  <2>. QED  BY <1>1, <1>2, <2>1, BalanceKept DEF NoPostLost
<1>. QED  BY <1>1, <1>3 DEF NoPostLost

LEMMA Take_Sem ==
  ASSUME SemInv, CoreInv, NEW s \in Sem, TakeCount(s)
  PROVE  SemInv'
<1>1. cnt[s] \in 1 .. MaxCnt /\ balance[s] \in Int
  BY DEF TakeCount, SemInv, SemTypeOK
<1>2. cnt[s] - 1 \in 0 .. MaxCnt /\ balance[s] - 1 = balance[s] + (cnt[s] - 1) - cnt[s]
  BY <1>1
<1>. QED  BY <1>2, Count_Sem DEF TakeCount

LEMMA Add_Sem ==
  ASSUME SemInv, CoreInv, NEW s \in Sem, AddCount(s)
  PROVE  SemInv'
<1>1. cnt[s] \in 0 .. MaxCnt - 1 /\ balance[s] \in Int
  BY DEF AddCount, SemInv, SemTypeOK
<1>2. cnt[s] + 1 \in 0 .. MaxCnt /\ balance[s] + 1 = balance[s] + (cnt[s] + 1) - cnt[s]
  BY <1>1
<1>. QED  BY <1>2, Count_Sem DEF AddCount

LEMMA Same_Sem ==
  ASSUME SemInv, UNCHANGED sems, \A s \in Sem : Granted(s)' = Granted(s)
  PROVE  SemInv'
BY DEF SemInv, SemTypeOK, sems, NoPostLost

LEMMA HandOver_Sem ==
  ASSUME SemInv, CoreInv, NEW s \in Sem, wait[s] # {}, on' = on,
         HandOver(s, NoMsg), Handed(s)
  PROVE  SemInv'
<1>. USE DEF SemInv, SemTypeOK, Handed
<1>1. SemTypeOK'
  OBVIOUS
<1>2. balance'[s] = cnt'[s] + Cardinality(Granted(s)')
  <2>1. Cardinality(Granted(s)') = Cardinality(Granted(s)) + 1
    BY HandOverGranted
  <2>2. Cardinality(Granted(s)) \in Nat
    BY GrantedFinite, FS_CardinalityType
  <2>. QED  BY <2>1, <2>2 DEF NoPostLost
<1>3. ASSUME NEW r \in Sem \ {s}
      PROVE  balance'[r] = cnt'[r] + Cardinality(Granted(r)')
  <2>1. s \in Event /\ {Highest(wait[s])} \in SUBSET wait[s]
    BY FirstWaits DEF Event
  <2>2. Granted(r)' = Granted(r)
    BY <2>1, AbortGranted DEF HandOver
  <2>. QED  BY <2>2 DEF NoPostLost
<1>. QED  BY <1>1, <1>2, <1>3 DEF NoPostLost

LEMMA Wake_Sem ==
  ASSUME SemInv, CoreInv, SemWake
  PROVE  SemInv'
<1>. USE DEF SemInv, SemTypeOK
<1>1. /\ Wake /\ cnt' = cnt
      /\ balance' = [s \in Sem |-> IF s = on[cur] /\ statPend[cur] = "ok"
                                   THEN balance[s] - 1 ELSE balance[s]]
  BY DEF SemWake
<1>2. SemTypeOK'
  BY <1>1
<1>3. ASSUME NEW s \in Sem  PROVE balance'[s] = cnt'[s] + Cardinality(Granted(s)')
  <2>1. Cardinality(Granted(s)) \in Nat
    BY GrantedFinite, FS_CardinalityType
  <2>2. CASE s = on[cur] /\ statPend[cur] = "ok"
    <3>1. Cardinality(Granted(s)') = Cardinality(Granted(s)) - 1
      BY <1>1, <2>2, WakeGranted
    <3>2. balance'[s] = balance[s] - 1 /\ balance[s] \in Int /\ cnt[s] \in Nat
      BY <1>1, <2>2
    <3>. QED  BY <1>1, <2>1, <3>1, <3>2 DEF NoPostLost
  <2>3. CASE ~ (s = on[cur] /\ statPend[cur] = "ok")
    <3>1. Granted(s)' = Granted(s)
      BY <1>1, <2>3, WakeGranted
    <3>. QED  BY <1>1, <2>3, <3>1 DEF NoPostLost
  <2>. QED  BY <2>2, <2>3
<1>. QED  BY <1>2, <1>3 DEF NoPostLost

LEMMA Block_Sem ==
  ASSUME SemInv, CoreInv, NEW e \in Event, NEW timeout, Running, Block(e, timeout),
         UNCHANGED sems
  PROVE  SemInv'
BY BlockGranted, Same_Sem

LEMMA SemService_Sem ==
  ASSUME SemInv, CoreInv, SemService
  PROVE  SemInv'
<1>. PICK s \in Sem :
       \/ OSSemAccept(s) \/ OSSemPost(s)
       \/ \E timeout \in 0 .. MaxDelay : OSSemPend(s, timeout)
       \/ \E n \in 0 .. MaxCnt : OSSemSet(s, n)
  BY DEF SemService
<1>1. CASE TakeCount(s)
  BY <1>1, Take_Sem
<1>2. CASE AddCount(s)
  BY <1>2, Add_Sem
<1>3. CASE wait[s] # {} /\ HandOverByTask(s, NoMsg) /\ Handed(s)
  BY <1>3, HandOver_Sem DEF HandOverByTask, ThenSched
<1>4. ASSUME NEW timeout, Running, Block(s, timeout), UNCHANGED sems
      PROVE  SemInv'
  <2>1. s \in Event
    BY DEF Event
  <2>. QED  BY <1>4, <2>1, Block_Sem
<1>5. ASSUME NEW n \in 0 .. MaxCnt, OSSemSet(s, n)
      PROVE  SemInv'
  BY <1>5, Count_Sem DEF OSSemSet
<1>. QED  BY <1>1, <1>2, <1>3, <1>4, <1>5 DEF OSSemAccept, OSSemPost, OSSemPend

\* What a step on queues does to the control blocks, and to no semaphore.
LEMMA QStep_Sem ==
  ASSUME SemInv, CoreInv, NEW e \in Queue, UNCHANGED sems,
         \/ UNCHANGED core
         \/ wait[e] # {} /\ \E m \in Msg : HandOver(e, m) /\ on' = on
         \/ \E m \in Msg : EventTaskRdy(e, wait[e], m, "ok") /\ on' = on
         \/ Running /\ \E timeout \in 0 .. MaxDelay : Block(e, timeout)
  PROVE  SemInv'
<1>0. e \in Event /\ e \notin Sem
  BY DEF Event
<1>1. CASE UNCHANGED core
  BY <1>1, Same_Sem DEF core, tcbs, Granted
<1>2. CASE wait[e] # {} /\ \E m \in Msg : HandOver(e, m) /\ on' = on
  <2>1. {Highest(wait[e])} \in SUBSET wait[e]
    BY <1>0, <1>2, FirstWaits
  <2>2. \A s \in Sem : Granted(s)' = Granted(s)
    BY <1>0, <1>2, <2>1, AbortGranted DEF HandOver
  <2>. QED  BY <2>2, Same_Sem
<1>3. CASE \E m \in Msg : EventTaskRdy(e, wait[e], m, "ok") /\ on' = on
  <2>1. \A s \in Sem : Granted(s)' = Granted(s)
    BY <1>0, <1>3, AbortGranted
  <2>. QED  BY <2>1, Same_Sem
<1>4. CASE Running /\ \E timeout \in 0 .. MaxDelay : Block(e, timeout)
  BY <1>0, <1>4, Block_Sem
<1>. QED  BY <1>1, <1>2, <1>3, <1>4

LEMMA SemStep ==
  ASSUME SemInv, CoreInv, Next
  PROVE  SemInv'
<1>1. CASE (OS_Sched \/ TaskService) /\ UNCHANGED sems
  BY <1>1, TaskServiceGranted, Same_Sem
<1>2. CASE Tick
  BY <1>2, TaskServiceGranted, Same_Sem DEF Tick
<1>3. CASE QWake
  BY <1>3, Wake_Sem DEF QWake
<1>4. CASE SemService
  BY <1>4, SemService_Sem
<1>5. CASE QService
  <2>1. PICK e \in Queue :
          /\ UNCHANGED sems
          /\ \/ UNCHANGED core
             \/ wait[e] # {} /\ \E m \in Msg : HandOver(e, m) /\ on' = on
             \/ \E m \in Msg : EventTaskRdy(e, wait[e], m, "ok") /\ on' = on
             \/ Running /\ \E timeout \in 0 .. MaxDelay : Block(e, timeout)
    BY <1>5 DEF QService, OSQAccept, Extract, OSQFlush, OSQPend, OSQPost, Insert,
       InsertFront, Broadcast, HandOverByTask, ThenSched
  <2>. QED  BY <2>1, QStep_Sem
<1>6. CASE ISR
  <2>1. ASSUME NEW s \in Sem, OSSemPostISR(s)  PROVE SemInv'
    BY <2>1, Add_Sem, HandOver_Sem DEF OSSemPostISR, HandOverByISR
  <2>2. ASSUME NEW e \in Queue, NEW m \in Msg, OSQPostISR(e, m)  PROVE SemInv'
    <3>1. /\ UNCHANGED sems
          /\ \/ UNCHANGED core
             \/ wait[e] # {} /\ HandOver(e, m) /\ on' = on
      BY <2>2 DEF OSQPostISR, Insert, InsertFront, HandOverByISR
    <3>. QED  BY <3>1, QStep_Sem
  <2>. QED  BY <1>6, <2>1, <2>2 DEF ISR
<1>. QED  BY <1>1, <1>2, <1>3, <1>4, <1>5, <1>6 DEF Next

-----------------------------------------------------------------------------
(* The theorems                                                            *)

Inv == CoreInv /\ RingTypeOK /\ SemInv /\ OwedTypeOK

LEMMA InitInv == Init => Inv
<1>. SUFFICES ASSUME Init  PROVE Inv
  OBVIOUS
<1>1. CoreInv
  BY CoreInit_Inv DEF Init
<1>2. RingTypeOK /\ OwedTypeOK
  BY DEF Init, QInit, RingTypeOK, OwedTypeOK, Slot
<1>3. SemTypeOK
  BY DEF Init, SemInit, SemTypeOK
<1>4. ASSUME NEW s \in Sem  PROVE balance[s] = cnt[s] + Cardinality(Granted(s))
  <2>1. Granted(s) = {}
    BY DEF Init, CoreInit, Granted, Event
  <2>2. Cardinality(Granted(s)) = 0
    BY <2>1, FS_EmptySet
  <2>. QED  BY <1>3, <2>2 DEF Init, SemInit, SemTypeOK
<1>. QED  BY <1>1, <1>2, <1>3, <1>4 DEF Inv, SemInv, NoPostLost

LEMMA StepInv == Inv /\ [Next]_vars => Inv'
<1>. SUFFICES ASSUME Inv, [Next]_vars  PROVE Inv'
  OBVIOUS
<1>. USE DEF Inv
<1>1. CASE Next
  BY <1>1, CoreStep, RingStep, SemStep, OwedStep
<1>2. CASE UNCHANGED vars
  <2>1. UNCHANGED core /\ UNCHANGED sems /\ UNCHANGED ring /\ OwedTypeOK'
    BY <1>2 DEF vars, OwedTypeOK
  <2>2. RingTypeOK' /\ \A s \in Sem : Granted(s)' = Granted(s)
    BY <2>1 DEF ring, RingTypeOK, core, tcbs, Granted
  <2>. QED  BY <2>1, <2>2, Unchanged_Inv, Same_Sem
<1>. QED  BY <1>1, <1>2

\* The invariant holds in every reachable state of the kernel.
THEOREM KernelInvariant == Spec => []Inv
<1>1. Init => Inv
  BY InitInv
<1>2. Inv /\ [Next]_vars => Inv'
  BY StepInv
<1>. QED  BY <1>1, <1>2, PTL DEF Spec

\* The control blocks, the tables, the counts and the rings keep their ranges,
\* a count never passes its largest value (os_sem.c:476).
THEOREM KernelTypes == Spec => []TypeOK
<1>1. Inv => TypeOK
  BY DEF Inv, CoreInv, SemInv, RingTypeOK, OwedTypeOK, TypeOK
<1>. QED  BY <1>1, KernelInvariant, PTL

\* The table of ready tasks holds exactly the tasks that nothing keeps from
\* running (os_core.c:902, 1027, os_task.c:815).
THEOREM KernelReady == Spec => []ReadyIffRunnable
<1>1. Inv => ReadyIffRunnable
  BY DEF Inv, CoreInv
<1>. QED  BY <1>1, KernelInvariant, PTL

\* Preemption: the highest task that is ready runs (os_core.c:1610).
THEOREM KernelPriority == Spec => []HighestRuns
<1>1. Inv => HighestRuns
  BY DEF Inv, CoreInv
<1>. QED  BY <1>1, KernelInvariant, PTL

\* Every post of a semaphore is counted or handed to exactly one task
\* (os_core.c:902, os_sem.c:336, 453).
THEOREM KernelPosts == Spec => []NoPostLost
<1>1. Inv => NoPostLost
  BY DEF Inv, SemInv
<1>. QED  BY <1>1, KernelInvariant, PTL

\* WaitListSound, proved: a task is in the wait list of the event it pends on,
\* and in no other, from the moment it blocks until it is posted to, or until it
\* runs again after its timeout (os_core.c:902, os_sem.c:336).
THEOREM KernelWaitLists == Spec => []WaitListSound
<1>1. CoreInv => WaitListSound
  <2>. SUFFICES ASSUME CoreInv, NEW e \in Event
                PROVE  wait[e] = {t \in Task :
                         /\ on[t] = e
                         /\ at[t] \in {"block", "wake"}
                         /\ Bit(e) \in stat[t] \/ statPend[t] = "timeout"}
    BY DEF WaitListSound
  <2>1. wait[e] \subseteq Task
    BY DEF CoreInv, CoreTypeOK
  <2>2. ASSUME NEW t \in Task
        PROVE  t \in wait[e] <=>
                 /\ on[t] = e
                 /\ at[t] \in {"block", "wake"}
                 /\ Bit(e) \in stat[t] \/ statPend[t] = "timeout"
    BY DEF CoreInv, PendingSound, PendingOf
  <2>. QED  BY <2>1, <2>2
<1>. QED  BY <1>1, KernelInvariant, PTL DEF Inv

\* Steps that leave the counts alone and let only tasks wait that found none.
NoNewWaiter ==
  UNCHANGED cnt /\ \A s \in Sem : wait'[s] \subseteq wait[s] \/ cnt[s] = 0

LEMMA EventTaskRdyWait ==
  ASSUME CoreTypeOK, NEW e \in Event, NEW W, NEW m, NEW why,
         EventTaskRdy(e, W, m, why)
  PROVE  \A f \in Event : wait'[f] \subseteq wait[f]
BY DEF EventTaskRdy, CoreTypeOK

LEMMA CountStep ==
  ASSUME CoreInv, SemTypeOK, CountOrWaiters, [Next]_vars
  PROVE  CountOrWaiters'
<1>t. CoreTypeOK /\ cnt \in [Sem -> Nat] /\ \A s \in Sem : s \in Event
  BY SemAssumption DEF CoreInv, SemTypeOK, Event
<1>1. ASSUME NoNewWaiter  PROVE CountOrWaiters'
  BY <1>1 DEF NoNewWaiter, CountOrWaiters
<1>2. ASSUME NEW e \in Event, NEW W, NEW m, NEW why,
             EventTaskRdy(e, W, m, why), UNCHANGED cnt
      PROVE  CountOrWaiters'
  BY <1>1, <1>2, <1>t, EventTaskRdyWait DEF NoNewWaiter
<1>3. ASSUME NEW e \in Event, NEW timeout, Block(e, timeout), UNCHANGED cnt,
             e \in Sem => cnt[e] = 0
      PROVE  CountOrWaiters'
  <2>1. \A f \in Event \ {e} : wait'[f] = wait[f]
    BY <1>3, <1>t DEF Block, CoreTypeOK
  <2>. QED  BY <1>1, <1>3, <1>t, <2>1 DEF NoNewWaiter
<1>4. ASSUME UNCHANGED <<wait, cnt>>  PROVE CountOrWaiters'
  BY <1>4 DEF CountOrWaiters
<1>5. ASSUME NEW s \in Sem, UNCHANGED wait, cnt[s] > 0 \/ wait[s] = {},
             NEW n, cnt' = [cnt EXCEPT ![s] = n]
      PROVE  CountOrWaiters'
  BY <1>5, <1>t DEF CountOrWaiters
<1>6. CASE (OS_Sched /\ UNCHANGED sems) \/ Tick \/ UNCHANGED vars
  BY <1>4, <1>6 DEF OS_Sched, Tick, OSTimeTick, Expire, vars, core, sems
<1>7. CASE TaskService /\ UNCHANGED sems
  <2>1. ASSUME NEW e \in Event, NEW all \in BOOLEAN, PendAbort(e, all)
        PROVE  CountOrWaiters'
    BY <1>2, <1>7, <2>1 DEF PendAbort, sems
  <2>2. ASSUME UNCHANGED wait  PROVE CountOrWaiters'
    BY <1>4, <1>7, <2>2 DEF sems
  <2>. QED  BY <1>7, <2>1, <2>2 DEF TaskService, OSSchedLock, OSSchedUnlock,
       OSTimeDly, OSTimeDlyResume, Expire, OSTaskSuspend, OSTaskResume
<1>8. CASE QWake
  <2>1. UNCHANGED cnt /\ \A e \in Event : wait'[e] \subseteq wait[e]
    BY <1>8 DEF QWake, SemWake, Wake
  <2>. QED  BY <1>1, <1>t, <2>1 DEF NoNewWaiter
<1>9. ASSUME NEW s \in Sem, TakeCount(s) \/ AddCount(s)  PROVE CountOrWaiters'
  <2>1. PICK n : cnt' = [cnt EXCEPT ![s] = n]
    BY <1>9 DEF TakeCount, AddCount
  <2>2. UNCHANGED wait /\ (cnt[s] > 0 \/ wait[s] = {})
    BY <1>9 DEF TakeCount, AddCount, core
  <2>. QED  BY <1>5, <2>1, <2>2
<1>10. CASE SemService
  <2>1. PICK s \in Sem :
          \/ OSSemAccept(s) \/ OSSemPost(s)
          \/ \E timeout \in 0 .. MaxDelay : OSSemPend(s, timeout)
          \/ \E n \in 0 .. MaxCnt : OSSemSet(s, n)
    BY <1>10 DEF SemService
  <2>2. ASSUME NEW timeout, cnt[s] = 0, Block(s, timeout), UNCHANGED sems
        PROVE  CountOrWaiters'
    BY <1>3, <1>t, <2>2 DEF sems
  <2>3. ASSUME NEW n, OSSemSet(s, n)  PROVE CountOrWaiters'
    <3>1. UNCHANGED wait /\ (cnt[s] > 0 \/ wait[s] = {})
          /\ cnt' = [cnt EXCEPT ![s] = n]
      BY <2>3 DEF OSSemSet, core
    <3>. QED  BY <1>5, <3>1
  <2>4. ASSUME HandOver(s, NoMsg), Handed(s)  PROVE CountOrWaiters'
    BY <1>2, <1>t, <2>4 DEF HandOver, Handed
  <2>. QED  BY <1>9, <2>1, <2>2, <2>3, <2>4
            DEF OSSemAccept, OSSemPost, OSSemPend, HandOverByTask
<1>11. CASE QService
  <2>1. PICK e \in Queue :
          /\ UNCHANGED cnt
          /\ \/ UNCHANGED wait
             \/ \E W, m : EventTaskRdy(e, W, m, "ok")
             \/ \E timeout \in 0 .. MaxDelay : Block(e, timeout)
    BY <1>11 DEF QService, OSQAccept, Extract, OSQFlush, OSQPend, OSQPost, Insert,
       InsertFront, Broadcast, HandOverByTask, HandOver, core, sems
  <2>2. e \in Event /\ e \notin Sem
    BY DEF Event
  <2>. QED  BY <1>2, <1>3, <1>4, <2>1, <2>2
<1>12. CASE ISR
  <2>1. ASSUME NEW s \in Sem, OSSemPostISR(s)  PROVE CountOrWaiters'
    BY <1>2, <1>9, <1>t, <2>1 DEF OSSemPostISR, HandOverByISR, HandOver, Handed
  <2>2. ASSUME NEW e \in Queue, NEW m \in Msg, OSQPostISR(e, m)
        PROVE  CountOrWaiters'
    <3>1. UNCHANGED cnt /\ e \in Event
          /\ (UNCHANGED wait \/ \E W : EventTaskRdy(e, W, m, "ok"))
      BY <2>2 DEF OSQPostISR, Insert, InsertFront, HandOverByISR, HandOver, core,
         sems, Event
    <3>. QED  BY <1>2, <1>4, <3>1
  <2>. QED  BY <1>12, <2>1, <2>2 DEF ISR
<1>. QED  BY <1>6, <1>7, <1>8, <1>10, <1>11, <1>12 DEF Next, sems

\* CountOrWaiters, proved: nobody waits for a semaphore that has a count, so a
\* pend never blocks beside one and a post never adds to the count past a
\* waiting task (os_sem.c:310, 470, 596).
THEOREM KernelCounts == Spec => []CountOrWaiters
<1>1. Init => CountOrWaiters
  BY DEF Init, CoreInit, CountOrWaiters, Event
<1>2. Inv /\ CountOrWaiters /\ [Next]_vars => CountOrWaiters'
  BY CountStep DEF Inv, SemInv
<1>. QED  BY <1>1, <1>2, KernelInvariant, PTL DEF Spec

-----------------------------------------------------------------------------
(* The queues implement MsgQueue                                           *)

\* OSQIn is behind the last message; with a message queued nobody waits.
RingSound ==
  \A e \in Queue :
    /\ qin[e] = IF qout[e] + entries[e] < QSize THEN qout[e] + entries[e]
                ELSE qout[e] + entries[e] - QSize
    /\ entries[e] = 0 \/ wait[e] = {}

Payload == Msg \cup {NoMsg}
QInv == RingTypeOK /\ RingSound

\* The place i behind the place o, and the n messages from o on.
Place(o, i) == IF o + i < QSize THEN o + i ELSE o + i - QSize
Read(b, o, n) == [i \in 1 .. n |-> b[Place(o, i - 1)]]

LEMMA PlaceSlot ==
  ASSUME NEW o \in Slot, NEW i \in 0 .. QSize
  PROVE  Place(o, i) \in Slot
BY DEF Place, Slot

LEMMA ReadIsSeq ==
  ASSUME NEW b \in [Slot -> Payload], NEW o \in Slot, NEW n \in 0 .. QSize
  PROVE  /\ Read(b, o, n) \in Seq(Payload)
         /\ Len(Read(b, o, n)) = n
         /\ \A i \in 1 .. n : Read(b, o, n)[i] = b[Place(o, i - 1)]
         /\ n = 0 <=> Read(b, o, n) = <<>>
<1>1. \A i \in 1 .. n : b[Place(o, i - 1)] \in Payload
  <2>1. \A i \in 1 .. n : i - 1 \in 0 .. QSize
    OBVIOUS
  <2>. QED  BY <2>1, PlaceSlot
<1>2. Read(b, o, n) \in [1 .. n -> Payload]
  BY <1>1 DEF Read
<1>3. Read(b, o, n) \in Seq(Payload) /\ n \in Nat
  BY <1>2, SeqDef
<1>4. Len(Read(b, o, n)) = n
  BY <1>2, <1>3, LenProperties
<1>. QED  BY <1>3, <1>4, EmptySeq DEF Read

LEMMA ReadTail ==
  ASSUME NEW b \in [Slot -> Payload], NEW o \in Slot, NEW n \in 1 .. QSize
  PROVE  Read(b, After(o), n - 1) = Tail(Read(b, o, n))
<1>. DEFINE old == Read(b, o, n)
            new == Read(b, After(o), n - 1)
<1>1. After(o) \in Slot /\ n - 1 \in 0 .. QSize /\ n \in 0 .. QSize
  BY Neighbours
<1>2. /\ old \in Seq(Payload) /\ Len(old) = n /\ old # <<>>
      /\ \A i \in 1 .. n : old[i] = b[Place(o, i - 1)]
  BY <1>1, ReadIsSeq
<1>3. /\ new \in Seq(Payload) /\ Len(new) = n - 1
      /\ \A i \in 1 .. n - 1 : new[i] = b[Place(After(o), i - 1)]
  BY <1>1, ReadIsSeq
<1>4. \A i \in 1 .. n - 1 : i + 1 \in 1 .. n /\ Place(After(o), i - 1) = Place(o, (i + 1) - 1)
  BY DEF Place, After, Slot
<1>. HIDE DEF old, new
<1>5. /\ Tail(old) \in Seq(Payload) /\ Len(Tail(old)) = n - 1
      /\ \A i \in 1 .. n - 1 : Tail(old)[i] = old[i + 1]
  BY <1>2, HeadTailProperties
<1>6. \A i \in 1 .. n - 1 : new[i] = Tail(old)[i]
  BY <1>2, <1>3, <1>4, <1>5
<1>7. new = Tail(old)
  BY <1>3, <1>5, <1>6, SeqEqual
<1>. QED  BY <1>7 DEF old, new

Appended(s, m) == Append(s, m)

LEMMA ReadAppend ==
  ASSUME NEW b \in [Slot -> Payload], NEW o \in Slot, NEW n \in 0 .. QSize - 1,
         NEW m \in Payload, NEW j \in Slot, j = Place(o, n)
  PROVE  Read([b EXCEPT ![j] = m], o, n + 1) = Appended(Read(b, o, n), m)
<1>. DEFINE bb == [b EXCEPT ![j] = m]
            old == Read(b, o, n)
            new == Read(bb, o, n + 1)
<1>1. n + 1 \in 0 .. QSize /\ n \in 0 .. QSize /\ Place(o, n) \in Slot
  BY PlaceSlot
<1>2. bb \in [Slot -> Payload]
  OBVIOUS
<1>3. /\ old \in Seq(Payload) /\ Len(old) = n
      /\ \A i \in 1 .. n : old[i] = b[Place(o, i - 1)]
  BY <1>1, ReadIsSeq
<1>4. /\ new \in Seq(Payload) /\ Len(new) = n + 1
      /\ \A i \in 1 .. n + 1 : new[i] = bb[Place(o, i - 1)]
  <2>. HIDE DEF bb
  <2>. QED  BY <1>1, <1>2, ReadIsSeq
<1>5. /\ \A i \in 1 .. n : Place(o, i - 1) \in Slot /\ Place(o, i - 1) # Place(o, n)
      /\ Place(o, (n + 1) - 1) = Place(o, n)
  BY DEF Place, Slot
<1>6. /\ \A i \in 1 .. n : bb[Place(o, i - 1)] = b[Place(o, i - 1)]
      /\ bb[Place(o, n)] = m
  BY <1>1, <1>5
<1>. HIDE DEF bb, old, new
<1>7. /\ Append(old, m) \in Seq(Payload) /\ Len(Append(old, m)) = n + 1
      /\ \A i \in 1 .. n : Append(old, m)[i] = old[i]
      /\ Append(old, m)[n + 1] = m
  BY <1>3, AppendProperties
<1>8. \A i \in 1 .. n + 1 : new[i] = Append(old, m)[i]
  <2>1. \A i \in 1 .. n : new[i] = Append(old, m)[i]
    <3>1. ASSUME NEW i \in 1 .. n  PROVE new[i] = Append(old, m)[i]
      <4>1. i \in 1 .. n + 1
        OBVIOUS
      <4>2. new[i] = b[Place(o, i - 1)]
        BY <1>4, <1>6, <4>1
      <4>. QED  BY <1>3, <1>7, <4>2
    <3>. QED  BY <3>1
  <2>2. new[n + 1] = m
    BY <1>4, <1>5, <1>6
  <2>3. \A i \in 1 .. n + 1 : i \in 1 .. n \/ i = n + 1
    OBVIOUS
  <2>. QED  BY <1>7, <2>1, <2>2, <2>3
<1>9. new = Append(old, m)
  BY <1>4, <1>7, <1>8, SeqEqual
<1>. QED  BY <1>9 DEF old, new, bb, Appended

LEMMA ReadCons ==
  ASSUME NEW b \in [Slot -> Payload], NEW o \in Slot, NEW n \in 0 .. QSize - 1,
         NEW m \in Payload
  PROVE  Read([b EXCEPT ![Before(o)] = m], Before(o), n + 1) = <<m>> \o Read(b, o, n)
<1>. DEFINE bb == [b EXCEPT ![Before(o)] = m]
            old == Read(b, o, n)
            new == Read(bb, Before(o), n + 1)
<1>1. n + 1 \in 0 .. QSize /\ n \in 0 .. QSize /\ Before(o) \in Slot
  BY Neighbours
<1>2. bb \in [Slot -> Payload]
  OBVIOUS
<1>3. /\ old \in Seq(Payload) /\ Len(old) = n
      /\ \A i \in 1 .. n : old[i] = b[Place(o, i - 1)]
  BY <1>1, ReadIsSeq
<1>4. /\ new \in Seq(Payload) /\ Len(new) = n + 1
      /\ \A i \in 1 .. n + 1 : new[i] = bb[Place(Before(o), i - 1)]
  <2>. HIDE DEF bb
  <2>. QED  BY <1>1, <1>2, ReadIsSeq
<1>5. /\ Place(Before(o), 1 - 1) = Before(o)
      /\ \A i \in 2 .. n + 1 : /\ i - 1 \in 1 .. n
                               /\ Place(Before(o), i - 1) = Place(o, (i - 1) - 1)
                               /\ Place(o, (i - 1) - 1) \in Slot
                               /\ Place(o, (i - 1) - 1) # Before(o)
  BY DEF Place, Before, Slot
<1>6. /\ \A i \in 2 .. n + 1 : bb[Place(Before(o), i - 1)] = b[Place(o, (i - 1) - 1)]
      /\ bb[Before(o)] = m
  BY <1>1, <1>5
<1>. HIDE DEF bb, old, new
<1>7. <<m>> \in Seq(Payload) /\ Len(<<m>>) = 1 /\ <<m>>[1] = m
  OBVIOUS
<1>8. /\ <<m>> \o old \in Seq(Payload) /\ Len(<<m>> \o old) = n + 1
      /\ \A i \in 1 .. n + 1 : (<<m>> \o old)[i] = IF i <= 1 THEN <<m>>[i] ELSE old[i - 1]
  <2>1. 1 + n = n + 1
    OBVIOUS
  <2>. QED  BY <1>3, <1>7, <2>1, ConcatProperties
<1>9. \A i \in 1 .. n + 1 : new[i] = (<<m>> \o old)[i]
  <2>1. ASSUME NEW i \in 2 .. n + 1  PROVE new[i] = (<<m>> \o old)[i]
    <3>1. i \in 1 .. n + 1 /\ i - 1 \in 1 .. n /\ ~ (i <= 1)
      OBVIOUS
    <3>2. new[i] = b[Place(o, (i - 1) - 1)]
      BY <1>4, <1>5, <1>6, <3>1
    <3>3. old[i - 1] = b[Place(o, (i - 1) - 1)]
      BY <1>3, <3>1
    <3>4. (<<m>> \o old)[i] = old[i - 1]
      BY <1>8, <3>1
    <3>. QED  BY <3>2, <3>3, <3>4
  <2>2. new[1] = (<<m>> \o old)[1]
    <3>1. 1 \in 1 .. n + 1
      OBVIOUS
    <3>2. new[1] = m
      BY <1>4, <1>5, <1>6, <3>1
    <3>3. (<<m>> \o old)[1] = m
      BY <1>7, <1>8, <3>1
    <3>. QED  BY <3>2, <3>3
  <2>3. \A i \in 1 .. n + 1 : i \in 2 .. n + 1 \/ i = 1
    OBVIOUS
  <2>. QED  BY <2>1, <2>2, <2>3
<1>10. new = <<m>> \o old
  BY <1>4, <1>8, <1>9, SeqEqual
<1>. QED  BY <1>10 DEF old, new, bb

LEMMA ContentsRead ==
  ASSUME RingTypeOK
  PROVE  /\ Contents = [e \in Queue |-> Read(buf[e], qout[e], entries[e])]
         /\ \A e \in Queue : entries[e] = 0 <=> Contents[e] = <<>>
<1>1. ASSUME NEW e \in Queue
      PROVE  /\ [i \in 1 .. entries[e] |-> buf[e][At(e, i)]]
                  = Read(buf[e], qout[e], entries[e])
             /\ entries[e] = 0 <=> Read(buf[e], qout[e], entries[e]) = <<>>
  <2>1. buf[e] \in [Slot -> Payload] /\ qout[e] \in Slot /\ entries[e] \in 0 .. QSize
    BY DEF RingTypeOK, Payload
  <2>2. \A i \in 1 .. entries[e] : At(e, i) = Place(qout[e], i - 1)
    BY <2>1 DEF At, Place, Slot
  <2>. QED  BY <2>1, <2>2, ReadIsSeq DEF Read
<1>. QED  BY <1>1 DEF Contents

\* The same of the next state.
LEMMA ContentsReadNext ==
  ASSUME RingTypeOK'
  PROVE  Contents' = [e \in Queue |-> Read(buf'[e], qout'[e], entries'[e])]
<1>1. ASSUME NEW e \in Queue
      PROVE  [i \in 1 .. entries'[e] |-> buf'[e][At(e, i)']]
               = Read(buf'[e], qout'[e], entries'[e])
  <2>1. qout'[e] \in Slot /\ entries'[e] \in 0 .. QSize
    BY DEF RingTypeOK
  <2>2. \A i \in 1 .. entries'[e] : At(e, i)' = Place(qout'[e], i - 1)
    BY <2>1 DEF At, Place, Slot
  <2>. QED  BY <2>2 DEF Read
<1>. QED  BY <1>1 DEF Contents

LEMMA Extract_Contents ==
  ASSUME RingTypeOK, RingTypeOK', NEW e \in Queue, Extract(e)
  PROVE  /\ Contents[e] # <<>> /\ Head(Contents[e]) = buf[e][qout[e]]
         /\ Contents' = [Contents EXCEPT ![e] = Tail(@)]
<1>1. /\ qout' = [qout EXCEPT ![e] = After(@)] /\ entries[e] \in 1 .. QSize
      /\ entries' = [entries EXCEPT ![e] = @ - 1] /\ buf' = buf
  BY DEF Extract, RingTypeOK
<1>2. Read(buf'[e], qout'[e], entries'[e]) = Tail(Read(buf[e], qout[e], entries[e]))
  <2>1. buf[e] \in [Slot -> Payload] /\ qout[e] \in Slot
    BY DEF RingTypeOK, Payload
  <2>2. Read(buf[e], After(qout[e]), entries[e] - 1)
          = Tail(Read(buf[e], qout[e], entries[e]))
    BY <1>1, <2>1, ReadTail
  <2>. QED  BY <1>1, <2>2 DEF RingTypeOK
<1>3. \A f \in Queue \ {e} : Read(buf'[f], qout'[f], entries'[f])
                               = Read(buf[f], qout[f], entries[f])
  BY <1>1 DEF RingTypeOK
<1>4. Head(Contents[e]) = buf[e][qout[e]]
  <2>1. qout[e] \in Slot /\ At(e, 1) = qout[e]
    BY DEF RingTypeOK, At, Slot
  <2>2. Contents[e] = [i \in 1 .. entries[e] |-> buf[e][At(e, i)]]
    BY DEF Contents
  <2>3. Contents[e][1] = buf[e][qout[e]]
    BY <1>1, <2>1, <2>2
  <2>. QED  BY <2>3 DEF Head
<1>5. Contents[e] # <<>>
  BY <1>1, ContentsRead
<1>6. Contents' = [Contents EXCEPT ![e] = Tail(@)]
  BY <1>2, <1>3, ContentsRead, ContentsReadNext
<1>. QED  BY <1>4, <1>5, <1>6

LEMMA Insert_Contents ==
  ASSUME RingTypeOK, RingSound, RingTypeOK', NEW e \in Queue, NEW m \in Msg,
         Insert(e, m) \/ InsertFront(e, m)
  PROVE  /\ Len(Contents[e]) < QSize
         /\ \/ Contents' = [Contents EXCEPT ![e] = Append(@, m)]
            \/ Contents' = [Contents EXCEPT ![e] = <<m>> \o @]
<1>. DEFINE old == Read(buf[e], qout[e], entries[e])
<1>0. /\ buf[e] \in [Slot -> Payload] /\ qout[e] \in Slot /\ m \in Payload
      /\ entries[e] \in 0 .. QSize - 1
      /\ entries' = [entries EXCEPT ![e] = @ + 1]
  BY DEF RingTypeOK, Payload, Insert, InsertFront
<1>1. /\ Contents[e] = old /\ Len(Contents[e]) = entries[e]
      /\ \A f \in Queue : Contents[f] = Read(buf[f], qout[f], entries[f])
      /\ \A f \in Queue : Contents'[f] = Read(buf'[f], qout'[f], entries'[f])
  <2>1. Contents[e] = old
    BY ContentsRead
  <2>2. Len(old) = entries[e]
    <3>1. entries[e] \in 0 .. QSize
      BY <1>0
    <3>. QED  BY <1>0, <3>1, ReadIsSeq
  <2>. QED  BY <2>1, <2>2, ContentsRead, ContentsReadNext
<1>4. /\ Contents = [f \in Queue |-> Contents[f]]
      /\ Contents' = [f \in Queue |-> Contents'[f]]
  BY DEF Contents
<1>2. CASE Insert(e, m)
  <2>1. /\ qout' = qout /\ buf' = [buf EXCEPT ![e][qin[e]] = m]
        /\ qin[e] = Place(qout[e], entries[e])
    BY <1>2 DEF Insert, RingSound, Place
  <2>2. Read([buf[e] EXCEPT ![qin[e]] = m], qout[e], entries[e] + 1) = Appended(old, m)
    <3>1. /\ buf[e] \in [Slot -> Payload] /\ qout[e] \in Slot
          /\ entries[e] \in 0 .. QSize - 1 /\ m \in Payload
          /\ qin[e] \in Slot /\ qin[e] = Place(qout[e], entries[e])
      BY <1>0, <2>1 DEF RingTypeOK
    <3>. QED  BY <3>1, ReadAppend
  <2>3. buf'[e] = [buf[e] EXCEPT ![qin[e]] = m]
    BY <2>1 DEF RingTypeOK
  <2>4. Read(buf'[e], qout'[e], entries'[e]) = Append(old, m)
    <3>1. qout'[e] = qout[e] /\ entries'[e] = entries[e] + 1
      BY <1>0, <2>1 DEF RingTypeOK
    <3>. QED  BY <2>2, <2>3, <3>1 DEF Appended
  <2>5. \A f \in Queue \ {e} : Read(buf'[f], qout'[f], entries'[f])
                                 = Read(buf[f], qout[f], entries[f])
    BY <1>0, <2>1 DEF RingTypeOK
  <2>. HIDE DEF old
  <2>6. Contents'[e] = Append(Contents[e], m)
    BY <1>1, <2>4
  <2>7. \A f \in Queue \ {e} : Contents'[f] = Contents[f]
    BY <1>1, <2>5
  <2>8. Contents' = [Contents EXCEPT ![e] = Append(@, m)]
    BY <1>4, <2>6, <2>7
  <2>. QED  BY <1>0, <1>1, <2>8
<1>3. CASE InsertFront(e, m)
  <2>1. /\ qout' = [qout EXCEPT ![e] = Before(@)]
        /\ buf' = [buf EXCEPT ![e][Before(qout[e])] = m]
    BY <1>3 DEF InsertFront
  <2>2. Read([buf[e] EXCEPT ![Before(qout[e])] = m], Before(qout[e]), entries[e] + 1)
          = <<m>> \o old
    BY <1>0, ReadCons
  <2>3. buf'[e] = [buf[e] EXCEPT ![Before(qout[e])] = m] /\ qout'[e] = Before(qout[e])
    BY <2>1 DEF RingTypeOK
  <2>4. Read(buf'[e], qout'[e], entries'[e]) = <<m>> \o old
    BY <1>0, <2>2, <2>3 DEF RingTypeOK
  <2>5. \A f \in Queue \ {e} : Read(buf'[f], qout'[f], entries'[f])
                                 = Read(buf[f], qout[f], entries[f])
    BY <1>0, <2>1 DEF RingTypeOK
  <2>. HIDE DEF old
  <2>6. Contents'[e] = <<m>> \o Contents[e]
    BY <1>1, <2>4
  <2>7. \A f \in Queue \ {e} : Contents'[f] = Contents[f]
    BY <1>1, <2>5
  <2>8. Contents' = [Contents EXCEPT ![e] = <<m>> \o @]
    BY <1>4, <2>6, <2>7
  <2>. QED  BY <1>0, <1>1, <2>8
<1>. QED  BY <1>2, <1>3

LEMMA Flush_Contents ==
  ASSUME RingTypeOK, RingTypeOK', NEW e \in Queue, OSQFlush(e)
  PROVE  Contents' = [Contents EXCEPT ![e] = <<>>]
<1>1. /\ qout' = [qout EXCEPT ![e] = 0] /\ entries' = [entries EXCEPT ![e] = 0]
      /\ buf' = buf
  BY DEF OSQFlush
<1>2. Read(buf'[e], qout'[e], entries'[e]) = <<>>
  <2>1. entries'[e] = 0 /\ buf'[e] \in [Slot -> Payload] /\ qout'[e] \in Slot
    BY <1>1 DEF RingTypeOK, Payload
  <2>. QED  BY <2>1, ReadIsSeq
<1>3. \A f \in Queue \ {e} : Read(buf'[f], qout'[f], entries'[f])
                               = Read(buf[f], qout[f], entries[f])
  BY <1>1 DEF RingTypeOK
<1>. QED  BY <1>2, <1>3, ContentsRead, ContentsReadNext

LEMMA Same_Contents ==
  ASSUME UNCHANGED ring
  PROVE  Contents' = Contents
BY DEF ring, Contents, At

\* The messages handed over.  Readying the tasks W that wait for a queue puts
\* the message in their boxes.
LEMMA Rdy_Given ==
  ASSUME CoreInv, NEW e \in Event, NEW W \in SUBSET wait[e], NEW m, NEW why,
         on' = on, EventTaskRdy(e, W, m, why)
  PROVE  /\ \A t \in Task \ W : (Given(t)' <=> Given(t)) /\ tcbMsg'[t] = tcbMsg[t]
         /\ \A t \in W : /\ t \in Task /\ ~ Given(t) /\ tcbMsg'[t] = m
                         /\ Given(t)' <=> (e \in Queue /\ why = "ok")
         /\ \A f \in Event : wait'[f] \in SUBSET wait[f]
<1>1. /\ W \in SUBSET Task
      /\ \A t \in W : on[t] = e /\ t \in wait[e]
  BY DEF CoreInv, CoreTypeOK, PendingSound, PendingOf
<1>2. /\ \A t \in Task \ W : tcbMsg'[t] = tcbMsg[t] /\ statPend'[t] = statPend[t]
      /\ \A t \in W : tcbMsg'[t] = m /\ statPend'[t] = why
      /\ \A f \in Event : wait'[f] = IF f = e THEN wait[f] \ W ELSE wait[f]
  BY <1>1 DEF EventTaskRdy, CoreInv, CoreTypeOK
<1>3. ASSUME NEW t \in Task \ W
      PROVE  (Given(t)' <=> Given(t)) /\ tcbMsg'[t] = tcbMsg[t]
  <2>1. on[t] \in Queue => on[t] \in Event
    BY DEF Event
  <2>. QED  BY <1>2, <2>1 DEF Given
<1>4. \A t \in W : ~ Given(t)
  BY <1>1 DEF Given
<1>5. \A t \in W : Given(t)' <=> (e \in Queue /\ why = "ok")
  BY <1>1, <1>2 DEF Given
<1>6. \A f \in Event : wait'[f] \in SUBSET wait[f]
  BY <1>2
<1>. QED  BY <1>1, <1>2, <1>3, <1>4, <1>5, <1>6

LEMMA Same_Box ==
  ASSUME \A t \in Task : Given(t)' <=> Given(t),
         \A t \in Task : Given(t) => on'[t] = on[t] /\ tcbMsg'[t] = tcbMsg[t]
  PROVE  Box' = Box
BY DEF Box

LEMMA Unboxed ==
  ASSUME CoreInv, NEW e \in Event, NEW W \in SUBSET wait[e], NEW m, NEW why,
         on' = on, EventTaskRdy(e, W, m, why), e \notin Queue \/ why # "ok"
  PROVE  Box' = Box /\ \A f \in Event : wait'[f] \in SUBSET wait[f]
<1>1. /\ \A t \in Task \ W : (Given(t)' <=> Given(t)) /\ tcbMsg'[t] = tcbMsg[t]
      /\ \A t \in W : ~ Given(t) /\ (Given(t)' <=> (e \in Queue /\ why = "ok"))
      /\ \A f \in Event : wait'[f] \in SUBSET wait[f]
  BY Rdy_Given
<1>2. \A t \in Task : Given(t)' <=> Given(t)
  BY <1>1
<1>3. \A t \in Task : Given(t) => on'[t] = on[t] /\ tcbMsg'[t] = tcbMsg[t]
  BY <1>1
<1>. QED  BY <1>1, <1>2, <1>3, Same_Box

LEMMA Boxed ==
  ASSUME CoreInv, NEW e \in Queue, NEW W \in SUBSET wait[e], NEW m,
         on' = on, EventTaskRdy(e, W, m, "ok")
  PROVE  /\ Box' = [t \in Task |-> IF t \in W THEN <<e, m>> ELSE Box[t]]
         /\ \A t \in W : Box[t] = <<>>
         /\ W \in SUBSET Task
         /\ \A f \in Event : wait'[f] \in SUBSET wait[f]
<1>1. e \in Event
  BY DEF Event
<1>2. /\ \A t \in Task \ W : (Given(t)' <=> Given(t)) /\ tcbMsg'[t] = tcbMsg[t]
      /\ \A t \in W : t \in Task /\ ~ Given(t) /\ tcbMsg'[t] = m /\ Given(t)'
      /\ \A f \in Event : wait'[f] \in SUBSET wait[f]
  <2>1. PICK why : why = "ok"
    OBVIOUS
  <2>2. EventTaskRdy(e, W, m, why)
    BY <2>1
  <2>3. /\ \A t \in Task \ W : (Given(t)' <=> Given(t)) /\ tcbMsg'[t] = tcbMsg[t]
        /\ \A t \in W : /\ t \in Task /\ ~ Given(t) /\ tcbMsg'[t] = m
                        /\ Given(t)' <=> (e \in Queue /\ why = "ok")
        /\ \A f \in Event : wait'[f] \in SUBSET wait[f]
    BY <1>1, <2>2, Rdy_Given
  <2>. QED  BY <2>1, <2>3
<1>3. /\ \A t \in W : Box[t] = <<>> /\ Box'[t] = <<e, m>>
      /\ \A t \in Task \ W : Box'[t] = Box[t]
  <2>1. \A t \in W : on'[t] = e
    BY <1>1 DEF CoreInv, CoreTypeOK, PendingSound, PendingOf
  <2>. QED  BY <1>2, <2>1 DEF Box
<1>4. Box' = [t \in Task |-> Box'[t]]
  BY DEF Box
<1>. QED  BY <1>2, <1>3, <1>4

LEMMA Expire_Box ==
  ASSUME CoreInv, NEW T \in SUBSET Task, NEW newDly, \A t \in T : dly[t] > 0,
         Expire(T, newDly)
  PROVE  Box' = Box /\ wait' = wait
<1>1. /\ UNCHANGED <<tcbMsg, wait, on>>
      /\ \A t \in Task \ T : statPend'[t] = statPend[t]
  BY DEF Expire
<1>2. ASSUME NEW t \in T, on[t] \in Queue  PROVE t \in wait[on[t]]
  <2>1. dly[t] # 0 /\ on[t] \in Event
    BY <1>2 DEF Event
  <2>. QED  BY <1>2, <2>1 DEF CoreInv, PendingSound, PendingOf
<1>3. \A t \in Task : Given(t)' <=> Given(t)
  BY <1>1, <1>2 DEF Given
<1>. QED  BY <1>1, <1>3, Same_Box

LEMMA TaskService_Box ==
  ASSUME CoreInv, OS_Sched \/ OSTimeTick \/ TaskService
  PROVE  Box' = Box /\ \A f \in Event : wait'[f] \in SUBSET wait[f]
<1>1. CASE UNCHANGED <<on, wait, statPend, tcbMsg>>
  BY <1>1 DEF Box, Given
<1>2. CASE OSTimeTick
  <2>. DEFINE T == {t \in Task \ {Idle} : dly[t] = 1}
              newDly == [t \in Task |-> IF t # Idle /\ dly[t] > 0
                                        THEN dly[t] - 1 ELSE dly[t]]
  <2>1. Expire(T, newDly)
    BY <1>2 DEF OSTimeTick
  <2>2. T \in SUBSET Task /\ \A t \in T : dly[t] > 0
    BY DEF CoreInv, CoreTypeOK
  <2>. HIDE DEF T, newDly
  <2>. QED  BY <2>1, <2>2, Expire_Box
<1>3. CASE \E t \in Task \ {Idle} : OSTimeDlyResume(t)
  <2>1. PICK t \in Task : OSTimeDlyResume(t)
    BY <1>3
  <2>2. \A u \in {t} : dly[u] > 0
    BY <2>1 DEF OSTimeDlyResume, CoreInv, CoreTypeOK
  <2>3. Expire({t}, [dly EXCEPT ![t] = 0])
    BY <2>1 DEF OSTimeDlyResume
  <2>. QED  BY <2>2, <2>3, Expire_Box
<1>4. CASE \E e \in Event, all \in BOOLEAN : PendAbort(e, all)
  <2>1. PICK e \in Event, all \in BOOLEAN : PendAbort(e, all)
    BY <1>4
  <2>2. wait[e] # {} /\ on' = on
    BY <2>1 DEF PendAbort, ThenSched
  <2>3. PICK W \in SUBSET wait[e] : EventTaskRdy(e, W, NoMsg, "abort")
    <3>1. CASE EventTaskRdy(e, wait[e], NoMsg, "abort")
      BY <3>1
    <3>2. CASE EventTaskRdy(e, {Highest(wait[e])}, NoMsg, "abort")
      BY <2>2, <3>2, FirstWaits
    <3>. QED  BY <2>1, <3>1, <3>2 DEF PendAbort
  <2>. QED  BY <2>2, <2>3, Unboxed
<1>5. OS_Sched => UNCHANGED <<on, wait, statPend, tcbMsg>>
  BY DEF OS_Sched, tcbs
<1>6. OSSchedLock \/ OSSchedUnlock \/ (\E n \in 1 .. MaxDelay : OSTimeDly(n))
        => UNCHANGED <<on, wait, statPend, tcbMsg>>
  BY DEF OSSchedLock, OSSchedUnlock, OSTimeDly, tcbs
<1>7. (\E t \in Task \ {Idle} : OSTaskSuspend(t) \/ OSTaskResume(t))
        => UNCHANGED <<on, wait, statPend, tcbMsg>>
  BY DEF OSTaskSuspend, OSTaskResume
<1>. QED  BY <1>1, <1>2, <1>3, <1>4, <1>5, <1>6, <1>7 DEF TaskService

LEMMA Block_Box ==
  ASSUME CoreInv, Running, NEW e \in Event, NEW timeout, Block(e, timeout)
  PROVE  Box' = Box /\ \A f \in Event \ {e} : wait'[f] = wait[f]
<1>1. cur \in Task /\ on[cur] = NoMsg /\ NoMsg \notin Event
  BY DEF Running, CoreInv, CoreTypeOK, PendingSound, PendingOf, Event
<1>2. /\ \A t \in Task \ {cur} : /\ on'[t] = on[t] /\ statPend'[t] = statPend[t]
                                 /\ \A f \in Event : t \in wait'[f] <=> t \in wait[f]
      /\ on'[cur] = e /\ cur \in wait'[e] /\ tcbMsg' = tcbMsg
  BY <1>1 DEF Block, CoreInv, CoreTypeOK
<1>3. \A t \in Task : Given(t)' <=> Given(t)
  BY <1>1, <1>2 DEF Given, Event
<1>4. \A f \in Event \ {e} : wait'[f] = wait[f]
  BY DEF Block, CoreInv, CoreTypeOK
<1>5. \A t \in Task : Given(t) => on'[t] = on[t] /\ tcbMsg'[t] = tcbMsg[t]
  BY <1>1, <1>2 DEF Given, Event
<1>. QED  BY <1>3, <1>4, <1>5, Same_Box

LEMMA Wake_Box ==
  ASSUME CoreInv, QWake
  PROVE  /\ \/ Box' = Box /\ UNCHANGED owed
            \/ /\ Box[cur] # <<>> /\ Box' = [Box EXCEPT ![cur] = <<>>]
               /\ ImplementsMsgQueue!Owe(Box[cur][1], Box[cur][2], -1)
         /\ \A f \in Event : wait'[f] \in SUBSET wait[f]
<1>1. Wake /\ cur \in Task /\ NoMsg \notin Queue
  BY DEF QWake, SemWake, CoreInv, CoreTypeOK, Event
<1>2. /\ \A t \in Task \ {cur} : /\ on'[t] = on[t] /\ statPend'[t] = statPend[t]
                                 /\ tcbMsg'[t] = tcbMsg[t]
                                 /\ \A f \in Event : t \in wait'[f] <=> t \in wait[f]
      /\ on'[cur] = NoMsg
      /\ \A f \in Event : wait'[f] \in SUBSET wait[f]
  BY <1>1 DEF Wake, CoreInv, CoreTypeOK
<1>3. ASSUME NEW t \in Task \ {cur}  PROVE Box'[t] = Box[t]
  <2>1. on[t] \in Queue => on[t] \in Event
    BY DEF Event
  <2>2. Given(t)' <=> Given(t)
    BY <1>2, <2>1 DEF Given
  <2>. QED  BY <1>2, <2>2 DEF Box
<1>0. Box'[cur] = <<>>
  BY <1>1, <1>2 DEF Box, Given
<1>4. \A t \in Task : Box'[t] = IF t = cur THEN <<>> ELSE Box[t]
  BY <1>0, <1>3
<1>5. Box' = [t \in Task |-> Box'[t]] /\ Box = [t \in Task |-> Box[t]]
  BY DEF Box
<1>6. Box' = [Box EXCEPT ![cur] = <<>>]
  BY <1>1, <1>4, <1>5
<1>7. Box[cur] = <<>> => Box' = Box
  BY <1>4, <1>5
<1>8. Given(cur) <=> on[cur] \in Queue /\ statPend[cur] = "ok"
  <2>1. stat[cur] = {}
    <3>1. lock = 0 /\ at[cur] = "wake"
      BY <1>1 DEF Wake, CoreInv, CoreTypeOK, HighestRuns
    <3>. QED  BY <1>1, <3>1, CurrentReady DEF Wake, CoreInv, CoreTypeOK, Event
  <2>2. on[cur] \in Queue /\ statPend[cur] = "ok" => cur \notin wait[on[cur]]
    BY <1>1, <2>1 DEF CoreInv, PendingSound, PendingOf, Event
  <2>. QED  BY <2>2 DEF Given
<1>9. CASE Given(cur)
  <2>1. Box[cur] = <<on[cur], tcbMsg[cur]>>
    BY <1>1, <1>9 DEF Box
  <2>2. Owe(on[cur], tcbMsg[cur], -1)
    BY <1>8, <1>9 DEF QWake
  <2>3. Box[cur] # <<>> /\ Box[cur][1] = on[cur] /\ Box[cur][2] = tcbMsg[cur]
    BY <2>1
  <2>. QED  BY <1>2, <1>6, <2>2, <2>3 DEF Owe, ImplementsMsgQueue!Owe
<1>10. CASE ~ Given(cur)
  <2>1. Box[cur] = <<>>
    BY <1>1, <1>10 DEF Box
  <2>2. UNCHANGED owed
    BY <1>8, <1>10 DEF QWake
  <2>. QED  BY <1>2, <1>7, <2>1, <2>2
<1>. QED  BY <1>9, <1>10

RingSound_Same ==
  UNCHANGED ring /\ \A e \in Queue : wait'[e] \in SUBSET wait[e] \/ entries[e] = 0

LEMMA RingSound_Step ==
  ASSUME RingSound, RingTypeOK, RingTypeOK',
         \/ RingSound_Same
         \/ \E e \in Queue : Extract(e) \/ OSQFlush(e)
         \/ \E e \in Queue, m \in Msg : Insert(e, m) \/ InsertFront(e, m)
  PROVE  RingSound'
<1>1. CASE RingSound_Same
  <2>1. ASSUME NEW e \in Queue
        PROVE  /\ qin'[e] = qin[e] /\ qout'[e] = qout[e] /\ entries'[e] = entries[e]
               /\ entries'[e] = 0 \/ wait'[e] = {}
    BY <1>1 DEF RingSound_Same, ring, RingSound
  <2>. QED  BY <2>1 DEF RingSound
<1>2. ASSUME NEW e \in Queue, Extract(e) \/ OSQFlush(e)  PROVE RingSound'
  <2>1. wait' = wait
    BY <1>2 DEF Extract, OSQFlush, core
  <2>2. ASSUME NEW f \in Queue \ {e}
        PROVE  qin'[f] = qin[f] /\ qout'[f] = qout[f] /\ entries'[f] = entries[f]
    BY <1>2 DEF Extract, OSQFlush, RingTypeOK
  <2>3. CASE Extract(e)
    <3>1. /\ entries[e] > 0 /\ qin'[e] = qin[e] /\ qout'[e] = After(qout[e])
          /\ entries'[e] = entries[e] - 1
      BY <2>3 DEF Extract, RingTypeOK
    <3>2. /\ qout[e] \in Slot /\ entries[e] \in 0 .. QSize
          /\ wait[e] = {} \/ entries[e] = 0
          /\ qin[e] = IF qout[e] + entries[e] < QSize THEN qout[e] + entries[e]
                      ELSE qout[e] + entries[e] - QSize
      BY DEF RingSound, RingTypeOK
    <3>3. /\ qin'[e] = IF qout'[e] + entries'[e] < QSize THEN qout'[e] + entries'[e]
                       ELSE qout'[e] + entries'[e] - QSize
          /\ wait'[e] = {}
      BY <2>1, <3>1, <3>2 DEF After, Slot
    <3>. QED  BY <2>1, <2>2, <3>3 DEF RingSound
  <2>4. CASE OSQFlush(e)
    <3>1. qin'[e] = 0 /\ qout'[e] = 0 /\ entries'[e] = 0
      BY <2>4 DEF OSQFlush, RingTypeOK
    <3>. QED  BY <2>1, <2>2, <3>1 DEF RingSound
  <2>. QED  BY <1>2, <2>3, <2>4
<1>3. ASSUME NEW e \in Queue, NEW m \in Msg, Insert(e, m) \/ InsertFront(e, m)
      PROVE  RingSound'
  <2>1. wait' = wait /\ wait[e] = {}
    BY <1>3 DEF Insert, InsertFront, core
  <2>2. ASSUME NEW f \in Queue \ {e}
        PROVE  qin'[f] = qin[f] /\ qout'[f] = qout[f] /\ entries'[f] = entries[f]
    BY <1>3 DEF Insert, InsertFront, RingTypeOK
  <2>3. /\ entries[e] < QSize /\ entries'[e] = entries[e] + 1
        /\ \/ qin'[e] = After(qin[e]) /\ qout'[e] = qout[e]
           \/ qout'[e] = Before(qout[e]) /\ qin'[e] = qin[e]
    BY <1>3 DEF Insert, InsertFront, RingTypeOK
  <2>4. /\ qout[e] \in Slot /\ entries[e] \in 0 .. QSize
        /\ qin[e] = IF qout[e] + entries[e] < QSize THEN qout[e] + entries[e]
                    ELSE qout[e] + entries[e] - QSize
    BY DEF RingSound, RingTypeOK
  <2>5. qin'[e] = IF qout'[e] + entries'[e] < QSize THEN qout'[e] + entries'[e]
                  ELSE qout'[e] + entries'[e] - QSize
    BY <2>3, <2>4 DEF After, Before, Slot
  <2>. QED  BY <2>1, <2>2, <2>5 DEF RingSound
<1>. QED  BY <1>1, <1>2, <1>3

-----------------------------------------------------------------------------
\* The steps that move no message; those that hand one over; a task that
\* takes one home.
Quiet == Contents' = Contents /\ Box' = Box /\ owed' = owed
Gives(e, m, W) ==
  /\ Contents[e] = <<>> /\ Contents' = Contents
  /\ \A t \in W : Box[t] = <<>>
  /\ Box' = [t \in Task |-> IF t \in W THEN <<e, m>> ELSE Box[t]]
  /\ Owe(e, m, Cardinality(W))
Opens ==
  /\ Contents' = Contents
  /\ Box[cur] # <<>> /\ Box' = [Box EXCEPT ![cur] = <<>>]
  /\ ImplementsMsgQueue!Owe(Box[cur][1], Box[cur][2], -1)

LEMMA SemStep_Box ==
  ASSUME CoreInv, NEW s \in Sem,
         \/ UNCHANGED core
         \/ wait[s] # {} /\ on' = on /\ \E m \in Msg \cup {NoMsg} : HandOver(s, m)
         \/ Running /\ \E timeout \in 0 .. MaxDelay : Block(s, timeout)
  PROVE  Box' = Box /\ \A e \in Queue : wait'[e] \in SUBSET wait[e]
<1>1. s \in Event /\ s \notin Queue /\ \A e \in Queue : e \in Event /\ e # s
  BY DEF Event
<1>2. CASE UNCHANGED core
  BY <1>2 DEF core, tcbs, Box, Given
<1>3. CASE wait[s] # {} /\ on' = on /\ \E m \in Msg \cup {NoMsg} : HandOver(s, m)
  <2>1. {Highest(wait[s])} \in SUBSET wait[s]
    BY <1>1, <1>3, FirstWaits
  <2>. QED  BY <1>1, <1>3, <2>1, Unboxed DEF HandOver
<1>4. CASE Running /\ \E timeout \in 0 .. MaxDelay : Block(s, timeout)
  BY <1>1, <1>4, Block_Box
<1>. QED  BY <1>2, <1>3, <1>4

LEMMA QStep_Box ==
  ASSUME CoreInv, RingTypeOK, RingSound, NEW e \in Queue, UNCHANGED ring,
         \/ wait[e] # {} /\ on' = on /\ \E m \in Msg : HandOver(e, m) /\ Owe(e, m, 1)
         \/ wait[e] # {} /\ on' = on
              /\ \E m \in Msg : /\ EventTaskRdy(e, wait[e], m, "ok")
                               /\ Owe(e, m, Cardinality(wait[e]))
         \/ Running /\ entries[e] = 0 /\ UNCHANGED owed
              /\ \E timeout \in 0 .. MaxDelay : Block(e, timeout)
  PROVE  /\ RingSound_Same
         /\ Quiet \/ \E m \in Msg, W \in SUBSET Task : Gives(e, m, W)
<1>1. e \in Event /\ Contents' = Contents /\ Queue \subseteq Event
  BY Same_Contents DEF Event
<1>2. ASSUME NEW m \in Msg, NEW W \in SUBSET wait[e], wait[e] # {}, on' = on,
             EventTaskRdy(e, W, m, "ok"), Owe(e, m, Cardinality(W))
      PROVE  RingSound_Same /\ W \in SUBSET Task /\ Gives(e, m, W)
  <2>1. entries[e] = 0
    BY <1>2 DEF RingSound
  <2>2. Contents[e] = <<>>
    BY <2>1, ContentsRead
  <2>3. /\ Box' = [t \in Task |-> IF t \in W THEN <<e, m>> ELSE Box[t]]
        /\ \A t \in W : Box[t] = <<>>
        /\ W \in SUBSET Task
        /\ \A f \in Event : wait'[f] \in SUBSET wait[f]
    BY <1>2, Boxed
  <2>. QED  BY <1>1, <1>2, <2>2, <2>3 DEF Gives, RingSound_Same
<1>3. CASE wait[e] # {} /\ on' = on /\ \E m \in Msg : HandOver(e, m) /\ Owe(e, m, 1)
  <2>1. {Highest(wait[e])} \in SUBSET wait[e] /\ Cardinality({Highest(wait[e])}) = 1
    BY <1>1, <1>3, FirstWaits, FS_Singleton
  <2>. QED  BY <1>2, <1>3, <2>1 DEF HandOver
<1>4. CASE wait[e] # {} /\ on' = on
             /\ \E m \in Msg : /\ EventTaskRdy(e, wait[e], m, "ok")
                              /\ Owe(e, m, Cardinality(wait[e]))
  BY <1>2, <1>4
<1>5. CASE Running /\ entries[e] = 0 /\ UNCHANGED owed
             /\ \E timeout \in 0 .. MaxDelay : Block(e, timeout)
  BY <1>1, <1>5, Block_Box DEF Quiet, RingSound_Same
<1>. QED  BY <1>3, <1>4, <1>5

\* Every step of the kernel is one of five kinds.
RingMove(e) ==
  \/ Extract(e) \/ OSQFlush(e)
  \/ \E m \in Msg : Insert(e, m) \/ InsertFront(e, m)

LEMMA StepKinds ==
  ASSUME CoreInv, RingTypeOK, RingSound, Next
  PROVE  \/ \E e \in Queue : RingMove(e)
         \/ RingSound_Same /\ (Quiet \/ Opens)
         \/ RingSound_Same /\ \E e \in Queue, m \in Msg, W \in SUBSET Task : Gives(e, m, W)
<1>0. \A e \in Queue : e \in Event
  BY DEF Event
<1>1. CASE (OS_Sched \/ TaskService \/ OSTimeTick) /\ UNCHANGED <<ring, owed>>
  <2>1. Box' = Box /\ \A e \in Event : wait'[e] \in SUBSET wait[e]
    BY <1>1, TaskService_Box
  <2>. QED  BY <1>0, <1>1, <2>1, Same_Contents DEF Quiet, RingSound_Same
<1>2. CASE QWake
  <2>1. /\ \/ Box' = Box /\ UNCHANGED owed
           \/ /\ Box[cur] # <<>> /\ Box' = [Box EXCEPT ![cur] = <<>>]
              /\ ImplementsMsgQueue!Owe(Box[cur][1], Box[cur][2], -1)
        /\ \A e \in Event : wait'[e] \in SUBSET wait[e]
    BY <1>2, Wake_Box
  <2>2. UNCHANGED ring /\ Contents' = Contents
    BY <1>2, Same_Contents DEF QWake
  <2>. QED  BY <1>0, <2>1, <2>2 DEF Quiet, Opens, RingSound_Same
<1>3. ASSUME NEW s \in Sem, UNCHANGED <<ring, owed>>,
             \/ UNCHANGED core
             \/ wait[s] # {} /\ on' = on /\ \E m \in Msg \cup {NoMsg} : HandOver(s, m)
             \/ Running /\ \E timeout \in 0 .. MaxDelay : Block(s, timeout)
      PROVE  RingSound_Same /\ Quiet
  BY <1>3, SemStep_Box, Same_Contents DEF Quiet, RingSound_Same
<1>4. CASE SemService /\ UNCHANGED <<ring, owed>>
  <2>1. PICK s \in Sem :
          \/ UNCHANGED core
          \/ wait[s] # {} /\ on' = on /\ \E m \in Msg \cup {NoMsg} : HandOver(s, m)
          \/ Running /\ \E timeout \in 0 .. MaxDelay : Block(s, timeout)
    BY <1>4 DEF SemService, OSSemAccept, TakeCount, OSSemPost, AddCount, OSSemPend,
       OSSemSet, HandOverByTask, ThenSched
  <2>. QED  BY <1>3, <1>4, <2>1
<1>5. CASE QService
  <2>1. PICK e \in Queue :
          \/ RingMove(e)
          \/ /\ UNCHANGED ring
             /\ \/ wait[e] # {} /\ on' = on
                     /\ \E m \in Msg : HandOver(e, m) /\ Owe(e, m, 1)
                \/ wait[e] # {} /\ on' = on
                     /\ \E m \in Msg : /\ EventTaskRdy(e, wait[e], m, "ok")
                                      /\ Owe(e, m, Cardinality(wait[e]))
                \/ Running /\ entries[e] = 0 /\ UNCHANGED owed
                     /\ \E timeout \in 0 .. MaxDelay : Block(e, timeout)
    BY <1>5 DEF QService, OSQAccept, OSQPend, OSQPost, Broadcast, RingMove,
       HandOverByTask, ThenSched
  <2>. QED  BY <2>1, QStep_Box
<1>6. CASE ISR
  <2>1. ASSUME NEW s \in Sem, OSSemPostISR(s), UNCHANGED <<ring, owed>>
        PROVE  RingSound_Same /\ Quiet
    BY <1>3, <2>1 DEF OSSemPostISR, AddCount, HandOverByISR
  <2>2. ASSUME NEW e \in Queue, NEW m \in Msg, OSQPostISR(e, m)
        PROVE  \/ RingMove(e)
               \/ UNCHANGED ring /\ wait[e] # {} /\ on' = on /\ HandOver(e, m)
                    /\ Owe(e, m, 1)
    BY <2>2 DEF OSQPostISR, HandOverByISR, RingMove
  <2>3. ASSUME NEW e \in Queue, NEW m \in Msg, OSQPostISR(e, m)
        PROVE  \/ RingMove(e)
               \/ RingSound_Same /\ (Quiet \/ \E n \in Msg, W \in SUBSET Task : Gives(e, n, W))
    BY <2>2, <2>3, QStep_Box
  <2>. QED  BY <1>6, <2>1, <2>3 DEF ISR
<1>. QED  BY <1>1, <1>2, <1>4, <1>5, <1>6 DEF Next, Tick

LEMMA SameCount == \A S : ImplementsMsgQueue!Cardinality(S) = Cardinality(S)
BY DEF ImplementsMsgQueue!Cardinality, Cardinality

LEMMA QueueStep ==
  ASSUME Inv, Inv', RingSound, Next
  PROVE  RingSound' /\ [ImplementsMsgQueue!Next]_<<Contents, Box, owed>>
<1>. USE DEF Inv
<1>1. ASSUME NEW e \in Queue, RingMove(e)
      PROVE  RingSound' /\ ImplementsMsgQueue!Next
  <2>1. Box' = Box
    <3>1. UNCHANGED core
      BY <1>1 DEF RingMove, Extract, OSQFlush, Insert, InsertFront
    <3>. QED  BY <3>1 DEF core, tcbs, Box, Given
  <2>2. CASE Extract(e)
    <3>1. /\ Contents[e] # <<>> /\ Contents' = [Contents EXCEPT ![e] = Tail(@)]
          /\ Owe(e, Head(Contents[e]), -1)
      BY <2>2, Extract_Contents DEF Extract
    <3>2. ImplementsMsgQueue!Take(e)
      BY <2>1, <3>1 DEF ImplementsMsgQueue!Take, ImplementsMsgQueue!Owe, Owe
    <3>. QED  BY <2>2, <3>2, RingSound_Step DEF ImplementsMsgQueue!Next
  <2>3. CASE OSQFlush(e)
    <3>1. ImplementsMsgQueue!Flush(e)
      BY <2>1, <2>3, Flush_Contents, SameCount
         DEF ImplementsMsgQueue!Flush, ImplementsMsgQueue!Occurrences, Occurrences,
             OSQFlush
    <3>. QED  BY <2>3, <3>1, RingSound_Step DEF ImplementsMsgQueue!Next
  <2>4. ASSUME NEW m \in Msg, Insert(e, m) \/ InsertFront(e, m)
        PROVE  RingSound' /\ ImplementsMsgQueue!Next
    <3>0. Owe(e, m, 1)
      BY <2>4 DEF Insert, InsertFront
    <3>1. ImplementsMsgQueue!Put(e, m)
      BY <2>1, <2>4, <3>0, Insert_Contents
         DEF ImplementsMsgQueue!Put, ImplementsMsgQueue!Owe, Owe
    <3>. QED  BY <2>4, <3>1, RingSound_Step DEF ImplementsMsgQueue!Next
  <2>. QED  BY <1>1, <2>2, <2>3, <2>4 DEF RingMove
<1>2. CASE RingSound_Same /\ Quiet
  BY <1>2, RingSound_Step DEF Quiet
<1>3. CASE RingSound_Same /\ Opens
  <2>1. cur \in Task
    BY DEF CoreInv, CoreTypeOK
  <2>2. ImplementsMsgQueue!Open(cur)
    BY <1>3 DEF Opens, ImplementsMsgQueue!Open
  <2>. QED  BY <1>3, <2>1, <2>2, RingSound_Step DEF ImplementsMsgQueue!Next
<1>4. ASSUME RingSound_Same, NEW e \in Queue, NEW m \in Msg, NEW W \in SUBSET Task,
             Gives(e, m, W)
      PROVE  RingSound' /\ ImplementsMsgQueue!Next
  <2>1. ImplementsMsgQueue!Give(e, m, W)
    BY <1>4, SameCount DEF Gives, ImplementsMsgQueue!Give, ImplementsMsgQueue!Owe, Owe
  <2>. QED  BY <1>4, <2>1, RingSound_Step DEF ImplementsMsgQueue!Next
<1>. QED  BY <1>1, <1>2, <1>3, <1>4, StepKinds

\* The rings of OSQPost, OSQPostFront, OSQPend, OSQFlush and the messages in
\* the control blocks implement the abstract queues, for any ring size.
THEOREM KernelQueues == Spec => MessagesInOrder
<1>1. Init => RingSound /\ ImplementsMsgQueue!Init
  <2>. SUFFICES ASSUME Init  PROVE RingSound /\ ImplementsMsgQueue!Init
    OBVIOUS
  <2>1. RingSound
    BY DEF Init, QInit, RingSound
  <2>2. Contents = [e \in Queue |-> <<>>]
    <3>1. RingTypeOK
      BY InitInv DEF Inv
    <3>2. \A e \in Queue : Contents[e] = <<>>
      BY <3>1, ContentsRead DEF Init, QInit
    <3>. QED  BY <3>2 DEF Contents
  <2>3. Box = [t \in Task |-> <<>>]
    BY DEF Init, CoreInit, Box, Given, Event
  <2>4. owed = [e \in Queue |-> [m \in Msg |-> 0]]
    BY DEF Init, QInit
  <2>. QED  BY <2>1, <2>2, <2>3, <2>4 DEF ImplementsMsgQueue!Init
<1>2. Inv /\ Inv' /\ RingSound /\ [Next]_vars
        => RingSound' /\ [ImplementsMsgQueue!Next]_(ImplementsMsgQueue!vars)
  <2>1. UNCHANGED vars /\ RingSound => RingSound' /\ UNCHANGED <<Contents, Box, owed>>
    <3>1. UNCHANGED vars => UNCHANGED core /\ UNCHANGED ring /\ UNCHANGED owed
      BY DEF vars
    <3>. QED  BY <3>1 DEF core, tcbs, ring, RingSound, Contents, At, Box, Given
  <2>. QED  BY <2>1, QueueStep DEF ImplementsMsgQueue!vars
<1>. QED  BY <1>1, <1>2, KernelInvariant, PTL
          DEF Spec, MessagesInOrder, ImplementsMsgQueue!Spec

-----------------------------------------------------------------------------
(* No message is lost                                                      *)

\* Shifting a set of positions keeps their number.
LEMMA ShiftCount ==
  ASSUME NEW S \in SUBSET Nat, IsFiniteSet(S)
  PROVE  /\ IsFiniteSet({i + 1 : i \in S})
         /\ Cardinality({i + 1 : i \in S}) = Cardinality(S)
<1>. DEFINE T == {i + 1 : i \in S}
            f == [i \in S |-> i + 1]
<1>1. f \in [S -> T] /\ \A i \in S : f[i] = i + 1
  OBVIOUS
<1>2. \A a, b \in S : a + 1 = b + 1 => a = b
  OBVIOUS
<1>3. \A j \in T : \E i \in S : j = i + 1
  OBVIOUS
<1>. HIDE DEF T, f
<1>4. f \in Injection(S, T)
  BY <1>1, <1>2 DEF Injection, IsInjective
<1>5. f \in Surjection(S, T)
  BY <1>1, <1>3 DEF Surjection
<1>6. ExistsBijection(S, T)
  BY <1>4, <1>5 DEF Bijection, ExistsBijection
<1>. QED  BY <1>6, FS_Bijection DEF T

Positions(s, m) == {i \in DOMAIN s : s[i] = m}

LEMMA PositionsFinite ==
  ASSUME NEW s \in Seq(Payload), NEW m
  PROVE  /\ IsFiniteSet(Positions(s, m)) /\ Positions(s, m) \in SUBSET Nat
         /\ Positions(s, m) = {i \in 1 .. Len(s) : s[i] = m}
         /\ Occurrences(s, m) = Cardinality(Positions(s, m))
         /\ Occurrences(s, m) \in Nat
<1>1. DOMAIN s = 1 .. Len(s) /\ Len(s) \in Nat
  OBVIOUS
<1>2. IsFiniteSet(1 .. Len(s))
  BY <1>1, FS_Interval
<1>3. Positions(s, m) \in SUBSET (1 .. Len(s))
  BY <1>1 DEF Positions
<1>4. IsFiniteSet(Positions(s, m))
  BY <1>2, <1>3, FS_Subset
<1>. QED  BY <1>1, <1>3, <1>4, FS_CardinalityType DEF Positions, Occurrences

\* What one more message at the end or at the front adds to the occurrences.
LEMMA OccurrencesAppend ==
  ASSUME NEW s \in Seq(Payload), NEW m \in Payload, NEW k
  PROVE  Occurrences(Append(s, m), k) = Occurrences(s, k) + (IF k = m THEN 1 ELSE 0)
<1>. DEFINE n == Len(s)
            P == Positions(s, k)
            Q == Positions(Append(s, m), k)
<1>1. /\ Append(s, m) \in Seq(Payload) /\ Len(Append(s, m)) = n + 1 /\ n \in Nat
      /\ \A i \in 1 .. n : Append(s, m)[i] = s[i]
      /\ Append(s, m)[n + 1] = m
  BY AppendProperties
<1>2. /\ IsFiniteSet(P) /\ P = {i \in 1 .. n : s[i] = k}
      /\ Occurrences(s, k) = Cardinality(P) /\ Cardinality(P) \in Nat
  BY PositionsFinite
<1>3. /\ Q = {i \in 1 .. n + 1 : Append(s, m)[i] = k}
      /\ Occurrences(Append(s, m), k) = Cardinality(Q)
  BY <1>1, PositionsFinite
<1>. HIDE DEF n, P, Q
<1>4. Q = IF k = m THEN P \cup {n + 1} ELSE P
  BY <1>1, <1>2, <1>3
<1>5. n + 1 \notin P
  BY <1>1, <1>2
<1>6. Cardinality(P \cup {n + 1}) = Cardinality(P) + 1
  BY <1>2, <1>5, FS_AddElement
<1>7. CASE k = m
  <2>1. Cardinality(Q) = Cardinality(P) + 1
    BY <1>4, <1>6, <1>7
  <2>. QED  BY <1>2, <1>3, <1>7, <2>1
<1>8. CASE k # m
  <2>1. Cardinality(Q) = Cardinality(P)
    BY <1>4, <1>8
  <2>2. Occurrences(Append(s, m), k) = Occurrences(s, k)
    BY <1>2, <1>3, <2>1
  <2>3. Occurrences(s, k) + 0 = Occurrences(s, k)
    BY <1>2
  <2>. QED  BY <1>8, <2>2, <2>3
<1>. QED  BY <1>7, <1>8

OneBefore(s, u) == Len(s) = Len(u) + 1 /\ \A i \in 1 .. Len(u) : s[i + 1] = u[i]

LEMMA OccurrencesFront ==
  ASSUME NEW s \in Seq(Payload), NEW u \in Seq(Payload), OneBefore(s, u), NEW k
  PROVE  Occurrences(s, k) = Occurrences(u, k) + (IF k = s[1] THEN 1 ELSE 0)
<1>. DEFINE n == Len(u)
            P == Positions(u, k)
            Q == Positions(s, k)
            R == {i + 1 : i \in P}
<1>1. /\ IsFiniteSet(P) /\ P \in SUBSET Nat /\ P = {i \in 1 .. n : u[i] = k}
      /\ Occurrences(u, k) = Cardinality(P) /\ Cardinality(P) \in Nat /\ n \in Nat
  BY PositionsFinite
<1>2. /\ Q = {i \in 1 .. n + 1 : s[i] = k} /\ Occurrences(s, k) = Cardinality(Q)
      /\ \A i \in 1 .. n : s[i + 1] = u[i]
  BY PositionsFinite DEF OneBefore
<1>3. IsFiniteSet(R) /\ Cardinality(R) = Cardinality(P)
  <2>. HIDE DEF P
  <2>. QED  BY <1>1, ShiftCount
<1>. HIDE DEF P, Q
<1>4. R = {j \in 2 .. n + 1 : s[j] = k}
  <2>1. \A i \in P : i + 1 \in 2 .. n + 1 /\ s[i + 1] = k
    BY <1>1, <1>2
  <2>2. ASSUME NEW j \in 2 .. n + 1, s[j] = k  PROVE j \in R
    <3>1. j - 1 \in 1 .. n /\ (j - 1) + 1 = j
      BY <1>1
    <3>2. u[j - 1] = k
      BY <1>2, <2>2, <3>1
    <3>3. j - 1 \in P
      BY <1>1, <3>1, <3>2
    <3>. QED  BY <3>1, <3>3
  <2>3. \A j \in R : j \in 2 .. n + 1 /\ s[j] = k
    BY <2>1
  <2>. QED  BY <2>2, <2>3
<1>. HIDE DEF R, n
<1>5. Q = IF k = s[1] THEN R \cup {1} ELSE R
  BY <1>1, <1>2, <1>4
<1>6. 1 \notin R
  BY <1>1, <1>4
<1>7. Cardinality(R \cup {1}) = Cardinality(R) + 1
  BY <1>3, <1>6, FS_AddElement
<1>8. CASE k = s[1]
  <2>1. Cardinality(Q) = Cardinality(P) + 1
    BY <1>3, <1>5, <1>7, <1>8
  <2>. QED  BY <1>1, <1>2, <1>8, <2>1
<1>9. CASE k # s[1]
  <2>1. Cardinality(Q) = Cardinality(P)
    BY <1>3, <1>5, <1>9
  <2>. QED  BY <1>1, <1>2, <1>9, <2>1
<1>. QED  BY <1>8, <1>9

\* What a step of the queues does to one entry of the history.
LEMMA Owe_At ==
  ASSUME OwedTypeOK, NEW e, NEW m, NEW n \in Int, Owe(e, m, n),
         NEW f \in Queue, NEW k \in Msg
  PROVE  owed'[f][k] = owed[f][k] + (IF f = e /\ k = m THEN n ELSE 0)
<1>1. owed[f] \in [Msg -> Int]
  BY DEF OwedTypeOK
<1>2. CASE f = e
  <2>1. owed'[f] = [owed[f] EXCEPT ![m] = owed[f][m] + n]
    BY <1>2 DEF OwedTypeOK, Owe
  <2>. QED  BY <1>1, <1>2, <2>1
<1>3. CASE f # e
  BY <1>1, <1>3 DEF OwedTypeOK, Owe
<1>. QED  BY <1>2, <1>3

\* The tasks that hold message m of queue e.
Holders(e, m) == {t \in Task : Box[t] = <<e, m>>}

LEMMA HoldersFinite ==
  ASSUME NEW e, NEW m
  PROVE  IsFiniteSet(Holders(e, m)) /\ Cardinality(Holders(e, m)) \in Nat
<1>1. IsFiniteSet(1 .. Idle)
  BY FS_Interval
<1>2. Holders(e, m) \in SUBSET (1 .. Idle)
  BY DEF Holders, Task
<1>3. IsFiniteSet(Holders(e, m))
  BY <1>1, <1>2, FS_Subset
<1>. QED  BY <1>3, FS_CardinalityType

BoxesTyped == \A t \in Task : Box[t] = <<>> \/ Box[t] = <<Box[t][1], Box[t][2]>>

LEMMA StateShapes ==
  ASSUME RingTypeOK
  PROVE  /\ \A e \in Queue : Contents[e] \in Seq(Payload)
         /\ Contents = [e \in Queue |-> Contents[e]]
         /\ Box = [t \in Task |-> Box[t]] /\ BoxesTyped
<1>1. ASSUME NEW e \in Queue  PROVE Contents[e] \in Seq(Payload)
  <2>1. buf[e] \in [Slot -> Payload] /\ qout[e] \in Slot /\ entries[e] \in 0 .. QSize
    BY DEF RingTypeOK, Payload
  <2>2. Contents[e] = Read(buf[e], qout[e], entries[e])
    BY ContentsRead
  <2>. QED  BY <2>1, <2>2, ReadIsSeq
<1>2. ASSUME NEW t \in Task
      PROVE  Box[t] = <<>> \/ Box[t] = <<Box[t][1], Box[t][2]>>
  <2>1. Box[t] = <<>> \/ Box[t] = <<on[t], tcbMsg[t]>>
    BY DEF Box
  <2>. QED  BY <2>1
<1>. QED  BY <1>1, <1>2 DEF Contents, Box, BoxesTyped

\* The accounts of one queue and one message.
Settled(e, m) == owed[e][m] = Occurrences(Contents[e], m) + Cardinality(Holders(e, m))

LEMMA SettledStep ==
  ASSUME RingTypeOK, OwedTypeOK, ImplementsMsgQueue!Next,
         NEW f \in Queue, NEW k \in Msg, Settled(f, k)
  PROVE  owed'[f][k] = Occurrences(Contents'[f], k)
                         + Cardinality({t \in Task : Box'[t] = <<f, k>>})
<1>. DEFINE H == Holders(f, k)
            N == {t \in Task : Box'[t] = <<f, k>>}
<1>0. /\ Contents[f] \in Seq(Payload) /\ Contents = [e \in Queue |-> Contents[e]]
      /\ Box = [t \in Task |-> Box[t]] /\ BoxesTyped
      /\ k \in Payload
  BY StateShapes DEF Payload
<1>1. /\ owed[f][k] = Occurrences(Contents[f], k) + Cardinality(H)
      /\ owed[f][k] \in Int /\ Occurrences(Contents[f], k) \in Nat
      /\ IsFiniteSet(H) /\ Cardinality(H) \in Nat
  BY <1>0, HoldersFinite, PositionsFinite DEF Settled, OwedTypeOK
<1>2. ASSUME Box' = Box  PROVE N = H
  BY <1>2 DEF Holders
<1>. HIDE DEF H, N
<1>3. ASSUME NEW e \in Queue, NEW m \in Msg, ImplementsMsgQueue!Put(e, m)
      PROVE  owed'[f][k] = Occurrences(Contents'[f], k) + Cardinality(N)
  <2>1. Box' = Box /\ Owe(e, m, 1)
    BY <1>3 DEF ImplementsMsgQueue!Put, ImplementsMsgQueue!Owe, Owe
  <2>2. owed'[f][k] = owed[f][k] + (IF f = e /\ k = m THEN 1 ELSE 0)
    BY <2>1, Owe_At
  <2>3. CASE f = e
    <3>1. m \in Payload
      BY DEF Payload
    <3>2. CASE Contents' = [Contents EXCEPT ![e] = Append(@, m)]
      <4>1. Contents'[f] = Append(Contents[f], m)
        BY <1>0, <2>3, <3>2
      <4>2. Occurrences(Append(Contents[f], m), k)
              = Occurrences(Contents[f], k) + (IF k = m THEN 1 ELSE 0)
        BY <1>0, <3>1, OccurrencesAppend
      <4>. QED  BY <1>1, <1>2, <2>1, <2>2, <2>3, <4>1, <4>2
    <3>3. CASE Contents' = [Contents EXCEPT ![e] = <<m>> \o @]
      <4>1. Contents'[f] = <<m>> \o Contents[f]
        BY <1>0, <2>3, <3>3
      <4>2. Occurrences(<<m>> \o Contents[f], k)
              = Occurrences(Contents[f], k) + (IF k = m THEN 1 ELSE 0)
        <5>. DEFINE new == <<m>> \o Contents[f]
        <5>1. /\ new \in Seq(Payload) /\ Len(new) = Len(Contents[f]) + 1 /\ new[1] = m
              /\ \A i \in 1 .. Len(Contents[f]) : new[i + 1] = Contents[f][i]
          BY <1>0, <3>1
        <5>3. OneBefore(new, Contents[f])
          BY <5>1 DEF OneBefore
        <5>. HIDE DEF new
        <5>2. Occurrences(new, k)
                = Occurrences(Contents[f], k) + (IF k = new[1] THEN 1 ELSE 0)
          BY <1>0, <5>1, <5>3, OccurrencesFront
        <5>. QED  BY <5>1, <5>2 DEF new
      <4>. QED  BY <1>1, <1>2, <2>1, <2>2, <2>3, <4>1, <4>2
    <3>. QED  BY <1>3, <3>2, <3>3 DEF ImplementsMsgQueue!Put
  <2>4. CASE f # e
    <3>1. Contents'[f] = Contents[f]
      BY <1>0, <1>3, <2>4 DEF ImplementsMsgQueue!Put
    <3>. QED  BY <1>1, <1>2, <2>1, <2>2, <2>4, <3>1
  <2>. QED  BY <2>3, <2>4
<1>4. ASSUME NEW e \in Queue, NEW m \in Msg, NEW T \in SUBSET Task,
             ImplementsMsgQueue!Give(e, m, T)
      PROVE  owed'[f][k] = Occurrences(Contents'[f], k) + Cardinality(N)
  <2>1. Contents' = Contents /\ Owe(e, m, Cardinality(T))
    BY <1>4, SameCount DEF ImplementsMsgQueue!Give, ImplementsMsgQueue!Owe, Owe
  <2>2. IsFiniteSet(T) /\ Cardinality(T) \in Nat
    <3>1. IsFiniteSet(1 .. Idle) /\ T \in SUBSET (1 .. Idle)
      BY FS_Interval DEF Task
    <3>. QED  BY <3>1, FS_Subset, FS_CardinalityType
  <2>3. owed'[f][k] = owed[f][k] + (IF f = e /\ k = m THEN Cardinality(T) ELSE 0)
    BY <2>1, <2>2, Owe_At
  <2>4. /\ \A t \in T : Box[t] = <<>>
        /\ Box' = [t \in Task |-> IF t \in T THEN <<e, m>> ELSE Box[t]]
    BY <1>4 DEF ImplementsMsgQueue!Give
  <2>7. \A t \in Task : Box'[t] = IF t \in T THEN <<e, m>> ELSE Box[t]
    BY <2>4
  <2>8. \A t \in T : t \in Task /\ Box[t] # <<f, k>>
    BY <2>4
  <2>5. CASE f = e /\ k = m
    <3>1. N = H \cup T
      BY <2>5, <2>7, <2>8 DEF N, H, Holders
    <3>2. H \cap T = {}
      BY <2>8 DEF H, Holders
    <3>3. Cardinality(H \cap T) = 0
      BY <3>2, FS_EmptySet
    <3>4. Cardinality(H \cup T) = Cardinality(H) + Cardinality(T) - Cardinality(H \cap T)
      BY <1>1, <2>2, FS_Union
    <3>5. Cardinality(N) = Cardinality(H) + Cardinality(T)
      BY <1>1, <2>2, <3>1, <3>3, <3>4
    <3>. QED  BY <1>1, <2>1, <2>2, <2>3, <2>5, <3>5
  <2>6. CASE ~ (f = e /\ k = m)
    <3>1. <<e, m>> # <<f, k>>
      BY <2>6
    <3>2. N = H
      BY <2>7, <2>8, <3>1 DEF N, H, Holders
    <3>. QED  BY <1>1, <2>1, <2>3, <2>6, <3>2
  <2>. QED  BY <2>5, <2>6
<1>5. ASSUME NEW e \in Queue, ImplementsMsgQueue!Take(e)
      PROVE  owed'[f][k] = Occurrences(Contents'[f], k) + Cardinality(N)
  <2>1. /\ Box' = Box /\ Owe(e, Head(Contents[e]), -1)
        /\ Contents[e] # <<>> /\ Contents' = [Contents EXCEPT ![e] = Tail(@)]
    BY <1>5 DEF ImplementsMsgQueue!Take, ImplementsMsgQueue!Owe, Owe
  <2>2. owed'[f][k] = owed[f][k] + (IF f = e /\ k = Head(Contents[e]) THEN -1 ELSE 0)
    BY <2>1, Owe_At
  <2>3. CASE f = e
    <3>. DEFINE new == Tail(Contents[f])
    <3>1. /\ new \in Seq(Payload) /\ Len(Contents[f]) = Len(new) + 1
          /\ Contents[f][1] = Head(Contents[f])
          /\ \A i \in 1 .. Len(new) : Contents[f][i + 1] = new[i]
      BY <1>0, <2>1, <2>3
    <3>3. Contents'[f] = new
      BY <1>0, <2>1, <2>3
    <3>5. OneBefore(Contents[f], new)
      BY <3>1 DEF OneBefore
    <3>. HIDE DEF new
    <3>2. Occurrences(Contents[f], k)
            = Occurrences(new, k) + (IF k = Contents[f][1] THEN 1 ELSE 0)
      BY <1>0, <3>1, <3>5, OccurrencesFront
    <3>4. Occurrences(new, k) \in Nat
      BY <3>1, PositionsFinite
    <3>. DEFINE d == IF k = Contents[f][1] THEN 1 ELSE 0
    <3>6. /\ Occurrences(Contents[f], k) = Occurrences(new, k) + d /\ d \in {0, 1}
      BY <3>2
    <3>7. owed'[f][k] = owed[f][k] - d
      <4>1. CASE k = Contents[f][1]
        BY <1>1, <2>2, <2>3, <3>1, <4>1
      <4>2. CASE k # Contents[f][1]
        BY <1>1, <2>2, <2>3, <3>1, <4>2
      <4>. QED  BY <4>1, <4>2
    <3>8. N = H /\ Occurrences(Contents'[f], k) = Occurrences(new, k)
      BY <1>2, <2>1, <3>3
    <3>. HIDE DEF d
    <3>. QED  BY <1>1, <3>4, <3>6, <3>7, <3>8
  <2>4. CASE f # e
    <3>1. Contents'[f] = Contents[f]
      BY <1>0, <2>1, <2>4
    <3>. QED  BY <1>1, <1>2, <2>1, <2>2, <2>4, <3>1
  <2>. QED  BY <2>3, <2>4
<1>6. ASSUME NEW e \in Queue, ImplementsMsgQueue!Flush(e)
      PROVE  owed'[f][k] = Occurrences(Contents'[f], k) + Cardinality(N)
  <2>1. /\ Box' = Box /\ Contents' = [Contents EXCEPT ![e] = <<>>]
        /\ owed' = [owed EXCEPT ![e] =
                      [m \in Msg |-> @[m] - Occurrences(Contents[e], m)]]
    BY <1>6, SameCount
       DEF ImplementsMsgQueue!Flush, ImplementsMsgQueue!Occurrences, Occurrences
  <2>2. CASE f = e
    <3>1. Contents'[f] = <<>>
      BY <1>0, <2>1, <2>2
    <3>2. Occurrences(<<>>, k) = 0
      BY FS_EmptySet DEF Occurrences
    <3>3. owed'[f][k] = owed[f][k] - Occurrences(Contents[f], k)
      BY <2>1, <2>2 DEF OwedTypeOK
    <3>. QED  BY <1>1, <1>2, <2>1, <3>1, <3>2, <3>3
  <2>3. CASE f # e
    <3>1. Contents'[f] = Contents[f] /\ owed'[f] = owed[f]
      BY <1>0, <2>1, <2>3 DEF OwedTypeOK
    <3>. QED  BY <1>1, <1>2, <2>1, <3>1
  <2>. QED  BY <2>2, <2>3
<1>7. ASSUME NEW t \in Task, ImplementsMsgQueue!Open(t)
      PROVE  owed'[f][k] = Occurrences(Contents'[f], k) + Cardinality(N)
  <2>1. /\ Contents' = Contents /\ Box[t] # <<>> /\ Box' = [Box EXCEPT ![t] = <<>>]
        /\ Owe(Box[t][1], Box[t][2], -1)
    BY <1>7 DEF ImplementsMsgQueue!Open, ImplementsMsgQueue!Owe, Owe
  <2>2. owed'[f][k] = owed[f][k] + (IF f = Box[t][1] /\ k = Box[t][2] THEN -1 ELSE 0)
    BY <2>1, Owe_At
  <2>3. Box[t] = <<Box[t][1], Box[t][2]>>
    BY <1>0, <2>1 DEF BoxesTyped
  <2>4. /\ Box'[t] = <<>> /\ \A u \in Task \ {t} : Box'[u] = Box[u]
    BY <1>0, <2>1
  <2>5. CASE f = Box[t][1] /\ k = Box[t][2]
    <3>1. t \in H
      BY <2>3, <2>5 DEF H, Holders
    <3>2. N = H \ {t}
      BY <2>4 DEF N, H, Holders
    <3>3. Cardinality(N) = Cardinality(H) - 1
      BY <1>1, <3>1, <3>2, FS_RemoveElement
    <3>. QED  BY <1>1, <2>1, <2>2, <2>5, <3>3
  <2>6. CASE ~ (f = Box[t][1] /\ k = Box[t][2])
    <3>1. t \notin H
      BY <2>6 DEF H, Holders
    <3>2. N = H
      BY <2>4, <3>1 DEF N, H, Holders
    <3>. QED  BY <1>1, <2>1, <2>2, <2>6, <3>2
  <2>. QED  BY <2>5, <2>6
<1>. QED  BY <1>3, <1>4, <1>5, <1>6, <1>7 DEF ImplementsMsgQueue!Next, N

\* Every message a queue has accepted and neither returned nor flushed is in
\* its ring or handed to one task whose pend returns it, for any tasks,
\* messages and ring size: no post meets a timeout, an abort or a broadcast in
\* an order that loses or doubles a message (os_q.c:438, os_core.c:902).
THEOREM KernelMessages == Spec => []NoMessageLost
<1>1. Init => RingSound /\ NoMessageLost
  <2>. SUFFICES ASSUME Init  PROVE RingSound /\ NoMessageLost
    OBVIOUS
  <2>1. RingSound
    BY DEF Init, QInit, RingSound
  <2>2. ASSUME NEW e \in Queue, NEW m \in Msg  PROVE Settled(e, m)
    <3>1. Contents[e] = <<>>
      BY InitInv, ContentsRead DEF Init, QInit, Inv
    <3>2. Holders(e, m) = {}
      BY DEF Init, CoreInit, Holders, Box, Given, Event
    <3>3. Occurrences(<<>>, m) = 0 /\ Cardinality(Holders(e, m)) = 0
      BY <3>2, FS_EmptySet DEF Occurrences
    <3>. QED  BY <3>1, <3>3 DEF Init, QInit, Settled
  <2>. QED  BY <2>1, <2>2 DEF NoMessageLost, Settled, Holders
<1>2. Inv /\ Inv' /\ RingSound /\ NoMessageLost /\ [Next]_vars
        => RingSound' /\ NoMessageLost'
  <2>. SUFFICES ASSUME Inv, Inv', RingSound, NoMessageLost, [Next]_vars
                PROVE  RingSound' /\ NoMessageLost'
    OBVIOUS
  <2>1. CASE UNCHANGED vars
    <3>1. UNCHANGED core /\ UNCHANGED ring /\ UNCHANGED owed
      BY <2>1 DEF vars
    <3>2. RingSound' /\ Contents' = Contents /\ Box' = Box
      BY <3>1 DEF core, tcbs, ring, RingSound, Contents, At, Box, Given
    <3>. QED  BY <3>1, <3>2 DEF NoMessageLost
  <2>2. CASE Next
    <3>1. RingSound' /\ [ImplementsMsgQueue!Next]_<<Contents, Box, owed>>
      BY <2>2, QueueStep
    <3>2. CASE UNCHANGED <<Contents, Box, owed>>
      BY <3>1, <3>2 DEF NoMessageLost
    <3>3. CASE ImplementsMsgQueue!Next
      <4>1. ASSUME NEW e \in Queue, NEW m \in Msg
            PROVE  owed'[e][m] = Occurrences(Contents'[e], m)
                                   + Cardinality({t \in Task : Box'[t] = <<e, m>>})
        <5>1. Settled(e, m)
          BY DEF NoMessageLost, Settled, Holders
        <5>. QED  BY <3>3, <5>1, SettledStep DEF Inv
      <4>. QED  BY <3>1, <4>1 DEF NoMessageLost
    <3>. QED  BY <3>1, <3>2, <3>3
  <2>. QED  BY <2>1, <2>2
<1>. QED  BY <1>1, <1>2, KernelInvariant, PTL DEF Spec

=============================================================================
