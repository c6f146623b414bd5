--------------------------- MODULE UcosCoreProofs ---------------------------
(***************************************************************************)
(* What the scheduler, the wait lists and time keep true of the tasks, for *)
(* any numbers of tasks, events and messages.  Every step of UcosQ and of  *)
(* TcpSleep does one of the operations below to the variables of Ucos.     *)
(***************************************************************************)
EXTENDS UcosSem, TLAPS, FiniteSetTheorems

USE KernelAssumption DEF KernelAssumption

\* What a pend leaves in the control block of its task, and in the wait
\* lists, until the task returns from it.
PendingOf(t) ==
  /\ on[t] = NoMsg => at[t] \in {"run", "sched"} /\ stat[t] \subseteq {"suspend"}
  /\ on[t] \in Event =>
       /\ at[t] \in {"block", "wake"}
       /\ stat[t] \subseteq {Bit(on[t]), "suspend"}
       /\ Bit(on[t]) \in stat[t] => statPend[t] = "ok"
       /\ Bit(on[t]) \notin stat[t] => dly[t] = 0
  /\ \A e \in Event : t \in wait[e] <=>
       on[t] = e /\ (Bit(e) \in stat[t] \/ statPend[t] = "timeout")
PendingSound == \A t \in Task : PendingOf(t)

CoreInv == CoreTypeOK /\ ReadyIffRunnable /\ HighestRuns /\ PendingSound

-----------------------------------------------------------------------------
\* A set of priorities that is not empty has a highest one, and Highest is it.
LEMMA HighestIsLeast ==
  ASSUME NEW S \in SUBSET Nat, S # {}
  PROVE  Highest(S) \in S /\ \A u \in S : Highest(S) <= u
<1> DEFINE R == {ss \in Nat \X Nat : ss[1] < ss[2]}
<1>1. OpToRel(<, Nat) = R
  BY Zenon DEF OpToRel
<1>2. IsWellFoundedOn(R, Nat)
  <2>. HIDE DEF R
  <2>. QED  BY <1>1, NatLessThanWellFounded, Zenon
<1>3. PICK t \in S : \A u \in S : <<u, t>> \notin R
  <2>. HIDE DEF R
  <2>. QED  BY <1>2, WFMin
<1>4. ASSUME NEW u \in S  PROVE t <= u
  <2>1. u \in Nat /\ t \in Nat
    OBVIOUS
  <2>2. <<u, t>> \in Nat \X Nat /\ <<u, t>>[1] = u /\ <<u, t>>[2] = t
    BY <2>1
  <2>3. ~ (u < t)
    BY <1>3, <2>2, Zenon
  <2>. QED  BY <2>1, <2>3
<1>. QED  BY <1>4 DEF Highest

LEMMA HighestTask ==
  ASSUME NEW S \in SUBSET Task, S # {}
  PROVE  Highest(S) \in S /\ \A u \in S : Highest(S) <= u
<1>1. S \in SUBSET Nat
  BY DEF Task
<1>. QED  BY <1>1, HighestIsLeast

\* A task that stays ahead of the ready ones is the highest of those left.
LEMMA HighestStays ==
  ASSUME NEW S \in SUBSET Task, NEW T \in SUBSET S, Highest(S) \in T
  PROVE  Highest(T) = Highest(S)
<1>1. Highest(T) \in T /\ Highest(T) <= Highest(S)
  BY HighestTask
<1>2. Highest(S) <= Highest(T)
  BY <1>1, HighestTask
<1>3. \A u \in Task : u \in Int
  BY DEF Task
<1>4. Highest(S) \in Int /\ Highest(T) \in Int
  BY <1>1, <1>3, Zenon
<1>. QED  BY <1>1, <1>2, <1>4

\* When the table of ready tasks is used, it names a task.
LEMMA SwitchToTask ==
  ASSUME CoreInv, rdy' \subseteq Task, Idle \in rdy', Switch
  PROVE  /\ cur' \in Task
         /\ lock' = 0 => cur' = Highest(rdy')
         /\ lock' # 0 => cur' = cur
BY HighestTask DEF Switch, CoreInv, CoreTypeOK

\* The running task is ready when nothing keeps it from rescheduling.
LEMMA CurrentReady ==
  ASSUME CoreInv, lock = 0, at[cur] \in {"run", "wake"}
  PROVE  cur \in rdy /\ stat[cur] = {} /\ dly[cur] = 0
<1>1. cur = Highest(rdy) /\ rdy \subseteq Task /\ rdy # {}
  BY DEF CoreInv, HighestRuns, CoreTypeOK
<1>2. cur \in rdy
  BY <1>1, HighestTask
<1>. QED  BY <1>1, <1>2 DEF CoreInv, ReadyIffRunnable

-----------------------------------------------------------------------------
(* The operations keep the invariant                                       *)

LEMMA CoreInit_Inv == CoreInit => CoreInv
<1>. SUFFICES ASSUME CoreInit  PROVE CoreInv
  OBVIOUS
<1>1. CoreTypeOK
  BY DEF CoreInit, CoreTypeOK, Task
<1>2. ReadyIffRunnable
  BY DEF CoreInit, ReadyIffRunnable
<1>3. HighestRuns
  <2>1. 1 \in Task /\ \A u \in Task : 1 <= u
    BY DEF Task
  <2>2. Highest(Task) \in Task /\ Highest(Task) <= 1
    BY <2>1, HighestTask
  <2>3. Highest(Task) = 1
    BY <2>1, <2>2 DEF Task
  <2>. QED  BY <2>3 DEF CoreInit, HighestRuns
<1>4. PendingSound
  BY DEF CoreInit, PendingSound, PendingOf, Event
<1>. QED  BY <1>1, <1>2, <1>3, <1>4 DEF CoreInv

LEMMA Unchanged_Inv ==
  ASSUME CoreInv, UNCHANGED core
  PROVE  CoreInv'
BY DEF CoreInv, CoreTypeOK, ReadyIffRunnable, HighestRuns, PendingSound, PendingOf,
       core, tcbs, Highest

LEMMA Sched_Inv ==
  ASSUME CoreInv, OS_Sched
  PROVE  CoreInv'
<1>. USE DEF CoreInv
<1>1. /\ UNCHANGED <<rdy, lock, stat, statPend, dly, tcbMsg, wait, on>>
      /\ at' = [at EXCEPT ![cur] = IF @ = "block" THEN "wake" ELSE "run"]
      /\ at[cur] \in {"sched", "block"}
      /\ Switch
  BY DEF OS_Sched, tcbs
<1>2. /\ cur' \in Task
      /\ lock' = 0 => cur' = Highest(rdy')
      /\ lock' # 0 => cur' = cur
  BY <1>1, SwitchToTask DEF CoreTypeOK
<1>3. CoreTypeOK'
  BY <1>1, <1>2 DEF CoreTypeOK
<1>4. ReadyIffRunnable'
  BY <1>1 DEF ReadyIffRunnable
<1>5. HighestRuns'
  BY <1>1, <1>2 DEF HighestRuns, CoreTypeOK
<1>6. PendingSound'
  BY <1>1 DEF PendingSound, PendingOf, CoreTypeOK
<1>. QED  BY <1>3, <1>4, <1>5, <1>6

LEMMA Lock_Inv ==
  ASSUME CoreInv, OSSchedLock \/ OSSchedUnlock
  PROVE  CoreInv'
<1>. USE DEF CoreInv
<1>1. /\ UNCHANGED <<rdy, cur, stat, statPend, dly, tcbMsg, wait, on>>
      /\ at[cur] = "run"
      /\ lock' \in 0 .. MaxLock
      /\ \/ at' = at /\ lock' > 0
         \/ at' = [at EXCEPT ![cur] = "run"] /\ (lock' = 0 => lock = 0)
         \/ at' = [at EXCEPT ![cur] = "sched"]
  BY DEF OSSchedLock, OSSchedUnlock, Running, tcbs, CoreTypeOK
<1>2. CoreTypeOK'
  BY <1>1 DEF CoreTypeOK
<1>3. ReadyIffRunnable'
  BY <1>1 DEF ReadyIffRunnable
<1>4. HighestRuns'
  BY <1>1 DEF HighestRuns, CoreTypeOK
<1>5. PendingSound'
  BY <1>1 DEF PendingSound, PendingOf, CoreTypeOK
<1>. QED  BY <1>2, <1>3, <1>4, <1>5

LEMMA Wake_Inv ==
  ASSUME CoreInv, Wake
  PROVE  CoreInv'
<1>. USE DEF CoreInv
<1>1. /\ at[cur] = "wake" /\ cur \in Task
      /\ on[cur] \in Event /\ stat[cur] = {} /\ dly[cur] = 0
  <2>1. lock = 0 /\ at[cur] = "wake" /\ cur \in Task
    BY DEF Wake, HighestRuns, CoreTypeOK
  <2>. QED  BY <2>1, CurrentReady DEF PendingSound, PendingOf, CoreTypeOK
<1>2. /\ UNCHANGED <<rdy, cur, lock, dly>>
      /\ stat' = [stat EXCEPT ![cur] = {}]
      /\ statPend' = [statPend EXCEPT ![cur] = "ok"]
      /\ tcbMsg' = [tcbMsg EXCEPT ![cur] = IF on[cur] \in Queue THEN NoMsg ELSE @]
      /\ at' = [at EXCEPT ![cur] = "run"]
      /\ on' = [on EXCEPT ![cur] = NoMsg]
      /\ wait' = [e \in Event |-> IF e = on[cur] /\ statPend[cur] = "timeout"
                                  THEN wait[e] \ {cur} ELSE wait[e]]
  BY DEF Wake
<1>3. CoreTypeOK'
  BY <1>1, <1>2 DEF CoreTypeOK
<1>4. ReadyIffRunnable'
  BY <1>1, <1>2 DEF ReadyIffRunnable, CoreTypeOK
<1>5. HighestRuns'
  BY <1>1, <1>2 DEF HighestRuns, CoreTypeOK
<1>6. PendingSound'
  <2>1. /\ on'[cur] = NoMsg /\ at'[cur] = "run" /\ stat'[cur] = {}
        /\ NoMsg \notin Event
    BY <1>1, <1>2 DEF CoreTypeOK, Event
  <2>2. \A e \in Event : cur \notin wait'[e]
    BY <1>1, <1>2 DEF PendingSound, PendingOf, CoreTypeOK
  <2>3. \A t \in Task \ {cur} :
          /\ on'[t] = on[t] /\ at'[t] = at[t] /\ stat'[t] = stat[t]
          /\ statPend'[t] = statPend[t] /\ dly'[t] = dly[t]
          /\ \A e \in Event : t \in wait'[e] <=> t \in wait[e]
    BY <1>2 DEF CoreTypeOK
  <2>. QED  BY <2>1, <2>2, <2>3 DEF PendingSound, PendingOf
<1>. QED  BY <1>3, <1>4, <1>5, <1>6

LEMMA Block_Inv ==
  ASSUME CoreInv, Running, lock = 0, cur # Idle,
         NEW e \in Event, NEW timeout \in 0 .. MaxDelay, Block(e, timeout)
  PROVE  CoreInv'
<1>. USE DEF CoreInv
<1>1. /\ at[cur] = "run" /\ cur \in Task /\ on[cur] = NoMsg
      /\ cur \in rdy /\ stat[cur] = {} /\ dly[cur] = 0
  BY CurrentReady DEF Running, CoreTypeOK, PendingSound, PendingOf
<1>2. /\ stat' = [stat EXCEPT ![cur] = @ \cup {Bit(e)}]
      /\ statPend' = [statPend EXCEPT ![cur] = "ok"]
      /\ dly' = [dly EXCEPT ![cur] = timeout]
      /\ wait' = [wait EXCEPT ![e] = @ \cup {cur}]
      /\ rdy' = rdy \ {cur}
      /\ at' = [at EXCEPT ![cur] = "block"]
      /\ on' = [on EXCEPT ![cur] = e]
      /\ UNCHANGED <<cur, lock, tcbMsg>>
  BY DEF Block
<1>3. Bit(e) \in {"sem", "q"}
  BY DEF Bit
<1>4. CoreTypeOK'
  BY <1>1, <1>2, <1>3 DEF CoreTypeOK
<1>5. ReadyIffRunnable'
  BY <1>1, <1>2 DEF ReadyIffRunnable, CoreTypeOK
<1>6. HighestRuns'
  BY <1>1, <1>2 DEF HighestRuns, CoreTypeOK
<1>7. PendingSound'
  <2>1. /\ on'[cur] = e /\ at'[cur] = "block" /\ stat'[cur] = {Bit(e)}
        /\ statPend'[cur] = "ok" /\ NoMsg \notin Event
    BY <1>1, <1>2 DEF CoreTypeOK, Event
  <2>2. \A f \in Event : cur \in wait'[f] <=> f = e
    BY <1>1, <1>2 DEF PendingSound, PendingOf, CoreTypeOK, Event
  <2>3. \A t \in Task \ {cur} :
          /\ on'[t] = on[t] /\ at'[t] = at[t] /\ stat'[t] = stat[t]
          /\ statPend'[t] = statPend[t] /\ dly'[t] = dly[t]
          /\ \A f \in Event : t \in wait'[f] <=> t \in wait[f]
    BY <1>2 DEF CoreTypeOK
  <2>. QED  BY <2>1, <2>2, <2>3 DEF PendingSound, PendingOf
<1>. QED  BY <1>4, <1>5, <1>6, <1>7

\* How a step that readies tasks ends: in the service of a task, or in
\* OSIntExit.
Ending ==
  \/ Running /\ ThenSched
  \/ UNCHANGED <<lock, at, on>> /\ Switch

LEMMA Ending_HighestRuns ==
  ASSUME CoreInv, Ending, rdy' \subseteq Task, Idle \in rdy'
  PROVE  /\ HighestRuns'
         /\ cur' \in Task /\ lock' = lock /\ on' = on
         /\ at' \in [Task -> {"run", "sched", "block", "wake"}]
         /\ \A t \in Task : at'[t] = at[t] \/ (on[t] = NoMsg /\ at'[t] = "sched")
<1>. USE DEF CoreInv
<1>1. CASE Running /\ ThenSched
  BY <1>1 DEF Running, ThenSched, HighestRuns, CoreTypeOK, PendingSound, PendingOf
<1>2. CASE UNCHANGED <<lock, at, on>> /\ Switch
  <2>1. /\ cur' \in Task
        /\ lock' = 0 => cur' = Highest(rdy')
        /\ lock' # 0 => cur' = cur
    BY <1>2, SwitchToTask
  <2>. QED  BY <1>2, <2>1 DEF HighestRuns, CoreTypeOK
<1>. QED  BY <1>1, <1>2 DEF Ending

LEMMA EventTaskRdy_Inv ==
  ASSUME CoreInv, NEW e \in Event, NEW W \in SUBSET wait[e],
         NEW m \in Msg \cup {NoMsg}, NEW why \in {"ok", "abort"},
         EventTaskRdy(e, W, m, why), Ending
  PROVE  CoreInv'
<1>. USE DEF CoreInv
<1>1. /\ dly' = [t \in Task |-> IF t \in W THEN 0 ELSE dly[t]]
      /\ tcbMsg' = [t \in Task |-> IF t \in W THEN m ELSE tcbMsg[t]]
      /\ stat' = [t \in Task |-> IF t \in W THEN stat[t] \ {Bit(e)} ELSE stat[t]]
      /\ statPend' = [t \in Task |-> IF t \in W THEN why ELSE statPend[t]]
      /\ rdy' = rdy \cup {t \in W : "suspend" \notin stat[t]}
      /\ wait' = [wait EXCEPT ![e] = @ \ W]
  BY DEF EventTaskRdy
<1>2. W \in SUBSET Task
  BY DEF CoreTypeOK
<1>3. Bit(e) \in {"sem", "q"}
  BY DEF Bit
<1>4. \A t \in W : on[t] = e /\ stat[t] \subseteq {Bit(e), "suspend"}
  BY <1>2 DEF PendingSound, PendingOf
<1>5. /\ HighestRuns'
      /\ cur' \in Task /\ lock' = lock /\ on' = on
      /\ at' \in [Task -> {"run", "sched", "block", "wake"}]
      /\ \A t \in Task : at'[t] = at[t] \/ (on[t] = NoMsg /\ at'[t] = "sched")
  BY <1>1, <1>2, Ending_HighestRuns DEF CoreTypeOK
<1>6. CoreTypeOK'
  <2>1. stat' \in [Task -> SUBSET {"sem", "q", "suspend"}]
    BY <1>1 DEF CoreTypeOK
  <2>2. /\ dly' \in [Task -> 0 .. MaxDelay]
        /\ tcbMsg' \in [Task -> Msg \cup {NoMsg}]
    BY <1>1 DEF CoreTypeOK
  <2>3. statPend' \in [Task -> {"ok", "timeout", "abort"}]
    BY <1>1 DEF CoreTypeOK
  <2>4. wait' \in [Event -> SUBSET Task]
    BY <1>1 DEF CoreTypeOK
  <2>. QED  BY <1>1, <1>2, <1>5, <2>1, <2>2, <2>3, <2>4 DEF CoreTypeOK
<1>7. ReadyIffRunnable'
  BY <1>1, <1>2, <1>3, <1>4 DEF ReadyIffRunnable, CoreTypeOK
<1>8. PendingSound'
  <2>1. ASSUME NEW t \in W
        PROVE  /\ on'[t] = e /\ at'[t] \in {"block", "wake"}
               /\ stat'[t] \subseteq {"suspend"} /\ dly'[t] = 0
               /\ Bit(e) \notin stat'[t] /\ statPend'[t] # "timeout"
               /\ NoMsg \notin Event /\ t \in Task
               /\ \A f \in Event : t \notin wait'[f]
    BY <1>1, <1>2, <1>3, <1>4, <1>5 DEF PendingSound, PendingOf, CoreTypeOK, Event
  <2>2. \A t \in Task \ W :
          /\ on'[t] = on[t] /\ stat'[t] = stat[t]
          /\ at'[t] = at[t] \/ (on[t] = NoMsg /\ at'[t] = "sched")
          /\ statPend'[t] = statPend[t] /\ dly'[t] = dly[t]
          /\ \A f \in Event : t \in wait'[f] <=> t \in wait[f]
    BY <1>1, <1>2, <1>5 DEF CoreTypeOK
  <2>. QED  BY <2>1, <2>2 DEF PendingSound, PendingOf, Event
<1>. QED  BY <1>5, <1>6, <1>7, <1>8

LEMMA Expire_Inv ==
  ASSUME CoreInv, NEW T \in SUBSET Task, NEW newDly \in [Task -> 0 .. MaxDelay],
         \A t \in T : dly[t] > 0 /\ newDly[t] = 0,
         \A t \in Task \ T : newDly[t] = 0 <=> dly[t] = 0,
         Expire(T, newDly),
         \/ UNCHANGED lock /\ at' = at /\ Switch
         \/ UNCHANGED <<cur, lock>> /\ Running
              /\ (at' = [at EXCEPT ![cur] = "sched"] \/ (at' = at /\ rdy' = rdy))
  PROVE  CoreInv'
<1>. USE DEF CoreInv
<1>1. /\ dly' = newDly
      /\ statPend' = [t \in Task |->
           IF t \notin T THEN statPend[t]
           ELSE IF stat[t] \cap PendBits # {} THEN "timeout" ELSE "ok"]
      /\ stat' = [t \in Task |-> IF t \in T THEN stat[t] \ PendBits ELSE stat[t]]
      /\ rdy' = rdy \cup {t \in T : "suspend" \notin stat[t]}
      /\ UNCHANGED <<tcbMsg, wait, on>>
  BY DEF Expire
<1>2. /\ HighestRuns'
      /\ cur' \in Task /\ lock' = lock /\ on' = on
      /\ at' \in [Task -> {"run", "sched", "block", "wake"}]
      /\ \A t \in Task : at'[t] = at[t] \/ (on[t] = NoMsg /\ at'[t] = "sched")
  <2>1. rdy' \subseteq Task /\ Idle \in rdy'
    BY <1>1 DEF CoreTypeOK
  <2>2. CASE at' = at /\ rdy' = rdy /\ UNCHANGED <<cur, lock>>
    BY <1>1, <2>2 DEF CoreTypeOK, HighestRuns
  <2>3. CASE Ending
    BY <2>1, <2>3, Ending_HighestRuns
  <2>. QED  BY <1>1, <2>2, <2>3 DEF Ending, ThenSched
<1>3. CoreTypeOK'
  BY <1>1, <1>2 DEF CoreTypeOK
<1>4. ReadyIffRunnable'
  <2>1. \A t \in T : /\ stat'[t] = {} <=> "suspend" \notin stat[t]
                     /\ dly'[t] = 0 /\ t \notin rdy
    BY <1>1 DEF PendBits, CoreTypeOK, ReadyIffRunnable
  <2>. QED  BY <1>1, <2>1 DEF ReadyIffRunnable
<1>5. PendingSound'
  <2>1. ASSUME NEW t \in T, on[t] \in Event
        PROVE  /\ at'[t] \in {"block", "wake"} /\ on[t] # NoMsg
               /\ stat'[t] \subseteq {"suspend"} /\ statPend'[t] = "timeout"
               /\ t \in wait[on[t]] /\ dly'[t] = 0
    <3>1. /\ Bit(on[t]) \in stat[t] /\ Bit(on[t]) \in PendBits
          /\ stat[t] \subseteq {Bit(on[t]), "suspend"} /\ t \in wait[on[t]]
          /\ at[t] \in {"block", "wake"} /\ on[t] # NoMsg
      BY <2>1 DEF PendingSound, PendingOf, Bit, PendBits, Event
    <3>. QED  BY <1>1, <1>2, <3>1 DEF PendBits
  <2>2. ASSUME NEW t \in T, on[t] = NoMsg
        PROVE  /\ at'[t] \in {"run", "sched"} /\ NoMsg \notin Event
               /\ stat'[t] \subseteq {"suspend"} /\ statPend'[t] = "ok"
    BY <1>1, <1>2, <2>2 DEF PendingSound, PendingOf, PendBits, Event
  <2>3. \A t \in Task \ T :
          /\ on'[t] = on[t] /\ stat'[t] = stat[t]
          /\ at'[t] = at[t] \/ (on[t] = NoMsg /\ at'[t] = "sched")
          /\ statPend'[t] = statPend[t] /\ (dly'[t] = 0 <=> dly[t] = 0)
    BY <1>1, <1>2
  <2>4. \A e \in Event : Bit(e) \in PendBits /\ Bit(e) # "suspend"
    BY DEF Bit, PendBits
  <2>5. ASSUME NEW t \in T  PROVE PendingOf(t)'
    <3>1. on[t] \in Event \cup {NoMsg} /\ UNCHANGED <<on, wait>>
      BY <1>1 DEF CoreTypeOK
    <3>2. CASE on[t] = NoMsg
      <4>1. \A e \in Event : on'[t] # e /\ t \notin wait'[e]
        BY <2>2, <3>1, <3>2 DEF PendingSound, PendingOf
      <4>. QED  BY <2>2, <3>1, <3>2, <4>1 DEF PendingOf
    <3>3. CASE on[t] \in Event
      <4>1. \A e \in Event : t \in wait'[e] <=> e = on'[t]
        BY <2>1, <3>1, <3>3 DEF PendingSound, PendingOf
      <4>2. Bit(on[t]) \notin stat'[t]
        BY <2>1, <2>4, <3>3
      <4>. QED  BY <2>1, <3>1, <3>3, <4>1, <4>2 DEF PendingOf
    <3>. QED  BY <3>1, <3>2, <3>3
  <2>6. \A t \in Task \ T : PendingOf(t)'
    BY <1>1, <2>3 DEF PendingSound, PendingOf
  <2>. QED  BY <2>5, <2>6 DEF PendingSound
<1>. QED  BY <1>2, <1>3, <1>4, <1>5

\* The first of the tasks that wait.
LEMMA FirstWaits ==
  ASSUME CoreInv, NEW e \in Event, wait[e] # {}
  PROVE  {Highest(wait[e])} \in SUBSET wait[e]
BY HighestTask DEF CoreInv, CoreTypeOK

LEMMA HandOver_Inv ==
  ASSUME CoreInv, NEW e \in Event, wait[e] # {}, NEW m \in Msg \cup {NoMsg},
         HandOverByISR(e, m) \/ (Running /\ HandOverByTask(e, m))
  PROVE  CoreInv'
<1>1. EventTaskRdy(e, {Highest(wait[e])}, m, "ok") /\ Ending
  BY DEF HandOverByISR, HandOverByTask, HandOver, Ending
<1>. QED  BY <1>1, FirstWaits, EventTaskRdy_Inv

LEMMA PendAbort_Inv ==
  ASSUME CoreInv, NEW e \in Event, NEW all \in BOOLEAN, PendAbort(e, all)
  PROVE  CoreInv'
<1>1. Ending /\ wait[e] # {}
  BY DEF PendAbort, Ending
<1>2. CASE EventTaskRdy(e, wait[e], NoMsg, "abort")
  BY <1>1, <1>2, EventTaskRdy_Inv
<1>3. CASE EventTaskRdy(e, {Highest(wait[e])}, NoMsg, "abort")
  BY <1>1, <1>3, FirstWaits, EventTaskRdy_Inv
<1>. QED  BY <1>2, <1>3 DEF PendAbort

LEMMA TimeDly_Inv ==
  ASSUME CoreInv, cur # Idle, NEW n \in 1 .. MaxDelay, OSTimeDly(n)
  PROVE  CoreInv'
<1>. USE DEF CoreInv
<1>1. /\ at[cur] = "run" /\ cur \in Task /\ on[cur] = NoMsg
      /\ rdy' = rdy \ {cur}
      /\ dly' = [dly EXCEPT ![cur] = n]
      /\ at' = [at EXCEPT ![cur] = "sched"]
      /\ UNCHANGED <<cur, lock, stat, statPend, tcbMsg, wait, on>>
  BY DEF OSTimeDly, Running, CoreTypeOK, PendingSound, PendingOf
<1>2. CoreTypeOK'
  BY <1>1 DEF CoreTypeOK
<1>3. ReadyIffRunnable'
  BY <1>1 DEF ReadyIffRunnable, CoreTypeOK
<1>4. HighestRuns'
  BY <1>1 DEF HighestRuns, CoreTypeOK
<1>5. PendingSound'
  <2>1. NoMsg \notin Event
    BY DEF Event
  <2>. QED  BY <1>1, <2>1 DEF PendingSound, PendingOf, CoreTypeOK
<1>. QED  BY <1>2, <1>3, <1>4, <1>5

LEMMA TimeTick_Inv ==
  ASSUME CoreInv, OSTimeTick
  PROVE  CoreInv'
<1>. DEFINE T == {t \in Task \ {Idle} : dly[t] = 1}
            newDly == [t \in Task |-> IF t # Idle /\ dly[t] > 0
                                      THEN dly[t] - 1 ELSE dly[t]]
<1>1. Expire(T, newDly) /\ UNCHANGED lock /\ at' = at /\ Switch
  BY DEF OSTimeTick
<1>2. dly \in [Task -> 0 .. MaxDelay] /\ dly[Idle] = 0 /\ Idle \in Task
  BY DEF CoreInv, CoreTypeOK, ReadyIffRunnable
<1>3. newDly \in [Task -> 0 .. MaxDelay]
  BY <1>2
<1>4. \A t \in T : dly[t] > 0 /\ newDly[t] = 0
  BY <1>2
<1>5. \A t \in Task \ T : newDly[t] = 0 <=> dly[t] = 0
  BY <1>2
<1>6. T \in SUBSET Task
  OBVIOUS
<1>. HIDE DEF T, newDly
<1>. QED  BY <1>1, <1>3, <1>4, <1>5, <1>6, Expire_Inv

LEMMA TimeDlyResume_Inv ==
  ASSUME CoreInv, NEW t \in Task, OSTimeDlyResume(t)
  PROVE  CoreInv'
<1>. DEFINE newDly == [dly EXCEPT ![t] = 0]
<1>1. /\ Running /\ dly[t] # 0 /\ Expire({t}, newDly)
      /\ at' = [at EXCEPT ![cur] = IF "suspend" \in stat[t] THEN "run" ELSE "sched"]
      /\ UNCHANGED <<cur, lock>>
  BY DEF OSTimeDlyResume
<1>2. dly \in [Task -> 0 .. MaxDelay] /\ cur \in Task /\ at[cur] = "run"
        /\ at \in [Task -> {"run", "sched", "block", "wake"}]
  BY <1>1 DEF CoreInv, CoreTypeOK, Running
<1>3. newDly \in [Task -> 0 .. MaxDelay]
  BY <1>2
<1>4. \A u \in {t} : dly[u] > 0 /\ newDly[u] = 0
  BY <1>1, <1>2
<1>5. \A u \in Task \ {t} : newDly[u] = 0 <=> dly[u] = 0
  BY <1>2
<1>6. at' = [at EXCEPT ![cur] = "sched"] \/ (at' = at /\ rdy' = rdy)
  <2>1. CASE "suspend" \in stat[t]
    <3>1. at' = [at EXCEPT ![cur] = "run"]
      BY <1>1, <2>1
    <3>2. at' = at
      BY <1>2, <3>1
    <3>3. rdy' = rdy \cup {u \in {t} : "suspend" \notin stat[u]}
      BY <1>1 DEF Expire
    <3>. QED  BY <2>1, <3>2, <3>3
  <2>2. CASE "suspend" \notin stat[t]
    BY <1>1, <2>2
  <2>. QED  BY <2>1, <2>2
<1>. HIDE DEF newDly
<1>. QED  BY <1>1, <1>3, <1>4, <1>5, <1>6, Expire_Inv

LEMMA Suspend_Inv ==
  ASSUME CoreInv, NEW t \in Task, OSTaskSuspend(t)
  PROVE  CoreInv'
<1>. USE DEF CoreInv
<1>1. /\ at[cur] = "run" /\ cur \in Task /\ t # Idle
      /\ rdy' = rdy \ {t}
      /\ stat' = [stat EXCEPT ![t] = @ \cup {"suspend"}]
      /\ at' = [at EXCEPT ![cur] = IF t = cur THEN "sched" ELSE "run"]
      /\ UNCHANGED <<cur, lock, statPend, dly, tcbMsg, wait, on>>
  BY DEF OSTaskSuspend, Running, CoreTypeOK
<1>2. CoreTypeOK'
  BY <1>1 DEF CoreTypeOK
<1>3. ReadyIffRunnable'
  BY <1>1 DEF ReadyIffRunnable, CoreTypeOK
<1>4. HighestRuns'
  <2>1. CASE t = cur
    BY <1>1, <2>1 DEF HighestRuns, CoreTypeOK
  <2>2. CASE lock # 0
    BY <1>1, <2>2 DEF HighestRuns, CoreTypeOK
  <2>3. CASE t # cur /\ lock = 0
    <3>1. cur = Highest(rdy) /\ cur \in rdy
      BY <1>1, <2>3, CurrentReady DEF HighestRuns
    <3>2. Highest(rdy \ {t}) = Highest(rdy)
      BY <2>3, <3>1, HighestStays DEF CoreTypeOK
    <3>. QED  BY <1>1, <2>3, <3>1, <3>2 DEF HighestRuns, CoreTypeOK
  <2>. QED  BY <2>1, <2>2, <2>3
<1>5. PendingSound'
  <2>1. \A e \in Event : Bit(e) # "suspend" /\ NoMsg \notin Event
    BY DEF Bit, Event
  <2>2. /\ cur \in Task /\ on[cur] = NoMsg
        /\ \A u \in Task : at'[u] = at[u] \/ (on[u] = NoMsg /\ at'[u] = "sched")
        /\ \A u \in Task : stat[u] \subseteq stat'[u]
                           /\ stat'[u] \subseteq stat[u] \cup {"suspend"}
    BY <1>1, <2>1 DEF PendingSound, PendingOf, CoreTypeOK
  <2>3. ASSUME NEW u \in Task  PROVE PendingOf(u)'
    <3>1. /\ PendingOf(u) /\ on'[u] = on[u] /\ statPend'[u] = statPend[u]
          /\ dly'[u] = dly[u] /\ wait' = wait
          /\ \A e \in Event : Bit(e) \in stat'[u] <=> Bit(e) \in stat[u]
      BY <1>1, <2>1, <2>2 DEF PendingSound
    <3>. QED  BY <2>1, <2>2, <3>1 DEF PendingOf
  <2>. QED  BY <2>3 DEF PendingSound
<1>. QED  BY <1>2, <1>3, <1>4, <1>5

LEMMA Resume_Inv ==
  ASSUME CoreInv, NEW t \in Task, OSTaskResume(t)
  PROVE  CoreInv'
<1>. USE DEF CoreInv
<1>. DEFINE ready == stat[t] = {"suspend"} /\ dly[t] = 0
<1>1. /\ at[cur] = "run" /\ cur \in Task /\ "suspend" \in stat[t]
      /\ stat' = [stat EXCEPT ![t] = @ \ {"suspend"}]
      /\ rdy' = IF ready THEN rdy \cup {t} ELSE rdy
      /\ at' = [at EXCEPT ![cur] = IF ready THEN "sched" ELSE "run"]
      /\ UNCHANGED <<cur, lock, statPend, dly, tcbMsg, wait, on>>
  BY DEF OSTaskResume, Running, CoreTypeOK
<1>2. CoreTypeOK'
  BY <1>1 DEF CoreTypeOK
<1>3. ReadyIffRunnable'
  BY <1>1 DEF ReadyIffRunnable, CoreTypeOK
<1>4. HighestRuns'
  BY <1>1 DEF HighestRuns, CoreTypeOK
<1>5. PendingSound'
  <2>1. \A e \in Event : Bit(e) # "suspend" /\ NoMsg \notin Event
    BY DEF Bit, Event
  <2>2. /\ cur \in Task /\ on[cur] = NoMsg
        /\ \A u \in Task : at'[u] = at[u] \/ (on[u] = NoMsg /\ at'[u] = "sched")
        /\ \A u \in Task : stat'[u] \subseteq stat[u]
                           /\ stat[u] \subseteq stat'[u] \cup {"suspend"}
    BY <1>1, <2>1 DEF PendingSound, PendingOf, CoreTypeOK
  <2>3. ASSUME NEW u \in Task  PROVE PendingOf(u)'
    <3>1. /\ PendingOf(u) /\ on'[u] = on[u] /\ statPend'[u] = statPend[u]
          /\ dly'[u] = dly[u] /\ wait' = wait
          /\ \A e \in Event : Bit(e) \in stat'[u] <=> Bit(e) \in stat[u]
      BY <1>1, <2>1, <2>2 DEF PendingSound
    <3>. QED  BY <2>1, <2>2, <3>1 DEF PendingOf
  <2>. QED  BY <2>3 DEF PendingSound
<1>. QED  BY <1>2, <1>3, <1>4, <1>5

LEMMA TaskService_Inv ==
  ASSUME CoreInv, TaskService
  PROVE  CoreInv'
BY Lock_Inv, TimeDly_Inv, TimeDlyResume_Inv, Suspend_Inv, Resume_Inv,
   PendAbort_Inv DEF TaskService

-----------------------------------------------------------------------------
(* The tasks that have been handed a count                                 *)

IsGranted(t, s) == on[t] = s /\ t \notin wait[s] /\ statPend[t] = "ok"

LEMMA GrantedFinite ==
  ASSUME NEW s \in Sem
  PROVE  IsFiniteSet(Granted(s))
<1>1. IsFiniteSet(Task)
  BY FS_Interval DEF Task
<1>2. Granted(s) \subseteq Task
  BY DEF Granted
<1>. QED  BY <1>1, <1>2, FS_Subset

LEMMA SameGranted ==
  ASSUME NEW s \in Sem, \A t \in Task : IsGranted(t, s)' <=> IsGranted(t, s)
  PROVE  Granted(s)' = Granted(s)
BY DEF Granted, IsGranted

\* A task whose delay runs is not granted, and its timeout leaves it listed.
LEMMA ExpireGranted ==
  ASSUME CoreInv, NEW s \in Sem, NEW T \in SUBSET Task, NEW newDly,
         \A t \in T : dly[t] > 0, Expire(T, newDly)
  PROVE  Granted(s)' = Granted(s)
<1>1. /\ on' = on /\ wait' = wait
      /\ \A t \in Task \ T : statPend'[t] = statPend[t]
  BY DEF Expire
<1>2. ASSUME NEW t \in T, on[t] = s  PROVE t \in wait[s]
  <2>1. dly[t] # 0 /\ s \in Event
    BY <1>2 DEF Event
  <2>. QED  BY <1>2, <2>1 DEF CoreInv, PendingSound, PendingOf
<1>3. \A t \in Task : IsGranted(t, s)' <=> IsGranted(t, s)
  BY <1>1, <1>2 DEF IsGranted
<1>. QED  BY <1>3, SameGranted

LEMMA AbortGranted ==
  ASSUME CoreInv, NEW s \in Sem, NEW e \in Event, NEW W \in SUBSET wait[e],
         NEW m, NEW why, e # s \/ why # "ok", on' = on, EventTaskRdy(e, W, m, why)
  PROVE  Granted(s)' = Granted(s)
<1>1. /\ s \in Event /\ W \in SUBSET Task
      /\ \A t \in Task \ W : statPend'[t] = statPend[t] /\ (t \in wait'[s] <=> t \in wait[s])
      /\ \A t \in W : statPend'[t] = why
  BY DEF EventTaskRdy, CoreInv, CoreTypeOK, Event
<1>2. \A t \in W : on[t] = e
  BY <1>1 DEF CoreInv, PendingSound, PendingOf
<1>3. \A t \in Task : IsGranted(t, s)' <=> IsGranted(t, s)
  BY <1>1, <1>2 DEF IsGranted
<1>. QED  BY <1>3, SameGranted

LEMMA TaskServiceGranted ==
  ASSUME CoreInv, NEW s \in Sem, OS_Sched \/ OSTimeTick \/ TaskService
  PROVE  Granted(s)' = Granted(s)
<1>1. CASE UNCHANGED <<on, wait, statPend>>
  BY <1>1 DEF Granted
<1>2. CASE OSTimeTick
  <2>. DEFINE T == {t \in Task \ {Idle} : dly[t] = 1}
              newDly == [t \in Task |-> IF t # Idle /\ dly[t] > 0
                                        THEN dly[t] - 1 ELSE dly[t]]
  <2>1. Expire(T, newDly)
    BY <1>2 DEF OSTimeTick
  <2>2. T \in SUBSET Task /\ \A t \in T : dly[t] > 0
    BY DEF CoreInv, CoreTypeOK
  <2>. HIDE DEF T, newDly
  <2>. QED  BY <2>1, <2>2, ExpireGranted
<1>3. CASE \E t \in Task \ {Idle} : OSTimeDlyResume(t)
  <2>1. PICK t \in Task : OSTimeDlyResume(t)
    BY <1>3
  <2>2. \A u \in {t} : dly[u] > 0
    BY <2>1 DEF OSTimeDlyResume, CoreInv, CoreTypeOK
  <2>3. Expire({t}, [dly EXCEPT ![t] = 0])
    BY <2>1 DEF OSTimeDlyResume
  <2>. QED  BY <2>2, <2>3, ExpireGranted
<1>4. CASE \E e \in Event, all \in BOOLEAN : PendAbort(e, all)
  <2>1. PICK e \in Event, all \in BOOLEAN : PendAbort(e, all)
    BY <1>4
  <2>2. wait[e] # {} /\ on' = on
    BY <2>1 DEF PendAbort, ThenSched
  <2>3. PICK W \in SUBSET wait[e] : EventTaskRdy(e, W, NoMsg, "abort")
    <3>1. CASE EventTaskRdy(e, wait[e], NoMsg, "abort")
      BY <3>1
    <3>2. CASE EventTaskRdy(e, {Highest(wait[e])}, NoMsg, "abort")
      BY <2>2, <3>2, FirstWaits
    <3>. QED  BY <2>1, <3>1, <3>2 DEF PendAbort
  <2>. QED  BY <2>2, <2>3, AbortGranted
<1>5. OS_Sched => UNCHANGED <<on, wait, statPend>>
  BY DEF OS_Sched, tcbs
<1>6. OSSchedLock \/ OSSchedUnlock \/ (\E n \in 1 .. MaxDelay : OSTimeDly(n))
        => UNCHANGED <<on, wait, statPend>>
  BY DEF OSSchedLock, OSSchedUnlock, OSTimeDly, tcbs
<1>7. (\E t \in Task \ {Idle} : OSTaskSuspend(t) \/ OSTaskResume(t))
        => UNCHANGED <<on, wait, statPend>>
  BY DEF OSTaskSuspend, OSTaskResume
<1>. QED  BY <1>1, <1>2, <1>3, <1>4, <1>5, <1>6, <1>7 DEF TaskService

LEMMA BlockGranted ==
  ASSUME CoreInv, NEW s \in Sem, NEW e \in Event, NEW timeout, Running,
         Block(e, timeout)
  PROVE  Granted(s)' = Granted(s)
<1>1. s \in Event /\ cur \in Task /\ on[cur] = NoMsg /\ NoMsg # s
  BY DEF Running, CoreInv, CoreTypeOK, PendingSound, PendingOf, Event
<1>2. \A t \in Task \ {cur} :
        /\ on'[t] = on[t] /\ statPend'[t] = statPend[t]
        /\ t \in wait'[s] <=> t \in wait[s]
  BY <1>1 DEF Block, CoreInv, CoreTypeOK
<1>3. on'[cur] = e /\ cur \in wait'[e]
  BY <1>1 DEF Block, CoreInv, CoreTypeOK
<1>4. \A t \in Task : IsGranted(t, s)' <=> IsGranted(t, s)
  BY <1>1, <1>2, <1>3 DEF IsGranted
<1>. QED  BY <1>4, SameGranted

\* A post hands a count to one task more.
LEMMA HandOverGranted ==
  ASSUME CoreInv, NEW s \in Sem, wait[s] # {}, NEW m, on' = on, HandOver(s, m)
  PROVE  Cardinality(Granted(s)') = Cardinality(Granted(s)) + 1
<1>. DEFINE h == Highest(wait[s])
<1>1. /\ s \in Event /\ h \in wait[s] /\ h \in Task
  BY FirstWaits DEF Event, CoreInv, CoreTypeOK
<1>2. on[h] = s
  BY <1>1 DEF CoreInv, PendingSound, PendingOf
<1>3. \A t \in Task \ {h} :
        statPend'[t] = statPend[t] /\ (t \in wait'[s] <=> t \in wait[s])
  BY <1>1 DEF HandOver, EventTaskRdy, CoreInv, CoreTypeOK
<1>4. statPend'[h] = "ok" /\ h \notin wait'[s]
  BY <1>1 DEF HandOver, EventTaskRdy, CoreInv, CoreTypeOK
<1>5. Granted(s)' = Granted(s) \cup {h} /\ h \notin Granted(s)
  BY <1>1, <1>2, <1>3, <1>4 DEF Granted
<1>. QED  BY <1>5, GrantedFinite, FS_AddElement

\* A task that comes back from its pend with a count was granted it.
LEMMA WakeGranted ==
  ASSUME CoreInv, NEW s \in Sem, Wake
  PROVE  IF s = on[cur] /\ statPend[cur] = "ok"
         THEN Cardinality(Granted(s)') = Cardinality(Granted(s)) - 1
         ELSE Granted(s)' = Granted(s)
<1>1. /\ cur \in Task /\ stat[cur] = {} /\ s \in Event /\ NoMsg # s
      /\ on'[cur] = NoMsg
  <2>1. lock = 0 /\ at[cur] = "wake"
    BY DEF Wake, CoreInv, CoreTypeOK, HighestRuns
  <2>. QED  BY <2>1, CurrentReady DEF Wake, CoreInv, CoreTypeOK, Event
<1>2. \A t \in Task \ {cur} :
        /\ on'[t] = on[t] /\ statPend'[t] = statPend[t]
        /\ t \in wait'[s] <=> t \in wait[s]
  BY <1>1 DEF Wake, CoreInv, CoreTypeOK
<1>3. cur \notin Granted(s)'
  BY <1>1 DEF Granted
<1>4. CASE s = on[cur] /\ statPend[cur] = "ok"
  <2>1. cur \in Granted(s)
    BY <1>1, <1>4 DEF CoreInv, PendingSound, PendingOf, Granted
  <2>2. Granted(s)' = Granted(s) \ {cur}
    BY <1>2, <1>3 DEF Granted
  <2>. QED  BY <1>4, <2>1, <2>2, GrantedFinite, FS_RemoveElement
<1>5. CASE ~ (s = on[cur] /\ statPend[cur] = "ok")
  BY <1>2, <1>3, <1>5 DEF Granted
<1>. QED  BY <1>4, <1>5

\* NoPostLost in terms of one semaphore.
LEMMA BalanceKept ==
  ASSUME NEW s \in Sem, balance[s] = cnt[s] + Cardinality(Granted(s)),
         Granted(s)' = Granted(s), balance'[s] - cnt'[s] = balance[s] - cnt[s],
         balance[s] \in Int, balance'[s] \in Int, cnt[s] \in Nat, cnt'[s] \in Nat
  PROVE  balance'[s] = cnt'[s] + Cardinality(Granted(s)')
<1>1. Cardinality(Granted(s)) \in Nat
  BY GrantedFinite, FS_CardinalityType
<1>. QED  BY <1>1

=============================================================================
