-------------------------------- MODULE Ucos --------------------------------
(***************************************************************************)
(* The MicroC/OS-II kernel the application runs on (server1_bsp/UCOSII):   *)
(* tasks, the scheduler, time and the wait lists of events (os_core.c,     *)
(* os_time.c, os_task.c).  Semaphores and queues are in UcosSem and UcosQ. *)
(*                                                                         *)
(* A task is its priority, 1 the highest; the lowest is the idle task.  An *)
(* action is a critical section of the kernel.  A service that readies or  *)
(* blocks a task leaves its critical section before it calls OS_Sched, so  *)
(* interrupts may come in between; they do not nest, and one is a single   *)
(* step that ends with OSIntExit's rescheduling.                           *)
(***************************************************************************)
EXTENDS Integers, FiniteSets

CONSTANTS
  Idle,         \* OS_TASK_IDLE_PRIO: the tasks are 1 .. Idle
  Sem, Queue,   \* event control blocks
  Msg,          \* messages of the queues
  NoMsg,        \* the null message
  MaxDelay,     \* bound on the timeouts and delays asked for, 65535
  MaxLock       \* 255, the deepest nesting of OSSchedLock

Event == Sem \cup Queue
Task == 1 .. Idle

ASSUME KernelAssumption ==
  /\ Idle \in Nat \ {0}
  /\ MaxDelay \in Nat /\ MaxLock \in Nat \ {0}
  /\ Sem \cap Queue = {}
  /\ NoMsg \notin Event \cup Msg

VARIABLES
  rdy,        \* OSRdyTbl
  cur,        \* OSPrioCur
  lock,       \* OSLockNesting
  stat,       \* OSTCBStat: why the task is not ready
  statPend,   \* OSTCBStatPend
  dly,        \* OSTCBDly
  tcbMsg,     \* OSTCBMsg
  wait,       \* OSEventTbl
  at,         \* what the task has to do next inside the kernel
  on          \* OSTCBEventPtr

tcbs == <<stat, statPend, dly, tcbMsg>>
core == <<rdy, cur, lock, tcbs, wait, at, on>>

Bit(e) == IF e \in Sem THEN "sem" ELSE "q"
PendBits == {"sem", "q"}

CoreTypeOK ==
  /\ rdy \subseteq Task /\ Idle \in rdy
  /\ cur \in Task
  /\ lock \in 0 .. MaxLock
  /\ stat \in [Task -> SUBSET {"sem", "q", "suspend"}]
  /\ statPend \in [Task -> {"ok", "timeout", "abort"}]
  /\ dly \in [Task -> 0 .. MaxDelay]
  /\ tcbMsg \in [Task -> Msg \cup {NoMsg}]
  /\ wait \in [Event -> SUBSET Task]
  \* its own code; OS_Sched and its own code; OS_Sched and the rest of a
  \* pend; the rest of a pend
  /\ at \in [Task -> {"run", "sched", "block", "wake"}]
  /\ on \in [Task -> Event \cup {NoMsg}]

CoreInit ==
  /\ rdy = Task /\ cur = 1 /\ lock = 0
  /\ stat = [t \in Task |-> {}]
  /\ statPend = [t \in Task |-> "ok"]
  /\ dly = [t \in Task |-> 0]
  /\ tcbMsg = [t \in Task |-> NoMsg]
  /\ wait = [e \in Event |-> {}]
  /\ at = [t \in Task |-> "run"]
  /\ on = [t \in Task |-> NoMsg]

Running == at[cur] = "run"

-----------------------------------------------------------------------------
(* The scheduler                                                           *)

\* OS_SchedNew: the lowest bit of the ready table.
Highest(S) == CHOOSE t \in S : \A u \in S : t <= u

\* OS_Sched and OSIntExit.
Switch == cur' = IF lock' = 0 THEN Highest(rdy') ELSE cur

\* The call of OS_Sched that ends a service or stands inside a pend.
OS_Sched ==
  /\ at[cur] \in {"sched", "block"}
  /\ at' = [at EXCEPT ![cur] = IF @ = "block" THEN "wake" ELSE "run"]
  /\ UNCHANGED <<rdy, lock, tcbs, wait, on>>
  /\ Switch

OSSchedLock ==
  /\ Running
  /\ lock' = IF lock < MaxLock THEN lock + 1 ELSE lock
  /\ UNCHANGED <<rdy, cur, tcbs, wait, at, on>>

\* The mutant leaves it to the next interrupt to reschedule.
UnlockOnly ==
  /\ Running
  /\ lock' = IF lock > 0 THEN lock - 1 ELSE 0
  /\ UNCHANGED <<rdy, cur, tcbs, wait, at, on>>
OSSchedUnlock ==
  /\ Running
  /\ lock' = IF lock > 0 THEN lock - 1 ELSE 0
  /\ at' = [at EXCEPT ![cur] = IF lock = 1 THEN "sched" ELSE "run"]
  /\ UNCHANGED <<rdy, cur, tcbs, wait, on>>

-----------------------------------------------------------------------------
(* Waiting for events                                                      *)

\* OS_EventTaskRdy for the tasks W that wait for e.  The mutant lets a
\* timeout that has already been noted stand.
ReadyKeepingTimeout(e, W, m, why) ==
  /\ dly' = [t \in Task |-> IF t \in W THEN 0 ELSE dly[t]]
  /\ tcbMsg' = [t \in Task |-> IF t \in W THEN m ELSE tcbMsg[t]]
  /\ stat' = [t \in Task |-> IF t \in W THEN stat[t] \ {Bit(e)} ELSE stat[t]]
  /\ statPend' = [t \in Task |-> IF t \in W /\ statPend[t] # "timeout" THEN why
                                                                 ELSE statPend[t]]
  /\ rdy' = rdy \cup {t \in W : "suspend" \notin stat[t]}
  /\ wait' = [wait EXCEPT ![e] = @ \ W]
EventTaskRdy(e, W, m, why) ==
  /\ dly' = [t \in Task |-> IF t \in W THEN 0 ELSE dly[t]]
  /\ tcbMsg' = [t \in Task |-> IF t \in W THEN m ELSE tcbMsg[t]]
  /\ stat' = [t \in Task |-> IF t \in W THEN stat[t] \ {Bit(e)} ELSE stat[t]]
  /\ statPend' = [t \in Task |-> IF t \in W THEN why ELSE statPend[t]]
  /\ rdy' = rdy \cup {t \in W : "suspend" \notin stat[t]}
  /\ wait' = [wait EXCEPT ![e] = @ \ W]

\* The end of a service of the current task that readied others.
ThenSched ==
  /\ at' = [at EXCEPT ![cur] = "sched"]
  /\ UNCHANGED <<cur, lock, on>>

\* Posting to the first of the waiting tasks, from a task and from an
\* interrupt.
HandOver(e, m) == EventTaskRdy(e, {Highest(wait[e])}, m, "ok")
HandOverByTask(e, m) == HandOver(e, m) /\ ThenSched
HandOverByISR(e, m) == HandOver(e, m) /\ UNCHANGED <<lock, at, on>> /\ Switch

\* The part of a pend that blocks the current task (OS_EventTaskWait).
Block(e, timeout) ==
  /\ stat' = [stat EXCEPT ![cur] = @ \cup {Bit(e)}]
  /\ statPend' = [statPend EXCEPT ![cur] = "ok"]
  /\ dly' = [dly EXCEPT ![cur] = timeout]
  /\ wait' = [wait EXCEPT ![e] = @ \cup {cur}]
  /\ rdy' = rdy \ {cur}
  /\ at' = [at EXCEPT ![cur] = "block"]
  /\ on' = [on EXCEPT ![cur] = e]
  /\ UNCHANGED <<cur, lock, tcbMsg>>

\* The part after OS_Sched, when the task runs again.
Wake ==
  /\ at[cur] = "wake"
  /\ wait' = [e \in Event |-> IF e = on[cur] /\ statPend[cur] = "timeout"
                              THEN wait[e] \ {cur} ELSE wait[e]]
  /\ stat' = [stat EXCEPT ![cur] = {}]
  /\ statPend' = [statPend EXCEPT ![cur] = "ok"]
  /\ tcbMsg' = [tcbMsg EXCEPT ![cur] = IF on[cur] \in Queue THEN NoMsg ELSE @]
  /\ at' = [at EXCEPT ![cur] = "run"]
  /\ on' = [on EXCEPT ![cur] = NoMsg]
  /\ UNCHANGED <<rdy, cur, lock, dly>>

\* OSSemPendAbort and OSQPendAbort, for one waiting task or for all.
PendAbort(e, all) ==
  /\ Running
  /\ wait[e] # {}
  /\ EventTaskRdy(e, IF all THEN wait[e] ELSE {Highest(wait[e])}, NoMsg, "abort")
  /\ ThenSched

-----------------------------------------------------------------------------
(* Time                                                                    *)

\* OSTimeDly.  It does not ask whether the scheduler is locked: a task that
\* locked it goes on running, not ready, until it unlocks it.
OSTimeDly(ticks) ==
  /\ Running
  /\ rdy' = rdy \ {cur}
  /\ dly' = [dly EXCEPT ![cur] = ticks]
  /\ at' = [at EXCEPT ![cur] = "sched"]
  /\ UNCHANGED <<cur, lock, stat, statPend, tcbMsg, wait, on>>

\* The delay or timeout of the tasks T has run out.
Expire(T, newDly) ==
  /\ dly' = newDly
  /\ statPend' = [t \in Task |->
       IF t \notin T THEN statPend[t]
       ELSE IF stat[t] \cap PendBits # {} THEN "timeout" ELSE "ok"]
  /\ stat' = [t \in Task |-> IF t \in T THEN stat[t] \ PendBits ELSE stat[t]]
  /\ rdy' = rdy \cup {t \in T : "suspend" \notin stat[t]}
  /\ UNCHANGED <<tcbMsg, wait, on>>

\* OSTimeTick: the interrupt of the system clock.  The mutant counts only
\* the tasks that are not suspended.
TickSkipsSuspended ==
  LET T == {t \in Task \ {Idle} : dly[t] = 1 /\ "suspend" \notin stat[t]}
  IN  /\ Expire(T, [t \in Task |-> IF t # Idle /\ dly[t] > 0
                                      /\ "suspend" \notin stat[t]
                                   THEN dly[t] - 1 ELSE dly[t]])
      /\ UNCHANGED <<lock, at>>
      /\ Switch
OSTimeTick ==
  LET T == {t \in Task \ {Idle} : dly[t] = 1}
  IN  /\ Expire(T, [t \in Task |-> IF t # Idle /\ dly[t] > 0
                                   THEN dly[t] - 1 ELSE dly[t]])
      /\ UNCHANGED <<lock, at>>
      /\ Switch

OSTimeDlyResume(t) ==
  /\ Running
  /\ dly[t] # 0
  /\ Expire({t}, [dly EXCEPT ![t] = 0])
  /\ at' = [at EXCEPT ![cur] = IF "suspend" \in stat[t] THEN "run" ELSE "sched"]
  /\ UNCHANGED <<cur, lock>>

-----------------------------------------------------------------------------
(* Suspension                                                              *)

OSTaskSuspend(t) ==
  /\ Running
  /\ t # Idle
  /\ rdy' = rdy \ {t}
  /\ stat' = [stat EXCEPT ![t] = @ \cup {"suspend"}]
  /\ at' = [at EXCEPT ![cur] = IF t = cur THEN "sched" ELSE "run"]
  /\ UNCHANGED <<cur, lock, statPend, dly, tcbMsg, wait, on>>

\* The mutant does not look at the delay.
ResumeAnyway(t) ==
  /\ Running
  /\ "suspend" \in stat[t]
  /\ stat' = [stat EXCEPT ![t] = @ \ {"suspend"}]
  /\ rdy' = IF stat[t] = {"suspend"} THEN rdy \cup {t} ELSE rdy
  /\ at' = [at EXCEPT ![cur] = IF stat[t] = {"suspend"} THEN "sched" ELSE "run"]
  /\ UNCHANGED <<cur, lock, statPend, dly, tcbMsg, wait, on>>
OSTaskResume(t) ==
  LET ready == stat[t] = {"suspend"} /\ dly[t] = 0
  IN  /\ Running
      /\ "suspend" \in stat[t]
      /\ stat' = [stat EXCEPT ![t] = @ \ {"suspend"}]
      /\ rdy' = IF ready THEN rdy \cup {t} ELSE rdy
      /\ at' = [at EXCEPT ![cur] = IF ready THEN "sched" ELSE "run"]
      /\ UNCHANGED <<cur, lock, statPend, dly, tcbMsg, wait, on>>

-----------------------------------------------------------------------------
\* The services above, called by a task other than the idle task.
TaskService ==
  /\ cur # Idle
  /\ \/ OSSchedLock \/ OSSchedUnlock
     \/ \E n \in 1 .. MaxDelay : OSTimeDly(n)
     \/ \E t \in Task \ {Idle} :
          OSTimeDlyResume(t) \/ OSTaskSuspend(t) \/ OSTaskResume(t)
     \/ \E e \in Event, all \in BOOLEAN : PendAbort(e, all)

-----------------------------------------------------------------------------
\* A task is in the ready table exactly when nothing holds it: no event it
\* waits for, no suspension, no delay.  The services take the three away in
\* any order (os_core.c:902, 1027, os_task.c:815), and the table is all the
\* scheduler looks at.
ReadyIffRunnable == \A t \in Task : t \in rdy <=> stat[t] = {} /\ dly[t] = 0

\* A task in the middle of its own code is the highest that is ready, unless
\* the scheduler is locked; and a task whose pend is not over has not locked
\* it (os_core.c:1610, os_sem.c:307).
HighestRuns ==
  /\ lock = 0 /\ at[cur] \in {"run", "wake"} => cur = Highest(rdy)
  /\ lock > 0 => at[cur] \in {"run", "sched"}

\* Who is in a wait list: tasks inside the pend for that event, those whose
\* timeout has run out until they run again (os_core.c:902, os_sem.c:336).
WaitListSound ==
  \A e \in Event : wait[e] =
    {t \in Task : /\ on[t] = e
                  /\ at[t] \in {"block", "wake"}
                  /\ Bit(e) \in stat[t] \/ statPend[t] = "timeout"}

=============================================================================
