-------------------------------- MODULE UcosQ --------------------------------
(***************************************************************************)
(* The message queues of MicroC/OS-II (os_q.c), rings of QSize messages,   *)
(* and the whole kernel: tasks and interrupts that call its services in    *)
(* any order.                                                              *)
(***************************************************************************)
EXTENDS UcosSem, Sequences

CONSTANT QSize  \* OSQSize, 30 for the application's queue

ASSUME QueueAssumption == QSize \in Nat \ {0}

VARIABLES
  buf,          \* the ring from OSQStart to OSQEnd
  qin,          \* OSQIn, from OSQStart
  qout,         \* OSQOut, from OSQStart
  entries,      \* OSQEntries
  owed          \* history: how often a queue has accepted a message, less
                \* how often a pend or an accept returned it or a flush
                \* dropped it

ring == <<buf, qin, qout, entries>>
vars == <<core, sems, ring, owed>>

Slot == 0 .. QSize - 1

TypeOK ==
  /\ CoreTypeOK
  /\ SemTypeOK
  /\ buf \in [Queue -> [Slot -> Msg \cup {NoMsg}]]
  /\ qin \in [Queue -> Slot] /\ qout \in [Queue -> Slot]
  /\ entries \in [Queue -> 0 .. QSize]
  /\ owed \in [Queue -> [Msg -> Int]]

\* OSQCreate.
QInit ==
  /\ buf = [e \in Queue |-> [i \in Slot |-> NoMsg]]
  /\ qin = [e \in Queue |-> 0] /\ qout = [e \in Queue |-> 0]
  /\ entries = [e \in Queue |-> 0]
  /\ owed = [e \in Queue |-> [m \in Msg |-> 0]]

Init == CoreInit /\ SemInit /\ QInit

-----------------------------------------------------------------------------
(* The ring                                                                *)

\* The place after i and the place before it.
After(i) == IF i + 1 = QSize THEN 0 ELSE i + 1
Before(i) == (IF i = 0 THEN QSize ELSE i) - 1

\* The messages of a queue, oldest first.
At(e, i) == IF qout[e] + i - 1 < QSize THEN qout[e] + i - 1
                                       ELSE qout[e] + i - 1 - QSize
Contents == [e \in Queue |-> [i \in 1 .. entries[e] |-> buf[e][At(e, i)]]]
Occurrences(s, m) == Cardinality({i \in DOMAIN s : s[i] = m})

\* Queue e has taken on message m n times more.
Owe(e, m, n) == owed' = [owed EXCEPT ![e][m] = @ + n]

\* OSQAccept with a message, and the first part of OSQPend.
Extract(e) ==
  /\ entries[e] > 0
  /\ qout' = [qout EXCEPT ![e] = After(@)]
  /\ entries' = [entries EXCEPT ![e] = @ - 1]
  /\ Owe(e, buf[e][qout[e]], -1)
  /\ UNCHANGED <<buf, qin, core, sems>>

\* The parts of OSQPost and OSQPostFront for a queue nobody waits for; a
\* full queue refuses the message.
Insert(e, m) ==
  /\ wait[e] = {}
  /\ entries[e] < QSize
  /\ buf' = [buf EXCEPT ![e][qin[e]] = m]
  /\ qin' = [qin EXCEPT ![e] = After(@)]
  /\ entries' = [entries EXCEPT ![e] = @ + 1]
  /\ Owe(e, m, 1)
  /\ UNCHANGED <<qout, core, sems>>

\* The mutant stores the message where OSQOut points and moves it then.
InsertThenStep(e, m) ==
  /\ wait[e] = {}
  /\ entries[e] < QSize
  /\ buf' = [buf EXCEPT ![e][qout[e]] = m]
  /\ qout' = [qout EXCEPT ![e] = Before(@)]
  /\ entries' = [entries EXCEPT ![e] = @ + 1]
  /\ Owe(e, m, 1)
  /\ UNCHANGED <<qin, core, sems>>
InsertFront(e, m) ==
  /\ wait[e] = {}
  /\ entries[e] < QSize
  /\ buf' = [buf EXCEPT ![e][Before(qout[e])] = m]
  /\ qout' = [qout EXCEPT ![e] = Before(@)]
  /\ entries' = [entries EXCEPT ![e] = @ + 1]
  /\ Owe(e, m, 1)
  /\ UNCHANGED <<qin, core, sems>>

-----------------------------------------------------------------------------
(* The services                                                            *)

OSQAccept(e) == Running /\ Extract(e)

\* OSQPend; it is refused while the scheduler is locked.
OSQPend(e, timeout) ==
  /\ Running
  /\ lock = 0
  /\ \/ Extract(e)
     \/ entries[e] = 0 /\ Block(e, timeout) /\ UNCHANGED <<sems, ring, owed>>

\* OSQPost, OSQPostFront and OSQPostOpt, which has both as options.
OSQPost(e, m) ==
  /\ Running
  /\ \/ Insert(e, m) \/ InsertFront(e, m)
     \/ wait[e] # {} /\ HandOverByTask(e, m) /\ Owe(e, m, 1) /\ UNCHANGED <<sems, ring>>

\* The same from an interrupt service routine, and OSIntExit.
OSQPostISR(e, m) ==
  \/ Insert(e, m) \/ InsertFront(e, m)
  \/ wait[e] # {} /\ HandOverByISR(e, m) /\ Owe(e, m, 1) /\ UNCHANGED <<sems, ring>>

\* OSQPostOpt to all tasks that wait.
Broadcast(e, m) ==
  /\ Running
  /\ wait[e] # {}
  /\ EventTaskRdy(e, wait[e], m, "ok")
  /\ ThenSched
  /\ Owe(e, m, Cardinality(wait[e]))
  /\ UNCHANGED <<sems, ring>>

OSQFlush(e) ==
  /\ Running
  /\ qin' = [qin EXCEPT ![e] = 0] /\ qout' = [qout EXCEPT ![e] = 0]
  /\ entries' = [entries EXCEPT ![e] = 0]
  /\ owed' = [owed EXCEPT ![e] = [m \in Msg |-> @[m] - Occurrences(Contents[e], m)]]
  /\ UNCHANGED <<buf, core, sems>>

\* The end of OSQPend or of OSSemPend; a pend on a queue that was not given up
\* returns the message in the control block.
QWake ==
  /\ SemWake
  /\ IF on[cur] \in Queue /\ statPend[cur] = "ok" THEN Owe(on[cur], tcbMsg[cur], -1)
                                                 ELSE UNCHANGED owed
  /\ UNCHANGED ring

\* The services of queues, called by a task other than the idle task.
QService ==
  /\ cur # Idle
  /\ \E e \in Queue :
       \/ OSQAccept(e) \/ OSQFlush(e)
       \/ \E timeout \in 0 .. MaxDelay : OSQPend(e, timeout)
       \/ \E m \in Msg : OSQPost(e, m) \/ Broadcast(e, m)

Tick == OSTimeTick /\ UNCHANGED <<sems, ring, owed>>

ISR == (\E s \in Sem : OSSemPostISR(s) /\ UNCHANGED <<ring, owed>>)
          \/ \E e \in Queue, m \in Msg : OSQPostISR(e, m)

Next ==
  \/ (OS_Sched \/ TaskService) /\ UNCHANGED <<sems, ring, owed>>
  \/ SemService /\ UNCHANGED <<ring, owed>>
  \/ QWake
  \/ QService
  \/ Tick
  \/ ISR

\* The system clock keeps ticking.
Spec == Init /\ [][Next]_vars /\ WF_vars(Tick)

-----------------------------------------------------------------------------
\* The queue and the message of a task that has been given one and has not
\* returned with it.
Given(t) == on[t] \in Queue /\ statPend[t] = "ok" /\ t \notin wait[on[t]]
Box == [t \in Task |-> IF Given(t) THEN <<on[t], tcbMsg[t]>> ELSE <<>>]

\* The rings and the messages handed over through the control blocks of the
\* tasks behave as queues (os_q.c): no order of posts, urgent posts, pends and
\* flushes loses, doubles or reorders a message in the ring, and a message
\* handed to a waiting task is given once, to tasks whose pends return it,
\* though their timeouts may have run out before (os_core.c:902, os_q.c:438).
\* A post that only a timed-out pend receives is no step of MsgQueue.
ImplementsMsgQueue == INSTANCE MsgQueue WITH q <- Contents, box <- Box
MessagesInOrder == ImplementsMsgQueue!Spec

\* Every message a queue has accepted and no pend, accept or flush has removed
\* is in the ring or on its way home with one task (os_q.c:438,
\* os_core.c:902).
NoMessageLost ==
  \A e \in Queue, m \in Msg :
    owed[e][m] = Occurrences(Contents[e], m)
                   + Cardinality({t \in Task : Box[t] = <<e, m>>})

\* A wait with a timeout ends, whatever suspensions and locks the other
\* tasks use (os_core.c:893).
TimeoutEnds ==
  \A t \in Task \ {Idle} :
    (dly[t] > 0 /\ stat[t] \cap PendBits # {}) ~> (stat[t] \cap PendBits = {})

=============================================================================
