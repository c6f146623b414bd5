------------------------------- MODULE UcosSem -------------------------------
(***************************************************************************)
(* The counting semaphores of MicroC/OS-II (os_sem.c).                     *)
(***************************************************************************)
EXTENDS Ucos

CONSTANTS
  InitCnt,      \* the counts the semaphores are created with
  MaxCnt        \* 65535, the largest count

ASSUME SemAssumption == MaxCnt \in Nat /\ InitCnt \in [Sem -> 0 .. MaxCnt]

VARIABLES
  cnt,          \* OSEventCnt
  balance       \* history: count at creation, plus posts that succeeded,
                \* minus pends and accepts that returned a count

sems == <<cnt, balance>>

SemTypeOK == cnt \in [Sem -> 0 .. MaxCnt] /\ balance \in [Sem -> Int]

SemInit == cnt = InitCnt /\ balance = InitCnt

-----------------------------------------------------------------------------
\* OSSemAccept with a count, and the first part of OSSemPend.
TakeCount(s) ==
  /\ cnt[s] > 0
  /\ cnt' = [cnt EXCEPT ![s] = @ - 1]
  /\ balance' = [balance EXCEPT ![s] = @ - 1]
  /\ UNCHANGED core

OSSemAccept(s) == Running /\ TakeCount(s)

\* OSSemPend; it is refused while the scheduler is locked.
OSSemPend(s, timeout) ==
  /\ Running
  /\ lock = 0
  /\ \/ TakeCount(s)
     \/ cnt[s] = 0 /\ Block(s, timeout) /\ UNCHANGED sems

\* The end of OSSemPend, or of a pend on another event.
SemWake ==
  /\ Wake
  /\ balance' = [s \in Sem |-> IF s = on[cur] /\ statPend[cur] = "ok"
                               THEN balance[s] - 1 ELSE balance[s]]
  /\ UNCHANGED cnt

\* The part of OSSemPost for a semaphore nobody waits for; at its largest
\* count the post is refused (OS_ERR_SEM_OVF).  The mutant is not.
AddAlways(s) ==
  /\ wait[s] = {}
  /\ cnt' = [cnt EXCEPT ![s] = @ + 1]
  /\ balance' = [balance EXCEPT ![s] = @ + 1]
  /\ UNCHANGED core
AddCount(s) ==
  /\ wait[s] = {}
  /\ cnt[s] < MaxCnt
  /\ cnt' = [cnt EXCEPT ![s] = @ + 1]
  /\ balance' = [balance EXCEPT ![s] = @ + 1]
  /\ UNCHANGED core

Handed(s) == balance' = [balance EXCEPT ![s] = @ + 1] /\ UNCHANGED cnt

\* A post that is refused, for a caller that goes on all the same.
PostRefused(s) == wait[s] = {} /\ cnt[s] = MaxCnt /\ UNCHANGED <<core, sems>>

OSSemPost(s) ==
  /\ Running
  /\ \/ AddCount(s)
     \/ wait[s] # {} /\ HandOverByTask(s, NoMsg) /\ Handed(s)

\* OSSemPost from an interrupt service routine, and OSIntExit.
OSSemPostISR(s) ==
  \/ AddCount(s)
  \/ wait[s] # {} /\ HandOverByISR(s, NoMsg) /\ Handed(s)

\* OSSemSet, refused while tasks wait.
OSSemSet(s, n) ==
  /\ Running
  /\ cnt[s] > 0 \/ wait[s] = {}
  /\ cnt' = [cnt EXCEPT ![s] = n]
  /\ balance' = [balance EXCEPT ![s] = @ + n - cnt[s]]
  /\ UNCHANGED core

\* The services of semaphores, called by a task other than the idle task.
SemService ==
  /\ cur # Idle
  /\ \E s \in Sem :
       \/ OSSemAccept(s) \/ OSSemPost(s)
       \/ \E timeout \in 0 .. MaxDelay : OSSemPend(s, timeout)
       \/ \E n \in 0 .. MaxCnt : OSSemSet(s, n)

-----------------------------------------------------------------------------
\* The tasks that have been handed a count and have not returned with it.
Granted(s) == {t \in Task : on[t] = s /\ t \notin wait[s] /\ statPend[t] = "ok"}

\* No post is lost and none counts twice: what has been posted and not been
\* returned by a pend or an accept is in the count or has been handed to a
\* task on its way out of OSSemPend.  Posts meet tasks whose timeout has run
\* out but that have not taken themselves out of the wait list yet
\* (os_core.c:902 and os_sem.c:336).
NoPostLost == \A s \in Sem : balance[s] = cnt[s] + Cardinality(Granted(s))

\* A count and a waiting task never exist together.
CountOrWaiters == \A s \in Sem : cnt[s] = 0 \/ wait[s] = {}

=============================================================================
