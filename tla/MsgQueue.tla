------------------------------- MODULE MsgQueue -------------------------------
(***************************************************************************)
(* What a message queue of MicroC/OS-II promises: messages come out in the *)
(* order of the queue, urgent ones first, and a message goes to waiting    *)
(* tasks directly only when none is queued.  Only a task that takes the    *)
(* message home, or a flush, settles what the queue owes for a message it  *)
(* accepted.                                                               *)
(***************************************************************************)
EXTENDS Integers, Sequences, FiniteSets

CONSTANTS Queue, Task, Msg, NoMsg, QSize

VARIABLES
  q,            \* the messages in each queue
  box,          \* the queue and message of a task that was given one and has
                \* not returned with it yet
  owed          \* history: how often a queue has accepted a message, less
                \* how often it was returned by a task or flushed

vars == <<q, box, owed>>

Owe(e, m, n) == owed' = [owed EXCEPT ![e][m] = @ + n]
Occurrences(s, m) == Cardinality({i \in DOMAIN s : s[i] = m})

Init ==
  /\ q = [e \in Queue |-> <<>>]
  /\ box = [t \in Task |-> <<>>]
  /\ owed = [e \in Queue |-> [m \in Msg |-> 0]]

Put(e, m) ==
  /\ Len(q[e]) < QSize
  /\ \/ q' = [q EXCEPT ![e] = Append(@, m)]
     \/ q' = [q EXCEPT ![e] = <<m>> \o @]
  /\ Owe(e, m, 1)
  /\ UNCHANGED box

Give(e, m, T) ==
  /\ q[e] = <<>>
  /\ \A t \in T : box[t] = <<>>
  /\ box' = [t \in Task |-> IF t \in T THEN <<e, m>> ELSE box[t]]
  /\ Owe(e, m, Cardinality(T))
  /\ UNCHANGED q

Take(e) ==
  /\ q[e] # <<>>
  /\ q' = [q EXCEPT ![e] = Tail(@)]
  /\ Owe(e, Head(q[e]), -1)
  /\ UNCHANGED box

Open(t) ==
  /\ box[t] # <<>>
  /\ box' = [box EXCEPT ![t] = <<>>]
  /\ Owe(box[t][1], box[t][2], -1)
  /\ UNCHANGED q

Flush(e) ==
  /\ q' = [q EXCEPT ![e] = <<>>]
  /\ owed' = [owed EXCEPT ![e] = [m \in Msg |-> @[m] - Occurrences(q[e], m)]]
  /\ UNCHANGED box

Next ==
  \/ \E e \in Queue, m \in Msg :
       \/ Put(e, m) \/ \E T \in SUBSET Task : Give(e, m, T)
  \/ \E e \in Queue : Take(e) \/ Flush(e)
  \/ \E t \in Task : Open(t)

Spec == Init /\ [][Next]_vars

=============================================================================
