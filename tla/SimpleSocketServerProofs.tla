----------------------- MODULE SimpleSocketServerProofs -----------------------
(***************************************************************************)
(* Theorems about the tasks of the simple socket server, for every size of *)
(* its buffers, its queue and the stack's list of connection requests.     *)
(***************************************************************************)
EXTENDS SimpleSocketServer, FiniteSetTheorems, SequenceTheorems, TLAPS

\* What the light show and its switch need to know of the state: who has
\* the semaphore.
ShowInv ==
  /\ sem \in {0, 1}
  /\ active \in BOOLEAN
  /\ show \in {"delay", "pattern"}
  /\ led \in {"command", "semaphore"}
  /\ led = "semaphore" => active
  /\ OffMeansNoPattern

LEMMA InitShowInv == Init => ShowInv
BY DEF Init, ShowInv, OffMeansNoPattern

LEMMA StepShowInv == ShowInv /\ [Next]_vars => ShowInv'
<1> SUFFICES ASSUME ShowInv, [Next]_vars PROVE ShowInv'
  OBVIOUS
<1> USE DEF ShowInv, OffMeansNoPattern
\* Clients and the server touch neither the show nor its semaphore.
<1>1. CASE Client \/ Server \/ UNCHANGED vars
  <2>1. UNCHANGED <<lights, sem, show>>
    BY <1>1 DEF Client, Requests, GivesUp, Types, Leaves, Server, Accept,
         Readable, Receive, Execute, Executed, CloseSession, vars
  <2> QED BY <2>1 DEF lights
<1>2. CASE Toggle
  BY <1>2 DEF Toggle
<1>3. CASE ShowOn
  BY <1>3 DEF ShowOn
<1>4. CASE ShowOff
  <2>1. CASE SemFree
    <3>1. sem' = 0 /\ led' = "command" /\ show' = show
      BY <1>4, <2>1 DEF ShowOff, server
    <3>3. ~active' /\ active' \in BOOLEAN
      BY <1>4, <2>1, Zenon DEF ShowOff
    <3>2. sem = 1 /\ show # "pattern"
      BY <2>1 DEF SemFree
    <3> QED BY <3>1, <3>2, <3>3
  <2>2. CASE ~SemFree
    <3>1. sem' = sem /\ active' = active /\ led' = "semaphore" /\ show' = show
          /\ active
      BY <1>4, <2>2 DEF ShowOff
    <3> QED BY <3>1
  <2> QED BY <2>1, <2>2
<1>5. CASE ShowOffLater
  <2>1. sem > 0 /\ sem' = sem - 1 /\ led' = "command" /\ show' = show /\ active
    BY <1>5 DEF ShowOffLater
  <2>2. ~active' /\ active' \in BOOLEAN
    BY <1>5, Zenon DEF ShowOffLater, Inactive
  <2>3. sem = 1 /\ show # "pattern"
    BY <2>1
  <2> QED BY <2>1, <2>2, <2>3
<1>6. CASE ShowTakes
  BY <1>6 DEF ShowTakes, lights
<1>7. CASE ShowGives
  BY <1>7 DEF ShowGives, GivesSem, lights
<1> QED
  BY <1>1, <1>2, <1>3, <1>4, <1>5, <1>6, <1>7
  DEF Next, LedManagement, Lightshow

\* While the show is off it writes no pattern, and the semaphore is never
\* with two tasks nor lost (led.c:110-119, 182-193).
THEOREM OffMeansNoPatternCorrect == Spec => []OffMeansNoPattern
<1>1. ShowInv => OffMeansNoPattern
  BY DEF ShowInv
<1> QED BY <1>1, InitShowInv, StepShowInv, PTL DEF Spec

LEMMA InitTypeOK == Init => TypeOK
<1> SUFFICES ASSUME Init PROVE TypeOK
  OBVIOUS
<1>1. {conn, left, close, active} \subseteq BOOLEAN
  BY Zenon DEF Init
<1>2. <<>> \in Seq(Char) /\ <<>> \in Seq(Command) /\ Len(<<>>) = 0
  OBVIOUS
<1> QED BY <1>1, <1>2, ServerAssumption DEF Init, TypeOK

\* What clients and the server leave in buffers and queue is of their sizes.
LEMMA StepTypeOK == TypeOK /\ ShowInv /\ [Next]_vars => TypeOK'
<1> SUFFICES ASSUME TypeOK, ShowInv, [Next]_vars PROVE TypeOK'
  OBVIOUS
<1> DEFINE Buffers == /\ inbox \in Seq(Char) /\ Len(inbox) <= InCap
                      /\ rx \in Seq(Char) /\ Len(rx) <= RxCap
                      /\ queue \in Seq(Command) /\ Len(queue) <= QSize
           Rest == /\ requests \in 0 .. Backlog
                   /\ conn \in BOOLEAN /\ left \in BOOLEAN /\ close \in BOOLEAN
                   /\ pc \in {"select", "receive", "execute"}
                   /\ leds \in {0, 1}
                   /\ posted \in [Command -> {0, 1}]
<1>1. ShowInv'
  BY StepShowInv
<1>2. Buffers /\ Rest
  BY DEF TypeOK
<1> Backlog \in Nat /\ InCap \in Nat /\ RxCap \in Nat /\ QSize \in Nat
  BY ServerAssumption DEF ServerAssumption
<1>3. Buffers'
  <2>1. CASE Types
    BY <1>2, <2>1 DEF Types, server
  <2>2. CASE Receive
    <3> DEFINE room == RxCap - Len(rx)
               k == IF Len(inbox) <= room THEN Len(inbox) ELSE room
    <3>1. k \in 1 .. Len(inbox) /\ k <= room
      BY <1>2, <2>2 DEF Receive
    <3>2. /\ rx' = rx \o SubSeq(inbox, 1, k)
          /\ inbox' = SubSeq(inbox, k + 1, Len(inbox))
          /\ queue' = queue
      BY <2>2 DEF Receive
    <3> HIDE DEF k
    <3>3. /\ SubSeq(inbox, 1, k) \in Seq(Char) /\ Len(SubSeq(inbox, 1, k)) = k
          /\ SubSeq(inbox, k + 1, Len(inbox)) \in Seq(Char)
          /\ Len(SubSeq(inbox, k + 1, Len(inbox))) <= Len(inbox)
      BY <1>2, <3>1
    <3> QED BY <1>2, <3>1, <3>2, <3>3
  <2>3. CASE Execute
    <3>1. rx' = Tail(rx) /\ inbox' = inbox /\ rx # <<>>
      BY <2>3 DEF Execute, client
    <3>2. \/ queue' = queue
          \/ Head(rx) \in Command /\ queue' = Append(queue, Head(rx)) /\ Len(queue) < QSize
      BY <2>3 DEF Execute
    <3>3. Tail(rx) \in Seq(Char) /\ Len(Tail(rx)) <= Len(rx)
      BY <1>2, <3>1
    <3>4. queue' \in Seq(Command) /\ Len(queue') <= QSize
      <4>1. CASE queue' = queue
        BY <1>2, <4>1
      <4>2. ASSUME NEW c \in Command, queue' = Append(queue, c), Len(queue) < QSize
            PROVE  queue' \in Seq(Command) /\ Len(queue') <= QSize
        BY <1>2, <4>2, AppendProperties
      <4> QED BY <3>2, <4>1, <4>2
    <3> QED BY <1>2, <3>1, <3>3, <3>4
  <2>4. CASE CloseSession \/ Readable
    <3>1. rx' = <<>> /\ (inbox' = <<>> \/ inbox' = inbox) /\ queue' = queue
      BY <2>4 DEF CloseSession, Readable, client
    <3>2. rx' \in Seq(Char) /\ Len(rx') = 0
      BY <3>1
    <3>3. inbox' \in Seq(Char) /\ Len(inbox') <= InCap
      <4>1. CASE inbox' = <<>>
        BY <4>1
      <4>2. CASE inbox' = inbox
        BY <1>2, <4>2
      <4> QED BY <3>1, <4>1, <4>2
    <3> QED BY <1>2, <3>1, <3>2, <3>3
  <2>5. CASE UNCHANGED <<inbox, rx, queue>>
    BY <1>2, <2>5
  <2>6. CASE Toggle \/ ShowOn \/ ShowOff
    <3>1. queue' = Tail(queue) /\ queue # <<>> /\ inbox' = inbox /\ rx' = rx
      BY <2>6 DEF Toggle, ShowOn, ShowOff, client, server
    <3> QED BY <1>2, <3>1
  <2> QED
    BY <2>1, <2>2, <2>3, <2>4, <2>5, <2>6
    DEF Next, Client, Requests, GivesUp, Leaves, Server, Accept, Executed,
        LedManagement, ShowOffLater, Lightshow, ShowTakes, ShowGives,
        vars, client, server
<1>4. Rest'
  <2>1. CASE Client
    <3>1. UNCHANGED <<conn, close, pc, leds, posted>>
      BY <2>1 DEF Client, Requests, GivesUp, Types, Leaves, server, lights
    <3>2. requests' \in 0 .. Backlog
      BY <1>2, <2>1 DEF Client, Requests, GivesUp, Types, Leaves
    <3>3. left' \in BOOLEAN
      BY <1>2, <2>1, Zenon DEF Client, Requests, GivesUp, Types, Leaves
    <3> QED BY <1>2, <3>1, <3>2, <3>3
  <2>2. CASE Accept \/ Readable \/ Receive \/ Executed \/ CloseSession
    <3>1. UNCHANGED <<leds, posted>>
      BY <2>2 DEF Accept, Readable, Receive, Executed, CloseSession, lights
    <3>2. requests' = requests \/ (requests > 0 /\ requests' = requests - 1)
      BY <2>2 DEF Accept, Readable, Receive, Executed, CloseSession, client
    <3>4. requests' \in 0 .. Backlog
      BY <1>2, <3>2
    <3>5. pc' \in {"select", "receive", "execute"}
      BY <1>2, <2>2, Zenon DEF Accept, Readable, Receive, Executed, CloseSession
    <3>3. conn' \in BOOLEAN /\ left' \in BOOLEAN /\ close' \in BOOLEAN
      BY <1>2, <2>2, Zenon
      DEF Accept, Readable, Receive, Executed, CloseSession, client
    <3> QED BY <1>2, <3>1, <3>3, <3>4, <3>5
  <2>3. CASE Execute
    <3>1. UNCHANGED <<requests, conn, left, pc, leds>>
      BY <2>3 DEF Execute, client, lights
    <3>2. close' \in BOOLEAN
      BY <1>2, <2>3, Zenon DEF Execute
    <3>3. \/ posted' = posted
          \/ Head(rx) \in Command /\ posted' = [posted EXCEPT ![Head(rx)] = 1 - @]
      BY <2>3 DEF Execute
    <3>4. posted' \in [Command -> {0, 1}]
      BY <1>2, <3>3
    <3> QED BY <1>2, <3>1, <3>2, <3>4
  <2>4. CASE LedManagement \/ Lightshow \/ UNCHANGED vars
    <3>1. UNCHANGED <<requests, conn, left, close, pc, posted>>
      BY <2>4 DEF LedManagement, Toggle, ShowOn, ShowOff, ShowOffLater,
           Lightshow, ShowTakes, ShowGives, vars, client, server
    <3>2. leds' = leds \/ leds' = 1 - leds
      BY <2>4 DEF LedManagement, Toggle, ShowOn, ShowOff, ShowOffLater,
           Lightshow, ShowTakes, ShowGives, vars, lights
    <3> QED BY <1>2, <3>1, <3>2
  <2> QED BY <2>1, <2>2, <2>3, <2>4 DEF Next, Server
<1> QED BY <1>1, <1>3, <1>4 DEF TypeOK, ShowInv

\* Sizes and values of everything the tasks share, for every size of the
\* buffers and the queue.
THEOREM TypeCorrect == Spec => []TypeOK
BY InitTypeOK, StepTypeOK, InitShowInv, StepShowInv, PTL DEF Spec

-----------------------------------------------------------------------------
LEMMA CountType ==
  ASSUME NEW q \in Seq(Command), NEW c \in Command
  PROVE  /\ IsFiniteSet({j \in DOMAIN q : q[j] = c})
         /\ Count(q, c) \in Nat
<1>1. DOMAIN q = 1 .. Len(q) /\ IsFiniteSet(1 .. Len(q))
  BY FS_Interval
<1> QED BY <1>1, FS_Subset, FS_CardinalityType DEF Count

\* A command put at the end of the queue is one more of its kind.
LEMMA CountAppend ==
  ASSUME NEW q \in Seq(Command), NEW x \in Command, NEW c \in Command
  PROVE  Count(Append(q, x), c) = Count(q, c) + IF x = c THEN 1 ELSE 0
<1> DEFINE S == {j \in DOMAIN q : q[j] = c}
           T == {j \in DOMAIN Append(q, x) : Append(q, x)[j] = c}
<1>1. IsFiniteSet(S) /\ Len(q) + 1 \notin S
  BY CountType
<1>2. T = IF x = c THEN S \cup {Len(q) + 1} ELSE S
  <2>1. DOMAIN Append(q, x) = 1 .. Len(q) + 1 /\ DOMAIN q = 1 .. Len(q)
    OBVIOUS
  <2>2. \A j \in 1 .. Len(q) : Append(q, x)[j] = q[j]
    OBVIOUS
  <2>3. Append(q, x)[Len(q) + 1] = x
    OBVIOUS
  <2> QED BY <2>1, <2>2, <2>3
<1>3. x = c => Cardinality(T) = Cardinality(S) + 1
  BY <1>1, <1>2, FS_AddElement
<1>4. x # c => Cardinality(T) = Cardinality(S)
  BY <1>2
<1>5. Count(q, c) = Cardinality(S) /\ Count(Append(q, x), c) = Cardinality(T)
  BY DEF Count
<1>6. Cardinality(S) \in Nat
  BY <1>1, FS_CardinalityType
<1> HIDE DEF S, T
<1> QED BY <1>3, <1>4, <1>5, <1>6

\* A command taken from the front is one less of its kind.
LEMMA CountTail ==
  ASSUME NEW q \in Seq(Command), q # <<>>, NEW c \in Command
  PROVE  Count(q, c) = Count(Tail(q), c) + IF Head(q) = c THEN 1 ELSE 0
<1> DEFINE S == {j \in DOMAIN q : q[j] = c}
           T == {j \in DOMAIN Tail(q) : Tail(q)[j] = c}
           f == [j \in T |-> j + 1]
<1>1. /\ Tail(q) \in Seq(Command) /\ Len(q) \in Nat \ {0}
      /\ DOMAIN q = 1 .. Len(q) /\ DOMAIN Tail(q) = 1 .. Len(q) - 1
      /\ \A j \in 1 .. Len(q) - 1 : Tail(q)[j] = q[j + 1]
      /\ Head(q) = q[1]
  OBVIOUS
<1>2. IsFiniteSet(S) /\ IsFiniteSet(T)
  BY <1>1, CountType
<1>3. Cardinality(S \ {1}) = Cardinality(T)
  <2>1. f \in [T -> S \ {1}]
    BY <1>1
  <2>2. \A i, j \in T : f[i] = f[j] => i = j
    BY <1>1
  <2>3. \A k \in S \ {1} : \E j \in T : f[j] = k
    <3> SUFFICES ASSUME NEW k \in S \ {1} PROVE k - 1 \in T /\ f[k - 1] = k
      OBVIOUS
    <3>1. k - 1 \in 1 .. Len(q) - 1
      BY <1>1
    <3>2. k - 1 \in T
      BY <1>1, <3>1
    <3> QED BY <1>1, <3>2
  <2> HIDE DEF f
  <2>4. f \in Bijection(T, S \ {1})
    BY <2>1, <2>2, <2>3 DEF Bijection, Injection, Surjection, IsInjective
  <2> QED BY <1>2, <2>4, FS_Bijection DEF ExistsBijection
<1>4. Cardinality(S \ {1}) = IF 1 \in S THEN Cardinality(S) - 1 ELSE Cardinality(S)
  BY <1>2, FS_RemoveElement
<1>5. 1 \in S <=> Head(q) = c
  BY <1>1
<1>6. Cardinality(S) \in Nat
  BY <1>2, FS_CardinalityType
<1>7. Count(q, c) = Cardinality(S) /\ Count(Tail(q), c) = Cardinality(T)
  BY DEF Count
<1> HIDE DEF S, T
<1> QED BY <1>3, <1>4, <1>5, <1>6, <1>7

LEMMA Parity == \A k \in Nat : k % 2 \in {0, 1} /\ (k + 1) % 2 = 1 - (k % 2)
OBVIOUS

LEMMA InitCommands == Init => CommandsTakeEffect
<1> SUFFICES ASSUME Init PROVE CommandsTakeEffect
  OBVIOUS
<1>1. \A c \in Command : Pending(c) = 0
  BY FS_EmptySet DEF Init, Pending, Count
<1> QED BY <1>1 DEF Init, CommandsTakeEffect, Command

LEMMA StepCommands ==
  TypeOK /\ ShowInv /\ CommandsTakeEffect /\ [Next]_vars => CommandsTakeEffect'
<1> SUFFICES ASSUME TypeOK, ShowInv, CommandsTakeEffect, [Next]_vars
             PROVE  CommandsTakeEffect'
  OBVIOUS
<1>1. /\ {"0", "S"} = Command /\ queue \in Seq(Command)
      /\ posted \in [Command -> {0, 1}] /\ leds \in {0, 1}
  BY DEF TypeOK, Command
<1>2. \A c \in Command : Count(queue, c) \in Nat
  BY <1>1, CountType
<1>3. CASE UNCHANGED <<queue, posted, leds, led, active>>
  BY <1>3 DEF CommandsTakeEffect, Pending
<1>4. CASE Execute
  <2>1. UNCHANGED <<leds, led, active>>
    BY <1>4 DEF Execute, lights
  <2>2. CASE UNCHANGED <<queue, posted>>
    BY <1>3, <2>1, <2>2
  <2>3. CASE ~UNCHANGED <<queue, posted>>
    <3>1. PICK c \in Command : /\ queue' = Append(queue, c)
                               /\ posted' = [posted EXCEPT ![c] = 1 - @]
      BY <1>4, <2>3 DEF Execute
    <3>2. \A d \in Command : Count(queue', d) = Count(queue, d) + IF c = d THEN 1 ELSE 0
      BY <1>1, <3>1, CountAppend
    <3>3. \A d \in Command : posted'[d] = IF c = d THEN 1 - posted[d] ELSE posted[d]
      BY <1>1, <3>1
    <3>4. \A d \in Command :
            (posted'[d] + Count(queue', d)) % 2 = (posted[d] + Count(queue, d)) % 2
          /\ \A n \in {0, 1} : (posted'[d] + Count(queue', d) + n) % 2
                                 = (posted[d] + Count(queue, d) + n) % 2
      <4> SUFFICES ASSUME NEW d \in Command, NEW n \in {0, 1}
                   PROVE  (posted'[d] + Count(queue', d) + n) % 2
                            = (posted[d] + Count(queue, d) + n) % 2
        BY <1>1, <1>2, <3>2, <3>3
      <4>1. posted[d] \in {0, 1} /\ Count(queue, d) \in Nat
        BY <1>1, <1>2
      <4> QED BY <3>2, <3>3, <4>1
    <3> QED BY <1>1, <2>1, <3>4 DEF CommandsTakeEffect, Pending
  <2> QED BY <2>2, <2>3
<1>5. CASE Toggle \/ ShowOn \/ ShowOff
  <2>1. queue # <<>> /\ queue' = Tail(queue) /\ posted' = posted
    BY <1>5 DEF Toggle, ShowOn, ShowOff
  <2>2. \A d \in Command : Count(queue, d) = Count(queue', d) + IF Head(queue) = d THEN 1 ELSE 0
    BY <1>1, <2>1, CountTail
  <2>3. \A d \in Command : Count(queue', d) \in Nat
    BY <1>1, <2>1, CountType, Tail(queue) \in Seq(Command)
  <2>4. CASE Toggle
    <3>1. Head(queue) = "0" /\ leds' = 1 - leds /\ UNCHANGED <<led, active>>
      BY <2>4 DEF Toggle
    <3>2. "0" \in Command /\ "S" \in Command
      BY <1>1
    <3>3. /\ Count(queue, "0") = Count(queue', "0") + 1
          /\ Count(queue, "S") = Count(queue', "S")
      BY <2>2, <2>3, <3>1, <3>2
    <3>4. posted["0"] + Count(queue', "0") \in Nat
      BY <1>1, <2>3, <3>2
    <3>5. leds = (posted["0"] + Count(queue', "0") + 1) % 2
      BY <1>1, <2>3, <3>2, <3>3 DEF CommandsTakeEffect, Pending
    <3>6. leds' = (posted["0"] + Count(queue', "0")) % 2
      <4>1. PICK k \in Nat : k = posted["0"] + Count(queue', "0")
        BY <3>4
      <4>2. k % 2 \in {0, 1} /\ leds = 1 - (k % 2)
        BY <3>5, <4>1, Parity
      <4>3. leds' = k % 2
        BY <3>1, <4>2
      <4> QED BY <4>1, <4>3
    <3> QED BY <2>1, <3>1, <3>3, <3>6 DEF CommandsTakeEffect, Pending
  <2>5. CASE ShowOn \/ ShowOff
    <3>1. Head(queue) = "S" /\ leds' = leds /\ led = "command"
          /\ led' \in {"command", "semaphore"}
      BY <2>5 DEF ShowOn, ShowOff
    <3>2. "0" \in Command /\ "S" \in Command
      BY <1>1
    <3>4. /\ Count(queue, "S") = Count(queue', "S") + 1
          /\ Count(queue, "0") = Count(queue', "0")
      BY <2>2, <2>3, <3>1, <3>2
    <3>3. (IF active' THEN 0 ELSE 1) + (IF led' = "semaphore" THEN 1 ELSE 0)
            = 1 - (IF active THEN 0 ELSE 1)
          \/ /\ led' = "semaphore"
             /\ (IF active' THEN 0 ELSE 1) = (IF active THEN 0 ELSE 1)
      BY <2>5, <3>1 DEF ShowOn, ShowOff
    <3>5. posted["S"] + Count(queue', "S") \in Nat
      BY <1>1, <2>3, <3>2
    <3>6. (IF active THEN 0 ELSE 1) = (posted["S"] + Count(queue', "S") + 1) % 2
      BY <1>1, <2>3, <3>1, <3>2, <3>4 DEF CommandsTakeEffect, Pending
    <3>7. (IF active' THEN 0 ELSE 1)
            = (posted["S"] + Count(queue', "S")
                 + (IF led' = "semaphore" THEN 1 ELSE 0)) % 2
      BY <3>1, <3>3, <3>5, <3>6, Parity
    <3>8. leds' = (posted'["0"] + Count(queue', "0")) % 2
      BY <2>1, <3>1, <3>4 DEF CommandsTakeEffect, Pending
    <3> QED BY <2>1, <3>7, <3>8 DEF CommandsTakeEffect, Pending
  <2> QED BY <1>5, <2>4, <2>5
<1>6. CASE ShowOffLater
  <2>1. led = "semaphore" /\ led' = "command" /\ UNCHANGED <<queue, posted, leds>>
    BY <1>6 DEF ShowOffLater
  <2>2. active /\ ~active'
    BY <1>6, <2>1 DEF ShowOffLater, Inactive, ShowInv
  <2> QED BY <1>1, <1>2, <2>1, <2>2 DEF CommandsTakeEffect, Pending
<1> QED
  BY <1>3, <1>4, <1>5, <1>6
  DEF Next, Client, Requests, GivesUp, Types, Leaves, Server, Accept, Readable,
      Receive, Executed, CloseSession, LedManagement, Lightshow, ShowTakes,
      ShowGives, vars, lights

\* Every command the server has posted is executed exactly once, except those
\* still queued and the one LEDManagementTask waits with: the LEDs and the
\* show stand as the posted commands say (simple_socket_server.c:303,
\* led.c:160-199).
THEOREM CommandsTakeEffectCorrect == Spec => []CommandsTakeEffect
BY InitCommands, StepCommands, InitTypeOK, StepTypeOK, InitShowInv, StepShowInv,
   PTL DEF Spec

-----------------------------------------------------------------------------
\* A command is lost only while LEDManagementTask waits for the light show's
\* semaphore (simple_socket_server.c:303, led.c:190; priorities 7 and 10).
THEOREM DroppedOnlyWhileWaitingCorrect == Spec => DroppedOnlyWhileWaiting
<1> DEFINE Dropped == /\ pc = "execute" /\ rx # <<>> /\ Head(rx) \in Command
                      /\ rx' = Tail(rx) /\ queue' = queue
<1>1. ASSUME rx \in Seq(Char), ShowInv, [Next]_vars, Dropped
      PROVE  led = "semaphore"
  <2>1. rx' # rx
    <3>1. rx \in Seq(Char) /\ rx # <<>> /\ rx' = Tail(rx)
      BY <1>1
    <3>2. Len(Tail(rx)) = Len(rx) - 1 /\ Len(rx) \in Nat
      BY <3>1
    <3>3. Tail(rx) # rx
      BY <3>2
    <3> QED BY <3>1, <3>3
  <2>2. Execute
    <3>1. ~UNCHANGED rx
      BY <2>1
    <3>2. ~(LedManagement \/ Lightshow \/ Client \/ UNCHANGED vars)
      BY <3>1 DEF LedManagement, Toggle, ShowOn, ShowOff, ShowOffLater,
           Lightshow, ShowTakes, ShowGives, Client, Requests, GivesUp,
           Types, Leaves, vars, client, server
    <3> QED
      BY <1>1, <3>1, <3>2 DEF Next, Server, Accept, Readable, Receive,
           Executed, CloseSession
  <2>3. CASE Len(queue) < QSize
    <3>1. queue' = Append(queue, Head(rx))
      BY <1>1, <2>2, <2>3 DEF Execute
    <3> QED BY <1>1, <3>1
  <2>4. CASE ~(Len(queue) < QSize)
    <3>1. queue # <<>>
      BY <2>4, ServerAssumption DEF ServerAssumption
    <3>2. ~LedReady
      BY <2>2 DEF Execute, ServerRuns
    <3> QED BY <1>1, <3>1, <3>2 DEF LedReady, ShowInv
  <2> QED BY <2>3, <2>4
<1>2. TypeOK /\ ShowInv /\ [Next]_vars => (Dropped => led = "semaphore")
  BY <1>1 DEF TypeOK
<1> QED
  BY <1>2, TypeCorrect, InitShowInv, StepShowInv, PTL
  DEF Spec, DroppedOnlyWhileWaiting

\* A server that reads from a client that is gone does so for ever: end of
\* file does not end sss_handle_receive's loop, and no other step of any task
\* or client changes what it waits for.
LEMMA AbandonedStep == TypeOK /\ Abandoned /\ [Next]_vars => Abandoned'
<1> SUFFICES ASSUME TypeOK, Abandoned, [Next]_vars PROVE Abandoned'
  OBVIOUS
<1>a. pc = "receive" /\ ~close /\ left /\ inbox = <<>>
  BY DEF Abandoned
<1>1. CASE UNCHANGED <<pc, close, left, inbox>>
  BY <1>a, <1>1 DEF Abandoned
<1>2. ~Receive
  <2>1. Len(inbox) = 0 /\ RxCap - Len(rx) \in Int
    <3>1. rx \in Seq(Char) /\ RxCap \in Nat
      BY ServerAssumption DEF TypeOK
    <3> QED BY <1>a, <3>1
  <2> DEFINE room == RxCap - Len(rx)
             k == IF Len(inbox) <= room THEN Len(inbox) ELSE room
  <2>2. Receive => k > 0
    BY DEF Receive
  <2>3. ~(k > 0)
    BY <2>1
  <2> QED BY <2>2, <2>3
<1>3. CASE Server
  BY <1>a, <1>1, <1>2, <1>3 DEF Server, Accept, Readable, Execute, Executed,
                           CloseSession, Quit, client, server
<1>4. CASE Client \/ LedManagement \/ Lightshow \/ UNCHANGED vars
  BY <1>a, <1>1, <1>4 DEF Client, Requests, GivesUp, Types, Leaves,
     LedManagement, Toggle, ShowOn, ShowOff, ShowOffLater, Lightshow,
     ShowTakes, ShowGives, vars, client, server
<1> QED BY <1>3, <1>4 DEF Next

\* AbandonedForGood, proved: once a client has left without Q nobody is
\* served any more, whatever requests arrive and whatever the tasks do.
THEOREM AbandonedForGoodCorrect == Spec => AbandonedForGood
BY AbandonedStep, TypeCorrect, PTL DEF Spec, AbandonedForGood
===============================================================================
