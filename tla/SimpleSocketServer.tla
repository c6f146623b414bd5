-------------------------- MODULE SimpleSocketServer --------------------------
(***************************************************************************)
(* The simple socket server of fpga/software/server1: the task             *)
(* SSSSimpleSocketServerTask, which serves one client at a time, the task  *)
(* LEDManagementTask, which executes the client's commands, and the task   *)
(* LED7SegLightshowTask, which LEDManagementTask switches off by taking    *)
(* its semaphore away.  (The application has their creation commented out, *)
(* iniche_init.c:166-172; this is what they do when they are created.)     *)
(*                                                                         *)
(* MicroC/OS-II runs the ready task of the highest priority: LED           *)
(* management (7), then the server (10), then the light show (18).  A task *)
(* that is ready keeps the lower ones from running even when its steps     *)
(* change nothing.                                                         *)
(*                                                                         *)
(* Of the characters a client types, "0" stands for the eight LED toggles, *)
(* "S" is the light show command, "Q" ends the session and "lf" the line.  *)
(* The answers the server sends are left out; a client reads them.         *)
(***************************************************************************)
EXTENDS Integers, Sequences, FiniteSets

CONSTANTS
  Backlog,    \* connection requests the stack queues for the server
  InCap,      \* characters the stack holds for the server
  RxCap,      \* SSS_RX_BUF_SIZE - 1
  QSize       \* SSS_LED_COMMAND_Q_SIZE

ASSUME ServerAssumption ==
  {Backlog, InCap, RxCap, QSize} \subseteq Nat \ {0}

VARIABLES
  requests,   \* clients waiting to be accepted
  conn,       \* conn.fd: a client is connected
  left,       \* the connected client has closed its end
  inbox,      \* characters that have arrived from it
  pc, rx,     \* the server: where it is, received characters not yet used
  close,      \* conn.close
  queue,      \* SSSLEDCommandQ
  led,        \* LEDManagementTask waits for a command or for the semaphore
  active,     \* SSSLEDLightshowActive
  sem,        \* SSSLEDLightshowSem
  show,       \* LED7SegLightshowTask: in its delay, or with the semaphore
  leds,       \* SSSLEDEventFlag
  posted      \* history: parity of the toggles and of the S's posted

client == <<requests, left, inbox>>
server == <<conn, pc, rx, close>>
lights == <<led, active, leds>>
vars == <<client, server, queue, lights, sem, show, posted>>

Command == {"0", "S"}
Char == Command \cup {"Q", "lf"}

HasLine(s) == \E i \in DOMAIN s : s[i] = "lf"

TypeOK ==
  /\ requests \in 0 .. Backlog
  /\ conn \in BOOLEAN /\ left \in BOOLEAN /\ close \in BOOLEAN
  /\ inbox \in Seq(Char) /\ Len(inbox) <= InCap
  /\ pc \in {"select", "receive", "execute"}
  /\ rx \in Seq(Char) /\ Len(rx) <= RxCap
  /\ queue \in Seq(Command) /\ Len(queue) <= QSize
  /\ led \in {"command", "semaphore"}
  /\ active \in BOOLEAN
  /\ sem \in {0, 1}
  /\ show \in {"delay", "pattern"}
  /\ leds \in {0, 1}
  /\ posted \in [Command -> {0, 1}]

Init ==
  /\ requests = 0 /\ left = FALSE /\ inbox = <<>>
  /\ conn = FALSE /\ pc = "select" /\ rx = <<>> /\ close = FALSE
  /\ queue = <<>>
  /\ led = "command" /\ active = TRUE /\ leds = 0
  /\ sem = 1 /\ show = "delay"
  /\ posted = [c \in Command |-> 0]

-----------------------------------------------------------------------------
(* Priorities                                                              *)

LedReady ==
  IF led = "command" THEN queue # <<>> ELSE sem > 0

\* What the server waits for: something to accept or to read, and nothing
\* when it works on a line or its buffer is full (a recv of length 0).
ServerReady ==
  CASE pc = "select"  -> requests > 0 \/ (conn /\ (inbox # <<>> \/ left))
    [] pc = "receive" -> close \/ inbox # <<>> \/ left \/ Len(rx) = RxCap
    [] pc = "execute" -> TRUE

\* (Mutant: a server whose priority is above that of LEDManagementTask.)
NeverKept == TRUE
ServerRuns == ~LedReady

ShowRuns == ~LedReady /\ ~ServerReady

-----------------------------------------------------------------------------
(* Clients                                                                 *)

Requests ==
  /\ requests < Backlog
  /\ requests' = requests + 1
  /\ UNCHANGED <<left, inbox, server, queue, lights, sem, show, posted>>

GivesUp ==
  /\ requests > 0
  /\ requests' = requests - 1
  /\ UNCHANGED <<left, inbox, server, queue, lights, sem, show, posted>>

Types ==
  /\ conn /\ ~left /\ Len(inbox) < InCap
  /\ \E c \in Char : inbox' = Append(inbox, c)
  /\ UNCHANGED <<requests, left, server, queue, lights, sem, show, posted>>

Leaves ==
  /\ conn /\ ~left
  /\ left' = TRUE
  /\ UNCHANGED <<requests, inbox, server, queue, lights, sem, show, posted>>

-----------------------------------------------------------------------------
(* SSSSimpleSocketServerTask                                               *)

\* select finds a request, and sss_handle_accept accepts it if there is no
\* client.  If there is one, its other branch only prints, and select finds
\* the same request again: the task stays ready and nothing changes.
Accept ==
  /\ pc = "select" /\ ServerRuns
  /\ requests > 0 /\ ~conn
  /\ requests' = requests - 1
  /\ conn' = TRUE
  /\ UNCHANGED <<left, inbox, pc, rx, close, queue, lights, sem, show, posted>>

\* Only when there is no request is the client looked at.
Readable ==
  /\ pc = "select" /\ ServerRuns
  /\ requests = 0 /\ conn /\ (inbox # <<>> \/ left)
  /\ pc' = "receive"
  /\ rx' = <<>>
  /\ UNCHANGED <<client, conn, close, queue, lights, sem, show, posted>>

\* The loop of sss_handle_receive ends when Q was executed.  (Mutant: or when
\* the client has left.)
QuitOrEnd == close \/ (left /\ inbox = <<>>)
Quit == close

\* recv takes what is there and fits.  End of file and errors (rx_code <= 0)
\* change nothing: the loop asks again.
Receive ==
  /\ pc = "receive" /\ ServerRuns
  /\ ~Quit
  /\ LET room == RxCap - Len(rx)
         k == IF Len(inbox) <= room THEN Len(inbox) ELSE room
     IN /\ k > 0
        /\ rx' = rx \o SubSeq(inbox, 1, k)
        /\ inbox' = SubSeq(inbox, k + 1, Len(inbox))
  /\ pc' = IF HasLine(rx') THEN "execute" ELSE "receive"
  /\ UNCHANGED <<requests, left, conn, close, queue, lights, sem, show, posted>>

\* sss_exec_command, one character: every character received is executed,
\* those behind the end of the line too.  A command that finds the queue full
\* is reported on the console and dropped.
Execute ==
  /\ pc = "execute" /\ ServerRuns
  /\ rx # <<>>
  /\ rx' = Tail(rx)
  /\ close' = (close \/ Head(rx) = "Q")
  /\ IF Head(rx) \in Command /\ Len(queue) < QSize
     THEN /\ queue' = Append(queue, Head(rx))
          /\ posted' = [posted EXCEPT ![Head(rx)] = 1 - @]
     ELSE UNCHANGED <<queue, posted>>
  /\ UNCHANGED <<client, conn, pc, lights, sem, show>>

Executed ==
  /\ pc = "execute" /\ ServerRuns
  /\ rx = <<>>
  /\ pc' = "receive"
  /\ UNCHANGED <<client, conn, rx, close, queue, lights, sem, show, posted>>

\* close(conn->fd) and sss_reset_connection.
CloseSession ==
  /\ pc = "receive" /\ ServerRuns
  /\ Quit
  /\ conn' = FALSE /\ close' = FALSE /\ rx' = <<>>
  /\ left' = FALSE /\ inbox' = <<>>
  /\ pc' = "select"
  /\ UNCHANGED <<requests, queue, lights, sem, show, posted>>

-----------------------------------------------------------------------------
(* LEDManagementTask: nothing of lower priority runs until it waits again. *)

Toggle ==
  /\ led = "command" /\ queue # <<>> /\ Head(queue) = "0"
  /\ queue' = Tail(queue)
  /\ leds' = 1 - leds
  /\ UNCHANGED <<client, server, led, active, sem, show, posted>>

ShowOn ==
  /\ led = "command" /\ queue # <<>> /\ Head(queue) = "S" /\ ~active
  /\ queue' = Tail(queue)
  /\ active' = TRUE
  /\ sem' = sem + 1
  /\ UNCHANGED <<client, server, led, leds, show, posted>>

\* The pend of the semaphore: with it taken, the task waits.  (Mutant: a
\* pend that does not wait.)
DontWait == TRUE
SemFree == sem > 0

ShowOff ==
  /\ led = "command" /\ queue # <<>> /\ Head(queue) = "S" /\ active
  /\ queue' = Tail(queue)
  /\ IF SemFree
     THEN sem' = 0 /\ active' = FALSE /\ UNCHANGED led
     ELSE led' = "semaphore" /\ UNCHANGED <<sem, active>>
  /\ UNCHANGED <<client, server, leds, show, posted>>

\* After the wait.  (Mutant: the show is taken for running still.)
StillActive == TRUE
Inactive == FALSE

ShowOffLater ==
  /\ led = "semaphore" /\ sem > 0
  /\ sem' = sem - 1
  /\ active' = Inactive
  /\ led' = "command"
  /\ UNCHANGED <<client, server, queue, leds, show, posted>>

-----------------------------------------------------------------------------
(* LED7SegLightshowTask                                                    *)

ShowTakes ==
  /\ ShowRuns /\ show = "delay" /\ sem > 0
  /\ sem' = sem - 1
  /\ show' = "pattern"
  /\ UNCHANGED <<client, server, queue, lights, posted>>

\* (Mutant: the semaphore is not given back.)
KeepsSem == 0
GivesSem == 1

ShowGives ==
  /\ ShowRuns /\ show = "pattern"
  /\ sem' = sem + GivesSem
  /\ show' = "delay"
  /\ UNCHANGED <<client, server, queue, lights, posted>>

-----------------------------------------------------------------------------
Client == Requests \/ GivesUp \/ Types \/ Leaves
Server == Accept \/ Readable \/ Receive \/ Execute \/ Executed \/ CloseSession
LedManagement == Toggle \/ ShowOn \/ ShowOff \/ ShowOffLater
Lightshow == ShowTakes \/ ShowGives

Next == Client \/ Server \/ LedManagement \/ Lightshow

Spec == Init /\ [][Next]_vars

(***************************************************************************)
(* Fairness: a task that stays the first of the ready ones runs, and the   *)
(* light show gets the CPU if it is again and again the only ready task.   *)
(* Clients are not obliged to anything.                                    *)
(***************************************************************************)
FairSpec ==
  /\ Spec
  /\ WF_vars(LedManagement) /\ WF_vars(Server)
  /\ SF_vars(ShowTakes) /\ SF_vars(ShowGives)

-----------------------------------------------------------------------------
(* Properties                                                              *)

\* While the light show is switched off it writes no pattern: the semaphore
\* is with exactly one of the show, LEDManagementTask, or nobody.
OffMeansNoPattern ==
  /\ ~active => show # "pattern"
  /\ sem + (IF show = "pattern" THEN 1 ELSE 0) + (IF active THEN 0 ELSE 1) = 1

\* What was posted is executed exactly once: LEDs and light show stand as
\* the commands posted so far say, but for those still queued or waiting.
Count(q, c) == Cardinality({j \in DOMAIN q : q[j] = c})
Pending(c) == Count(queue, c)

CommandsTakeEffect ==
  /\ leds = (posted["0"] + Pending("0")) % 2
  /\ (IF active THEN 0 ELSE 1) =
       (posted["S"] + Pending("S") + (IF led = "semaphore" THEN 1 ELSE 0)) % 2

\* A command is dropped only while LEDManagementTask waits for the light
\* show: otherwise its priority empties the queue after every post.
DroppedOnlyWhileWaiting ==
  [][pc = "execute" /\ rx # <<>> /\ Head(rx) \in Command /\ rx' = Tail(rx)
       /\ queue' = queue
     => led = "semaphore"]_vars

\* LEDManagementTask waits for the semaphore for ever only if the server
\* never blocks again (priority inversion: the show that holds it is below
\* the server).
WaitEndsUnlessServerSpins ==
  <>[]ServerReady \/ (led = "semaphore" ~> led = "command")

\* A client that leaves without Q takes the server with it: once the server
\* reads from a client that is gone it never serves anyone again.
Abandoned == pc = "receive" /\ ~close /\ left /\ inbox = <<>>

AbandonedForGood == [](Abandoned => []Abandoned)

\* simple_socket_server.c:211-216: a request that arrives while the
\* connection is in use is rejected by closing the new socket.
RequestRejected == conn /\ requests > 0 ~> requests = 0 \/ ~conn
=============================================================================
