------------------------------ MODULE QuatLink ------------------------------
(***************************************************************************)
(* The TCP connection between the feeder (server/test.py on a PC, which    *)
(* listens and sends quaternions) and the board (SSSInitialTask of         *)
(* fpga/software/server1/iniche_init.c, which connects, receives and       *)
(* sends its buffer back).                                                 *)
(*                                                                         *)
(* The two directions of the connection are byte streams cut into units:   *)
(* only how many units are on the way matters, down to the board and up to *)
(* the feeder, each bounded by the socket buffers at both ends.  A recv of *)
(* the board takes any number of the units that are there, up to its       *)
(* buffer, because nothing in the stream marks where one quaternion ends.  *)
(*                                                                         *)
(* The coprocessor accesses of an iteration are part of the receive that   *)
(* precedes them; what they do is in CalcMaster.  Outside the model: a     *)
(* network that stops delivering without an error (nothing times it out).  *)
(***************************************************************************)
EXTENDS Integers

CONSTANTS
  MsgLen,     \* units in str(quaternion[i])
  BufLen,     \* units in the board's buffer[80]
  DownCap,    \* units the connection holds towards the board
  UpCap       \* units the connection holds towards the feeder

ASSUME LinkAssumption ==
  {MsgLen, BufLen, DownCap, UpCap} \subseteq Nat \ {0}

VARIABLES
  feeder,     \* test.py: before accept, in the while loop, or gone
  msgpos,     \* units of the current message that send() has taken
  down, up,   \* units on the way to the board and to the feeder
  conn,       \* the board's socket
  teardown,   \* what the feeder's host has sent to end the connection
  pc          \* the board's next socket call

vars == <<feeder, msgpos, down, up, conn, teardown, pc>>

TypeOK ==
  /\ feeder \in {"listening", "sending", "dead"}
  /\ msgpos \in 0 .. MsgLen - 1
  /\ down \in 0 .. DownCap
  /\ up \in 0 .. UpCap + BufLen - 1
  /\ conn \in {"none", "connected", "reset"}
  /\ teardown \in {"none", "fin", "rst"}
  /\ pc \in {"connect", "recv0", "recv1", "recv2", "send", "exit"}

Init ==
  /\ feeder = "listening"
  /\ msgpos = 0
  /\ down = 0 /\ up = 0
  /\ conn = "none" /\ teardown = "none"
  /\ pc = "connect"

-----------------------------------------------------------------------------
(* The board                                                               *)

\* connect succeeds when the feeder's kernel completes the handshake, which
\* takes a listening socket, not a call of accept.
ConnectOK ==
  /\ pc = "connect"
  /\ feeder = "listening"
  /\ conn' = "connected"
  /\ pc' = "recv0"
  /\ UNCHANGED <<feeder, msgpos, down, up, teardown>>

\* connect is refused or times out: the board closes the socket and exits.
ConnectFails ==
  /\ pc = "connect"
  /\ pc' = "exit"
  /\ UNCHANGED <<feeder, msgpos, down, up, conn, teardown>>

\* The outcomes of recv on the board: data, end of file (0), error (-1).
RecvData ==
  /\ conn = "connected"
  /\ \E k \in 1 .. BufLen : k <= down /\ down' = down - k
RecvEOF ==
  /\ conn = "connected" /\ teardown = "fin"
  /\ down = 0 /\ down' = 0
RecvError ==
  /\ conn = "reset"
  /\ UNCHANGED down

\* Only a negative result counts as a failure; end of file passes for data.
\* (Mutant: a call that ignores errors.)
RecvFails == RecvError

AnyResult == RecvData \/ RecvEOF \/ RecvError
RecvReturns == RecvData \/ RecvEOF

\* The first receive of an iteration, whose data the second one overwrites.
Recv0 ==
  /\ pc = "recv0"
  /\ \/ RecvReturns /\ pc' = "recv1"
     \/ RecvFails /\ pc' = "exit"
  /\ UNCHANGED <<feeder, msgpos, up, conn, teardown>>

\* "First quaternion", followed by four writes of the coprocessor.
Recv1 ==
  /\ pc = "recv1"
  /\ \/ RecvReturns /\ pc' = "recv2"
     \/ RecvFails /\ pc' = "exit"
  /\ UNCHANGED <<feeder, msgpos, up, conn, teardown>>

\* "Second quaternion": an error is shown on the LCD and ignored.  Then four
\* writes of the coprocessor, a pause and four reads.
Recv2 ==
  /\ pc = "recv2"
  /\ RecvReturns \/ RecvError
  /\ pc' = "send"
  /\ UNCHANGED <<feeder, msgpos, up, conn, teardown>>

\* send of the whole buffer.  The stack takes all of it as soon as there is
\* any room, blocks the task while there is none, and fails when the
\* connection is reset or it finds no packet buffer; the failure is shown on
\* the LCD and ignored.  (Mutants: a send that never sees a full buffer; a
\* socket that is not blocking, whose send fails on a full buffer.)
NeverFull == TRUE
RoomToSend == up < UpCap

NonBlocking == TRUE
MayFail == RoomToSend

SendAccepted ==
  /\ pc = "send"
  /\ conn = "connected"
  /\ RoomToSend
  /\ up' = up + BufLen
  /\ pc' = "recv0"
  /\ UNCHANGED <<feeder, msgpos, down, conn, teardown>>

SendFails ==
  /\ pc = "send"
  /\ \/ conn = "reset"
     \/ conn = "connected" /\ MayFail
  /\ pc' = "recv0"
  /\ UNCHANGED <<feeder, msgpos, down, up, conn, teardown>>

-----------------------------------------------------------------------------
(* The feeder and the kernel under it                                      *)

Accept ==
  /\ feeder = "listening"
  /\ conn = "connected"
  /\ feeder' = "sending"
  /\ UNCHANGED <<msgpos, down, up, conn, teardown, pc>>

\* The blocking send() of the endless loop moves one more unit of the current
\* message into the connection; at the end of a message the next one starts.
\* The recv that follows the loop is never reached, so the replies stay where
\* they are.  (Mutant: a recv in the loop.)
Read == 0
Unread == up

FeederHasRoom == down < DownCap

FeederSends ==
  /\ feeder = "sending"
  /\ FeederHasRoom
  /\ down' = down + 1
  /\ up' = Unread
  /\ msgpos' = (msgpos + 1) % MsgLen
  /\ UNCHANGED <<feeder, conn, teardown, pc>>

\* The process ends (Ctrl+C, an exception).  Its kernel closes an accepted
\* connection with FIN, unless data that nobody read is waiting or nobody
\* had accepted it: then it resets it.
FeederEnds ==
  /\ feeder # "dead"
  /\ feeder' = "dead"
  /\ teardown' = CASE conn = "none" -> "none"
                   [] feeder = "sending" /\ up = 0 -> "fin"
                   [] OTHER -> "rst"
  /\ UNCHANGED <<msgpos, down, up, conn, pc>>

\* Data for a process that is gone is answered with a reset.
DataAfterFin ==
  /\ teardown = "fin" /\ up > 0
  /\ teardown' = "rst"
  /\ UNCHANGED <<feeder, msgpos, down, up, conn, pc>>

\* The reset reaches the board: its socket is disconnected and what was on
\* the way is lost.
ResetArrives ==
  /\ teardown = "rst" /\ conn = "connected"
  /\ conn' = "reset"
  /\ down' = 0 /\ up' = 0
  /\ UNCHANGED <<feeder, msgpos, teardown, pc>>

-----------------------------------------------------------------------------
Board == ConnectOK \/ Recv0 \/ Recv1 \/ Recv2 \/ SendAccepted \/ SendFails

Next ==
  \/ Board \/ ConnectFails
  \/ Accept \/ FeederSends \/ FeederEnds
  \/ DataAfterFin \/ ResetArrives

Spec == Init /\ [][Next]_vars

(***************************************************************************)
(* Fairness: the board's task and the feeder run whenever they are not     *)
(* blocked (each is the only busy task of its processor), the network      *)
(* delivers, and a send with room is not refused for want of a packet      *)
(* buffer for ever; a connect that nobody answers fails in the end.        *)
(* Nothing forces the feeder to end, or a connect that is answered to      *)
(* fail.                                                                   *)
(***************************************************************************)
FairSpec ==
  /\ Spec
  /\ WF_vars(Board) /\ SF_vars(SendAccepted)
  /\ WF_vars(feeder = "dead" /\ ConnectFails)
  /\ WF_vars(Accept) /\ WF_vars(FeederSends)
  /\ WF_vars(DataAfterFin) /\ WF_vars(ResetArrives)

-----------------------------------------------------------------------------
(* Properties                                                              *)

BoardBlocked == pc = "send" /\ conn = "connected" /\ ~RoomToSend
FeederBlocked == feeder = "sending" /\ down = DownCap

\* The loop never runs for ever: the feeder's endless loop never reads, so
\* the replies fill the connection and the board stops in send, unless the
\* connection dies first and the board exits.
LoopComesToRest == <>[](BoardBlocked \/ pc = "exit")

\* Once the board blocks in send both sides are blocked, each waiting for the
\* other to read, and only the end of the feeder gets the board out of it.
BlockedTogether ==
  BoardBlocked ~> \/ [](BoardBlocked /\ FeederBlocked)
                  \/ feeder = "dead"

\* When the feeder ends, the board notices: end of file alone does not stop
\* its loop, but the reply it then sends is answered with a reset, and the
\* next checked receive fails.
FeederEndStopsBoard == feeder = "dead" ~> pc = "exit"

\* iniche_init.c:209 and :222 call what the second and the third recv return
\* "primeiro quaternion" and "segundo quaternion": each takes from the stream
\* one message of the feeder, from its first unit to its last.
Head == (msgpos - down) % MsgLen     \* where in a message the stream stands

RecvIsOneQuaternion ==
  [][conn = "connected" /\ pc \in {"recv1", "recv2"} /\ down' < down
     => Head = 0 /\ down - down' = MsgLen]_vars

\* relatorio/main.tex:78-79: having sent its tuples, the server waits for a
\* tuple from the board.  So what the board sends is eventually received.
ReplyIsRead == up > 0 ~> up = 0
=============================================================================
