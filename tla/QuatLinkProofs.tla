---------------------------- MODULE QuatLinkProofs ----------------------------
(***************************************************************************)
(* What the connection of feeder and board keeps safe, for every length of *)
(* a message and every capacity.  The liveness properties of QuatLink stay *)
(* with TLC; proved here is what a single step can never do, which is what *)
(* makes the deadlock of feeder and board final.                           *)
(***************************************************************************)
EXTENDS QuatLink, TLAPS

\* The end of a connection begins at the feeder: nothing is torn down before
\* its process has ended, the board's socket is reset only by a reset that
\* was sent, and a board without a connection holds no data.
ConnInv ==
  /\ teardown # "none" => feeder = "dead" /\ conn # "none"
  /\ conn = "reset" => teardown = "rst" /\ down = 0 /\ up = 0
  /\ conn = "none" => pc \in {"connect", "exit"} /\ down = 0 /\ up = 0
                      /\ feeder # "sending"
  /\ pc = "connect" => conn = "none"
  /\ conn = "connected" /\ feeder = "dead" => teardown # "none"

LinkInv == TypeOK /\ ConnInv

LEMMA InitLinkInv == Init => LinkInv
BY LinkAssumption DEF Init, LinkInv, TypeOK, ConnInv

LEMMA LinkStep ==
  ASSUME LinkInv, [Next]_vars
  PROVE  LinkInv'
<1>a. {MsgLen, BufLen, DownCap, UpCap} \subseteq Nat \ {0}
  BY LinkAssumption
<1>t. TypeOK /\ ConnInv
  BY DEF LinkInv
<1> USE DEF TypeOK, ConnInv
<1>1. ASSUME ConnectOK \/ ConnectFails \/ Accept \/ FeederEnds \/ UNCHANGED vars
      PROVE  TypeOK' /\ ConnInv'
  BY <1>t, <1>1 DEF ConnectOK, ConnectFails, Accept, FeederEnds, vars
<1>2. ASSUME Recv0 \/ Recv1 \/ Recv2
      PROVE  TypeOK' /\ ConnInv'
  <2>1. \/ conn = "connected" /\ down' \in 0 .. down
        \/ conn = "reset" /\ down' = down
    BY <1>a, <1>t, <1>2 DEF Recv0, Recv1, Recv2, RecvReturns, RecvFails,
                            RecvData, RecvEOF, RecvError
  <2>2. /\ pc \in {"recv0", "recv1", "recv2"}
        /\ pc' \in {"recv1", "recv2", "send", "exit"}
        /\ UNCHANGED <<feeder, msgpos, up, conn, teardown>>
    BY <1>2 DEF Recv0, Recv1, Recv2
  <2> QED BY <1>a, <1>t, <2>1, <2>2
<1>3. ASSUME SendAccepted PROVE TypeOK' /\ ConnInv'
  <2>1. up' \in 0 .. UpCap + BufLen - 1
    BY <1>a, <1>t, <1>3 DEF SendAccepted, RoomToSend
  <2> QED BY <1>t, <1>3, <2>1 DEF SendAccepted
<1>4. ASSUME SendFails PROVE TypeOK' /\ ConnInv'
  BY <1>t, <1>4 DEF SendFails
<1>5. ASSUME FeederSends PROVE TypeOK' /\ ConnInv'
  <2>1. msgpos' \in 0 .. MsgLen - 1
    BY <1>a, <1>t, <1>5 DEF FeederSends
  <2>2. down' \in 0 .. DownCap
    BY <1>a, <1>t, <1>5 DEF FeederSends, FeederHasRoom
  <2> QED BY <1>t, <1>5, <2>1, <2>2 DEF FeederSends, Unread
<1>6. ASSUME DataAfterFin \/ ResetArrives PROVE TypeOK' /\ ConnInv'
  BY <1>a, <1>t, <1>6 DEF DataAfterFin, ResetArrives
<1> HIDE DEF TypeOK, ConnInv
<1> QED BY <1>1, <1>2, <1>3, <1>4, <1>5, <1>6 DEF Next, Board, LinkInv

LEMMA LinkInvariant == Spec => []LinkInv
BY InitLinkInv, LinkStep, PTL DEF Spec

-----------------------------------------------------------------------------
\* TypeOK, proved: in particular a reply never finds more than UpCap - 1
\* units before it, whatever the capacities (sosend).
THEOREM LinkTypes == Spec => []TypeOK
<1>1. LinkInv => TypeOK  BY DEF LinkInv
<1> QED BY <1>1, LinkInvariant, PTL

\* The board's loop has no end of its own: a board that has left it either
\* never had a connection or lost its feeder (iniche_init.c, the while (1)
\* and its two checked receives).
ExitsOnlyAlone ==
  pc = "exit" => \/ conn = "none"
                 \/ conn = "reset" /\ feeder = "dead"

\* The same as ExitsOnlyAlone with what it takes: no exit while connected.
ExitInv == pc = "exit" => conn # "connected"

THEOREM BoardExitsAlone == Spec => []ExitsOnlyAlone
<1>1. Init => ExitInv
  BY DEF Init, ExitInv
<1>2. LinkInv /\ ExitInv /\ [Next]_vars => ExitInv'
  BY DEF LinkInv, ConnInv, ExitInv, Next, Board, ConnectOK, ConnectFails,
         Recv0, Recv1, Recv2, RecvFails, RecvError, SendAccepted, SendFails,
         Accept, FeederSends, FeederEnds, DataAfterFin, ResetArrives, vars
<1>3. LinkInv /\ ExitInv => ExitsOnlyAlone
  BY DEF LinkInv, TypeOK, ConnInv, ExitInv, ExitsOnlyAlone
<1> QED BY <1>1, <1>2, <1>3, LinkInvariant, PTL DEF Spec

\* Nobody reads what the board sends: the units towards the feeder never
\* become fewer, until a reset from the feeder's host throws them away
\* (server/test.py:98 is behind an endless loop).
RepliesPileUp ==
  [][up' < up => /\ feeder = "dead" /\ teardown = "rst"
                 /\ conn' = "reset" /\ up' = 0]_vars

THEOREM NobodyReads == Spec => RepliesPileUp
<1>1. LinkInv /\ [Next]_vars
        => [up' < up => /\ feeder = "dead" /\ teardown = "rst"
                        /\ conn' = "reset" /\ up' = 0]_vars
  <2> SUFFICES ASSUME LinkInv, Next, up' < up
               PROVE  /\ feeder = "dead" /\ teardown = "rst"
                      /\ conn' = "reset" /\ up' = 0
    BY DEF vars
  <2>1. up \in Nat /\ BufLen \in Nat
    BY LinkAssumption DEF LinkInv, TypeOK
  <2>2. ResetArrives
    BY <2>1 DEF Next, Board, ConnectOK, ConnectFails, Recv0, Recv1, Recv2,
                SendAccepted, SendFails, Accept, FeederSends, Unread,
                FeederEnds, DataAfterFin
  <2> QED BY <2>2 DEF ResetArrives, LinkInv, ConnInv
<1> QED BY <1>1, LinkInvariant, PTL DEF Spec, RepliesPileUp

\* A board blocked in send stays there until the feeder's process has ended,
\* and so does a feeder that blocks with it: neither side can end what the
\* two have brought about (sosend, the endless loop of server/test.py).
DeadlockIsFinal ==
  [][BoardBlocked =>
       /\ BoardBlocked' \/ feeder = "dead"
       /\ FeederBlocked => FeederBlocked' \/ feeder' = "dead"]_vars

THEOREM BlockedForGood == Spec => DeadlockIsFinal
<1>1. LinkInv /\ [Next]_vars
        => [BoardBlocked =>
              /\ BoardBlocked' \/ feeder = "dead"
              /\ FeederBlocked => FeederBlocked' \/ feeder' = "dead"]_vars
  <2> SUFFICES ASSUME LinkInv, Next, BoardBlocked
               PROVE  /\ BoardBlocked' \/ feeder = "dead"
                      /\ FeederBlocked => FeederBlocked' \/ feeder' = "dead"
    BY DEF vars
  <2>1. pc = "send" /\ conn = "connected" /\ ~RoomToSend
    BY DEF BoardBlocked
  <2>2. Accept \/ FeederSends \/ FeederEnds \/ DataAfterFin \/ ResetArrives
    BY <2>1 DEF Next, Board, ConnectOK, ConnectFails, Recv0, Recv1, Recv2,
                SendAccepted, SendFails, MayFail
  <2>3. CASE ResetArrives
    BY <2>3 DEF ResetArrives, LinkInv, ConnInv, FeederBlocked
  <2>4. ASSUME Accept \/ FeederSends \/ FeederEnds \/ DataAfterFin
        PROVE  BoardBlocked'
    BY <2>1, <2>4 DEF Accept, FeederSends, FeederEnds, DataAfterFin, Unread,
                      BoardBlocked, RoomToSend
  <2>5. ASSUME FeederBlocked,
               Accept \/ FeederSends \/ FeederEnds \/ DataAfterFin
        PROVE  FeederBlocked' \/ feeder' = "dead"
    <3>1. ~FeederSends
      BY <2>5, LinkAssumption DEF FeederBlocked, FeederSends, FeederHasRoom
    <3> QED BY <2>5, <3>1 DEF FeederBlocked, Accept, FeederEnds, DataAfterFin
  <2> QED BY <2>2, <2>3, <2>4, <2>5
<1> QED BY <1>1, LinkInvariant, PTL DEF Spec, DeadlockIsFinal
=============================================================================
