---------------------------- MODULE ClockSyncProofs ----------------------------
(***************************************************************************)
(* For any senders, skews and delays: an accepted offset is off by at most *)
(* half of its error, a run that asks another sender than its own follows  *)
(* one that failed, and a sender whose SNTP thread is gone has got no      *)
(* socket, or suffers from a failure that has left one open.               *)
(*                                                                         *)
(* The times in a request, in the server's hands and in an answer are      *)
(* those of instants in this order that have passed (Passed), each on the  *)
(* clock of the device it was taken on; half the difference of what the    *)
(* two ways seem to take is then off by at most half of their sum.         *)
(***************************************************************************)
EXTENDS ClockSync, TLAPS

ARequest == [to : Senders, transmit : Int]
AnAnswer == [from : Senders, originate : Int, receive : Int, transmit : Int]

Even(t) == t % 2 = 0

BestType == [offset : Int, error : Nat, of : Senders \cup {NONE}]
ResultType == [err : {0, 1}, tv : Int]
DataType == [open : BOOLEAN, originate : Int, receive : Int]

\* TypeOK in parts.
TypeSenders ==
  /\ server \in [Senders -> {"off", "serving", "answering", "ended", "unopened"}]
  /\ bound \in [Senders -> BOOLEAN] /\ broken \in [Senders -> BOOLEAN]
  /\ data \in [Senders -> DataType] /\ streams \in Nat

TypeSession ==
  /\ isRunning \in BOOLEAN /\ sessions \in Nat /\ runs \in Nat
  /\ host \in Senders \cup {NONE} /\ lastOffsetUs \in Int /\ systemTimeOffset \in Int

TypeRun ==
  /\ client \in {"off", "check", "ask", "read", "apply", "wait"}
  /\ there \in Senders \cup {NONE}
  /\ outgoing \in Seq(Nat) /\ accepts \in Nat /\ rejects \in Nat /\ deadline \in Nat
  /\ best \in BestType /\ result \in ResultType

TypeNet == now \in Nat /\ net \subseteq ARequest \cup AnAnswer

\* Instants in their order, on the listener's clock.
Passed ==
  /\ Even(now)
  /\ \A m \in net \cap ARequest : Even(m.transmit) /\ m.transmit <= now
  /\ \A s \in Senders :
       /\ Even(data[s].originate) /\ Even(data[s].receive)
       /\ server[s] = "answering" =>
            /\ data[s].originate <= data[s].receive - Skew[s]
            /\ data[s].receive <= Clock(s)
  /\ \A m \in net \cap AnAnswer :
       /\ Even(m.originate) /\ Even(m.receive) /\ Even(m.transmit)
       /\ m.originate <= m.receive - Skew[m.from]
       /\ m.receive <= m.transmit
       /\ m.transmit <= Clock(m.from)

\* A socket that is open belongs to the run of this session, or was left by a
\* run that failed.
Sockets ==
  /\ client # "off" => host # NONE
  /\ there # NONE =>
       \/ result.err # 0
       \/ client \in {"ask", "read"} /\ there = host

\* That of a sender belongs to its thread, or was left by a failure.
ServerSocket(s) ==
  /\ (server[s] = "off" /\ bound[s]) \/ server[s] = "ended" => broken[s]
  /\ broken[s] => server[s] \in {"off", "ended"} /\ bound[s]
  /\ server[s] \in {"serving", "answering"} => bound[s]
  /\ server[s] = "unopened" => ~bound[s]

ServerSockets == \A s \in Senders : ServerSocket(s)

IInv == TypeSenders /\ TypeSession /\ TypeRun /\ TypeNet /\ Passed /\ WithinError /\ Sockets /\ ServerSockets

USE DEF listenVars, runVars, offsetVars, serverVars
-----------------------------------------------------------------------------
LEMMA TypeParts == TypeOK <=> TypeSenders /\ TypeSession /\ TypeRun /\ TypeNet
BY DEF TypeOK, TypeSenders, TypeSession, TypeRun, TypeNet, BestType, ResultType, DataType,
       ARequest, AnAnswer

LEMMA Datagrams ==
  ASSUME TypeNet, NEW m \in net
  PROVE  /\ IsAnswer(m) => m \in AnAnswer
         /\ ~IsAnswer(m) => m \in ARequest
<1>1. m \in ARequest \/ m \in AnAnswer
  BY DEF TypeNet
<1>2. m \in ARequest => ~IsAnswer(m)
  BY DEF ARequest, IsAnswer
<1>3. m \in AnAnswer => IsAnswer(m)
  BY DEF AnAnswer, IsAnswer
<1> QED BY <1>1, <1>2, <1>3

LEMMA Kinds == ARequest \cap AnAnswer = {}
<1>1. \A m \in ARequest : ~IsAnswer(m)
  BY DEF ARequest, IsAnswer
<1>2. \A m \in AnAnswer : IsAnswer(m)
  BY DEF AnAnswer, IsAnswer
<1> QED BY <1>1, <1>2

LEMMA EvenSum ==
  ASSUME NEW a \in Int, NEW b \in Int, Even(a), Even(b)
  PROVE  Even(a + b) /\ Even(a - b)
<1>1. PICK i \in Int : a = 2 * i
  BY DEF Even
<1>2. PICK j \in Int : b = 2 * j
  BY DEF Even
<1>3. a + b = 2 * (i + j) /\ a - b = 2 * (i - j)
  BY <1>1, <1>2
<1> QED BY <1>3 DEF Even

\* What one answer tells.
LEMMA EstimateWithin ==
  ASSUME NEW m \in AnAnswer, NEW t \in Int, t = now, Even(now),
         Even(m.originate), Even(m.receive), Even(m.transmit),
         m.originate <= m.receive - Skew[m.from], m.receive <= m.transmit,
         m.transmit <= Clock(m.from)
  PROVE  /\ Estimate(m).of = m.from /\ m.from \in Senders
         /\ Estimate(m).offset \in Int /\ Estimate(m).error \in Nat
         /\ 2 * Abs(Estimate(m).offset - Skew[m.from]) <= Estimate(m).error
<1> DEFINE S == Skew[m.from]
           x == m.receive - m.originate
           y == m.transmit - now
           half == (now - m.originate) \div 2
<1>1. /\ m.from \in Senders /\ m.originate \in Int /\ m.receive \in Int /\ m.transmit \in Int
      /\ now \in Int /\ S \in Int /\ S % 2 = 0
  BY ClockAssumption DEF AnAnswer
<1>2. /\ Estimate(m).of = m.from
      /\ Estimate(m).offset = (x + y) \div 2
      /\ Estimate(m).error = IF half > x - y THEN half ELSE x - y
  BY DEF Estimate
<1>3. x \in Int /\ y \in Int /\ half \in Int
  BY <1>1
<1>4. x >= S /\ y <= S
  BY <1>1 DEF Clock
<1>5. (x + y) % 2 = 0
  <2>1. Even(x) /\ Even(y)
    BY <1>1, EvenSum
  <2> QED BY <1>3, <2>1, EvenSum DEF Even
<1> HIDE DEF S, x, y, half
<1>6. PICK d \in Int : d = (x + y) \div 2
  BY <1>3
<1>7. 2 * d = x + y
  BY <1>3, <1>5, <1>6
<1>8. 2 * Abs(d - S) <= x - y
  BY <1>1, <1>3, <1>4, <1>7 DEF Abs
<1>9. x - y >= 0
  BY <1>1, <1>3, <1>4
<1>10. 2 * Abs(d - S) <= Estimate(m).error /\ Estimate(m).error \in Nat
  <2>1. Abs(d - S) \in Int
    BY <1>1 DEF Abs
  <2> QED BY <1>2, <1>3, <1>8, <1>9, <2>1
<1> QED BY <1>1, <1>2, <1>6, <1>10 DEF S

LEMMA Requests ==
  \* The outgoing requests, some of them answered or one more, are a sequence of times.
  ASSUME NEW q \in Seq(Nat), NEW T
  PROVE  [i \in DOMAIN q |-> IF i \in T THEN 0 ELSE q[i]] \in Seq(Nat)
<1>1. Len(q) \in Nat /\ DOMAIN q = 1 .. Len(q) /\ \A i \in DOMAIN q : q[i] \in Nat
  OBVIOUS
<1> DEFINE r == [i \in DOMAIN q |-> IF i \in T THEN 0 ELSE q[i]]
<1>2. r \in [1 .. Len(q) -> Nat]
  BY <1>1
<1> QED BY <1>1, <1>2

LEMMA InitIInv == Init => IInv
<1> SUFFICES ASSUME Init PROVE IInv
  OBVIOUS
<1>1. TypeSenders
  <2>1. NoData \in DataType
    BY DEF NoData, DataType
  <2> QED BY <2>1 DEF Init, TypeSenders
<1>5. TypeSession
  <2>1. isRunning \in BOOLEAN
    BY Zenon DEF Init
  <2>2. sessions \in Nat /\ runs \in Nat /\ lastOffsetUs \in Int /\ systemTimeOffset \in Int
    BY DEF Init
  <2>3. host \in Senders \cup {NONE}
    BY DEF Init
  <2> QED BY <2>1, <2>2, <2>3 DEF TypeSession
<1>4. TypeRun /\ TypeNet
  BY ClockAssumption DEF Init, TypeRun, TypeNet, BestType, ResultType, NoEstimate
<1>2. Passed
  BY DEF Init, Passed, NoData, Even
<1>3. WithinError /\ Sockets /\ ServerSockets
  BY DEF Init, WithinError, NoEstimate, Sockets, ServerSockets, ServerSocket
<1> QED BY <1>1, <1>2, <1>3, <1>4, <1>5 DEF IInv
-----------------------------------------------------------------------------
LEMMA TickStep ==
  ASSUME IInv, Tick
  PROVE  IInv'
<1>1. TypeSenders /\ TypeSession /\ TypeRun /\ TypeNet /\ Passed /\ WithinError /\ Sockets /\ ServerSockets
  BY DEF IInv
<1>2. /\ now \in Nat /\ now' = now + 2
      /\ UNCHANGED <<net, listenVars, runVars, offsetVars, serverVars>>
  BY <1>1 DEF Tick, TypeNet
<1>3. TypeSenders' /\ TypeSession' /\ TypeRun' /\ TypeNet'
  BY <1>1, <1>2 DEF TypeSenders, TypeSession, TypeRun, TypeNet
<1>4. Passed'
  <2>1. Even(now') /\ now <= now'
    BY <1>1, <1>2 DEF Passed, Even
  <2>2. \A m \in net \cap ARequest : m.transmit \in Int
    BY DEF ARequest
  <2>3. \A m \in net \cap AnAnswer : m.transmit \in Int /\ m.from \in Senders
    BY DEF AnAnswer
  <2>4. \A s \in Senders : /\ Skew[s] \in Int /\ Clock(s) \in Int /\ Clock(s)' = now' + Skew[s]
                           /\ Clock(s) <= Clock(s)' /\ data[s].receive \in Int
    <3> SUFFICES ASSUME NEW s \in Senders
                 PROVE  /\ Skew[s] \in Int /\ Clock(s) \in Int /\ Clock(s)' = now' + Skew[s]
                        /\ Clock(s) <= Clock(s)' /\ data[s].receive \in Int
      OBVIOUS
    <3>1. Skew[s] \in Int
      BY ClockAssumption
    <3>2. data[s].receive \in Int
      BY <1>1 DEF TypeSenders, DataType
    <3> QED BY <1>2, <3>1, <3>2 DEF Clock
  <2>5. \A m \in net \cap ARequest : m.transmit <= now'
    BY <1>1, <1>2, <2>1, <2>2 DEF Passed
  <2>6. \A s \in Senders : server[s] = "answering" => data[s].receive <= Clock(s)'
    <3> SUFFICES ASSUME NEW s \in Senders, server[s] = "answering"
                 PROVE  data[s].receive <= Clock(s)'
      OBVIOUS
    <3>1. data[s].receive <= Clock(s)
      BY <1>1 DEF Passed
    <3>2. Clock(s)' \in Int
      BY <1>2, <2>4
    <3> QED BY <2>4, <3>1, <3>2
  <2>7. \A m \in net \cap AnAnswer : m.transmit <= Clock(m.from)'
    <3> SUFFICES ASSUME NEW m \in net \cap AnAnswer PROVE m.transmit <= Clock(m.from)'
      OBVIOUS
    <3>1. m.transmit <= Clock(m.from)
      BY <1>1 DEF Passed
    <3>2. Clock(m.from)' \in Int
      BY <1>2, <2>3, <2>4
    <3> QED BY <2>3, <2>4, <3>1, <3>2
  <2> QED BY <1>1, <1>2, <2>1, <2>5, <2>6, <2>7 DEF Passed
<1>5. WithinError' /\ Sockets' /\ ServerSockets'
  BY <1>1, <1>2 DEF WithinError, Sockets, ServerSockets, ServerSocket
<1> QED BY <1>3, <1>4, <1>5 DEF IInv

LEMMA StartStopServerStep ==
  ASSUME IInv, NEW s \in Senders,
         StartServer(s) \/ AlreadyOpen(s) \/ SocketFails(s) \/ BindFails(s) \/ StopServer(s)
  PROVE  IInv'
<1>1. TypeSenders /\ TypeSession /\ TypeRun /\ TypeNet /\ Passed /\ WithinError /\ Sockets /\ ServerSockets
  BY DEF IInv
<1>2. ServerSocket(s) /\ bound[s] \in BOOLEAN
  BY <1>1 DEF ServerSockets, TypeSenders
<1>3. PICK outcome \in {"off", "serving", "ended", "unopened"} :
        /\ UNCHANGED <<now, listenVars, runVars, offsetVars, data>>
        /\ net' \subseteq net /\ streams' \in Nat
        /\ server' = [server EXCEPT ![s] = outcome]
  BY <1>1 DEF StartServer, AlreadyOpen, SocketFails, BindFails, Begins, StopServer, TypeSenders
<1>4. /\ bound' = bound \/ bound' = [bound EXCEPT ![s] = TRUE]
                         \/ bound' = [bound EXCEPT ![s] = FALSE]
      /\ broken' = broken \/ broken' = [broken EXCEPT ![s] = TRUE]
  BY DEF StartServer, AlreadyOpen, SocketFails, BindFails, StopServer
<1>5. TypeSenders' /\ TypeSession' /\ TypeRun' /\ TypeNet'
  BY <1>1, <1>3, <1>4 DEF TypeSenders, TypeSession, TypeRun, TypeNet
<1>6. \A r \in Senders : r # s => /\ server'[r] = server[r]
                                  /\ bound'[r] = bound[r] /\ broken'[r] = broken[r]
  BY <1>1, <1>3, <1>4 DEF TypeSenders
<1>7. server'[s] # "answering"
  BY <1>1, <1>3 DEF TypeSenders
<1>8. Passed'
  BY <1>1, <1>3, <1>6, <1>7 DEF Passed, Clock
<1>9. WithinError' /\ Sockets'
  BY <1>1, <1>3 DEF WithinError, Sockets
<1>10. ServerSocket(s)'
  <2>1. CASE StartServer(s)
    BY <1>1, <1>2, <2>1 DEF StartServer, Begins, TypeSenders, ServerSocket
  <2>2. CASE AlreadyOpen(s)
    BY <1>1, <1>2, <2>2 DEF AlreadyOpen, Begins, TypeSenders, ServerSocket
  <2>3. CASE SocketFails(s)
    BY <1>1, <1>2, <2>3 DEF SocketFails, Begins, TypeSenders, ServerSocket
  <2>4. CASE BindFails(s)
    BY <1>1, <1>2, <2>4 DEF BindFails, Begins, TypeSenders, ServerSocket
  <2>5. CASE StopServer(s)
    <3>1. CASE server[s] = "serving"
      BY <1>1, <1>2, <2>5, <3>1 DEF StopServer, TypeSenders, ServerSocket
    <3>2. CASE server[s] # "serving"
      <4>1. /\ server[s] \in {"ended", "unopened"} /\ server'[s] = "off"
            /\ bound' = bound /\ broken' = broken
        BY <1>1, <2>5, <3>2 DEF StopServer, TypeSenders
      <4> QED BY <1>2, <4>1 DEF ServerSocket
    <3> QED BY <3>1, <3>2
  <2> QED BY <2>1, <2>2, <2>3, <2>4, <2>5
<1>11. ServerSockets'
  BY <1>1, <1>6, <1>10 DEF ServerSockets, ServerSocket
<1> QED BY <1>5, <1>8, <1>9, <1>11 DEF IInv

LEMMA ServeStep ==
  ASSUME IInv, NEW s \in Senders, NEW m \in net, Serve(s, m)
  PROVE  IInv'
<1>1. TypeSenders /\ TypeSession /\ TypeRun /\ TypeNet /\ Passed /\ WithinError /\ Sockets /\ ServerSockets
  BY DEF IInv
<1>2. /\ UNCHANGED <<now, net, listenVars, runVars, offsetVars, bound, broken, streams>>
      /\ server' = [server EXCEPT ![s] = "answering"]
      /\ data' = [data EXCEPT ![s] = Data(m.transmit, Clock(s))]
      /\ m \in ARequest /\ m.to = s
  BY <1>1, Datagrams DEF Serve
<1>3. /\ m.transmit \in Int /\ Clock(s) \in Int /\ now \in Nat
      /\ Skew[s] \in Int /\ Even(Skew[s])
  <2>1. m.transmit \in Int /\ now \in Nat
    BY <1>1, <1>2 DEF ARequest, TypeNet
  <2>2. Skew[s] \in Int /\ Even(Skew[s])
    BY ClockAssumption DEF Even
  <2> QED BY <2>1, <2>2 DEF Clock
<1>4. TypeSenders' /\ TypeSession' /\ TypeRun' /\ TypeNet'
  <2>1. Data(m.transmit, Clock(s)) \in DataType
    BY <1>3 DEF Data, DataType
  <2> QED BY <1>1, <1>2, <2>1 DEF TypeSenders, TypeSession, TypeRun, TypeNet
<1>5. Passed'
  <2>1. Even(m.transmit) /\ m.transmit <= now /\ Even(Clock(s))
    <3>1. Even(now) /\ Even(m.transmit) /\ m.transmit <= now
      BY <1>1, <1>2 DEF Passed
    <3>2. Even(now + Skew[s])
      <4>1. now \in Int /\ Skew[s] \in Int /\ Even(Skew[s])
        BY <1>3
      <4> QED BY <3>1, <4>1, EvenSum
    <3> QED BY <3>1, <3>2 DEF Clock
  <2>2. /\ data'[s] = Data(m.transmit, Clock(s))
        /\ \A r \in Senders : r # s => data'[r] = data[r] /\ server'[r] = server[r]
    BY <1>1, <1>2 DEF TypeSenders
  <2>3. /\ Even(data'[s].originate) /\ Even(data'[s].receive)
        /\ data'[s].originate <= data'[s].receive - Skew[s]
        /\ data'[s].receive <= Clock(s)
    BY <1>3, <2>1, <2>2 DEF Data, Clock
  <2> QED BY <1>1, <1>2, <2>2, <2>3 DEF Passed, Clock
<1>6. WithinError' /\ Sockets'
  BY <1>1, <1>2 DEF WithinError, Sockets
<1>7. ServerSockets'
  <2>1. server[s] = "serving"
    BY DEF Serve
  <2> QED BY <1>1, <1>2, <2>1 DEF ServerSockets, ServerSocket, TypeSenders
<1> QED BY <1>4, <1>5, <1>6, <1>7 DEF IInv

LEMMA AnswerStep ==
  ASSUME IInv, NEW s \in Senders, WriteAnswer(s)
  PROVE  IInv'
<1>1. TypeSenders /\ TypeSession /\ TypeRun /\ TypeNet /\ Passed /\ WithinError /\ Sockets /\ ServerSockets
  BY DEF IInv
<1> DEFINE a == MakePacket(s)
<1>2. /\ UNCHANGED <<now, listenVars, runVars, offsetVars, bound, broken, streams>>
      /\ server[s] = "answering"
      /\ data' = [data EXCEPT ![s] = NoData]
      /\ net' \subseteq net \cup {a}
      /\ server' = [server EXCEPT ![s] = "serving"]
  BY DEF WriteAnswer
<1>3. /\ data[s].originate \in Int /\ data[s].receive \in Int
      /\ Clock(s) \in Int /\ now \in Nat /\ Skew[s] \in Int /\ Even(Skew[s])
  <2>1. data[s].originate \in Int /\ data[s].receive \in Int /\ now \in Nat
    BY <1>1 DEF TypeSenders, DataType, TypeNet
  <2>2. Skew[s] \in Int /\ Even(Skew[s])
    BY ClockAssumption DEF Even
  <2> QED BY <2>1, <2>2 DEF Clock
<1>4. /\ a \in AnAnswer /\ a.from = s /\ a.originate = data[s].originate
      /\ a.receive = data[s].receive /\ a.transmit = Clock(s)
  BY <1>3 DEF MakePacket, Answer, AnAnswer
<1> HIDE DEF a
<1>5. TypeSenders' /\ TypeSession' /\ TypeRun' /\ TypeNet'
  <2>1. NoData \in DataType
    BY DEF NoData, DataType
  <2> QED BY <1>1, <1>2, <1>4, <2>1 DEF TypeSenders, TypeSession, TypeRun, TypeNet
<1>6. Passed'
  <2>1. a \notin ARequest
    BY <1>4, Kinds
  <2>2. Even(Clock(s)) /\ Even(a.originate) /\ Even(a.receive) /\ Even(a.transmit)
    <3>1. Even(now) /\ Even(data[s].originate) /\ Even(data[s].receive)
      BY <1>1 DEF Passed
    <3>2. Even(now + Skew[s])
      <4>1. now \in Int /\ Skew[s] \in Int /\ Even(Skew[s])
        BY <1>3
      <4> QED BY <3>1, <4>1, EvenSum
    <3> QED BY <1>4, <3>1, <3>2 DEF Clock
  <2>3. a.originate <= a.receive - Skew[a.from] /\ a.receive <= a.transmit
        /\ a.transmit <= Clock(a.from)
    BY <1>1, <1>2, <1>3, <1>4 DEF Passed
  <2>4. \A r \in Senders :
          /\ data'[r] = IF r = s THEN NoData ELSE data[r]
          /\ r # s => server'[r] = server[r]
          /\ server'[s] # "answering"
    BY <1>1, <1>2 DEF TypeSenders
  <2>5. Even(0)
    BY DEF Even
  <2> QED BY <1>1, <1>2, <1>4, <2>1, <2>2, <2>3, <2>4, <2>5 DEF Passed, Clock, NoData
<1>7. WithinError' /\ Sockets'
  BY <1>1, <1>2 DEF WithinError, Sockets
<1>8. ServerSockets'
  BY <1>1, <1>2 DEF ServerSockets, ServerSocket, TypeSenders
<1> QED BY <1>5, <1>6, <1>7, <1>8 DEF IInv

LEMMA BreaksStep ==
  ASSUME IInv, NEW s \in Senders, WriteFails(s) \/ RejectRequest(s)
  PROVE  IInv'
<1>1. TypeSenders /\ TypeSession /\ TypeRun /\ TypeNet /\ Passed /\ WithinError /\ Sockets /\ ServerSockets
  BY DEF IInv
<1>2. /\ server[s] \in {"serving", "answering"}
      /\ UNCHANGED <<now, net, listenVars, runVars, offsetVars, bound, streams>>
      /\ server' = [server EXCEPT ![s] = "ended"]
      /\ data' = [data EXCEPT ![s] = NoData]
      /\ broken' = [broken EXCEPT ![s] = TRUE]
  BY DEF WriteFails, RejectRequest, Breaks
<1>3. TypeSenders' /\ TypeSession' /\ TypeRun' /\ TypeNet'
  <2>1. NoData \in DataType
    BY DEF NoData, DataType
  <2> QED BY <1>1, <1>2, <2>1 DEF TypeSenders, TypeSession, TypeRun, TypeNet
<1>4. Passed'
  <2>1. \A r \in Senders :
          /\ data'[r] = IF r = s THEN NoData ELSE data[r]
          /\ r # s => server'[r] = server[r]
          /\ server'[s] # "answering"
    BY <1>1, <1>2 DEF TypeSenders
  <2>2. Even(0)
    BY DEF Even
  <2> QED BY <1>1, <1>2, <2>1, <2>2 DEF Passed, Clock, NoData
<1>5. WithinError' /\ Sockets'
  BY <1>1, <1>2 DEF WithinError, Sockets
<1>6. ServerSockets'
  BY <1>1, <1>2 DEF ServerSockets, ServerSocket, TypeSenders
<1> QED BY <1>3, <1>4, <1>5, <1>6 DEF IInv
-----------------------------------------------------------------------------
(* The listener.                                                           *)

\* Steps that leave the senders, their clocks and their answers alone.
LEMMA PassedStep ==
  ASSUME Passed, UNCHANGED <<now, server>>,
         \A s \in Senders : /\ data'[s].originate = data[s].originate
                            /\ data'[s].receive = data[s].receive,
         net' \subseteq net
  PROVE  Passed'
BY DEF Passed, Clock

LEMMA SessionStep ==
  ASSUME IInv,
         \/ Stop \/ ThreadEnds \/ GetOffset \/ FlushFails \/ TooLate \/ TimeOut \/ ApplyOffset
         \/ WaitInterval \/ \E s \in Senders : StartReceiving(s)
  PROVE  IInv'
<1>1. TypeSenders /\ TypeSession /\ TypeRun /\ TypeNet /\ Passed /\ WithinError /\ Sockets /\ ServerSockets
  BY DEF IInv
<1>2. UNCHANGED <<now, net, serverVars>>
  BY DEF Stop, ThreadEnds, GetOffset, FlushFails, TooLate, TimeOut, ApplyOffset, WaitInterval,
         StartReceiving, Reject, Fails, NextRound
<1>3. TypeSenders' /\ TypeNet'
  BY <1>1, <1>2 DEF TypeSenders, TypeNet
<1>9. TypeSession'
  <2>1. CASE ApplyOffset
    <3>1. result.tv \in Int /\ lastOffsetUs \in Int
      BY <1>1 DEF TypeRun, TypeSession, ResultType
    <3>2. \A x \in Int : Quotient(x, 2) \in Int
      BY DEF Quotient
    <3>3. lastOffsetUs' \in Int /\ systemTimeOffset' \in Int
      BY <2>1, <3>1, <3>2 DEF ApplyOffset
    <3> QED BY <1>1, <2>1, <3>3 DEF ApplyOffset, TypeSession
  <2>2. CASE GetOffset
    BY <1>1, <2>2 DEF GetOffset, TypeSession
  <2>3. CASE \E s \in Senders : StartReceiving(s)
    BY <1>1, <2>3 DEF StartReceiving, TypeSession
  <2>4. CASE Stop \/ ThreadEnds
    BY <1>1, <2>4 DEF Stop, ThreadEnds, TypeSession
  <2>5. CASE FlushFails \/ TooLate \/ TimeOut \/ WaitInterval
    BY <1>1, <2>5 DEF FlushFails, TooLate, TimeOut, WaitInterval, TypeSession
  <2> QED BY <2>1, <2>2, <2>3, <2>4, <2>5
<1>10. TypeRun'
  <2>1. CASE GetOffset
    <3>1. now \in Nat /\ delay \in Nat
      BY <1>1, ClockAssumption DEF TypeNet
    <3>2. now + delay \in Nat
      BY <3>1
    <3>3. there' \in Senders \cup {NONE}
      BY <1>1, <2>1 DEF GetOffset, TypeRun, TypeSession
    <3> QED BY <1>1, <2>1, <3>2, <3>3 DEF GetOffset, TypeRun
  <2>2. CASE TimeOut
    BY <1>1, <2>2 DEF TimeOut, Reject, Fails, NextRound, TypeRun, ResultType
  <2>3. CASE TooLate
    BY <1>1, <2>3 DEF TooLate, Fails, TypeRun, ResultType
  <2>4. CASE WaitInterval
    BY <1>1, <2>4, ClockAssumption DEF WaitInterval, TypeRun, NoEstimate, BestType
  <2>5. CASE Stop \/ ThreadEnds \/ ApplyOffset \/ \E s \in Senders : StartReceiving(s)
    BY <1>1, <2>5 DEF Stop, ThreadEnds, ApplyOffset, StartReceiving, TypeRun
  <2>6. CASE FlushFails
    <3>1. now \in Nat /\ outgoing \in Seq(Nat)
      BY <1>1 DEF TypeNet, TypeRun
    <3>2. Append(outgoing, now) \in Seq(Nat)
      BY <3>1
    <3> QED BY <1>1, <2>6, <3>2 DEF FlushFails, Fails, TypeRun, ResultType
  <2> QED BY <2>1, <2>2, <2>3, <2>4, <2>5, <2>6
<1>4. Passed'
  BY <1>1, <1>2, PassedStep
<1>5. WithinError'
  <2>1. best' = best \/ best' = NoEstimate
    BY DEF Stop, ThreadEnds, GetOffset, FlushFails, TooLate, TimeOut, ApplyOffset, WaitInterval,
           StartReceiving
  <2> QED BY <1>1, <2>1 DEF WithinError, NoEstimate
<1>6. Sockets'
  <2>1. NONE \notin Senders
    BY ClockAssumption
  <2>2. CASE GetOffset
    BY <1>1, <2>2 DEF GetOffset, Sockets
  <2>3. CASE TimeOut \/ TooLate \/ FlushFails
    BY <1>1, <2>3 DEF TimeOut, TooLate, FlushFails, Reject, Fails, NextRound, Sockets
  <2>4. CASE Stop \/ ThreadEnds
    BY <1>1, <2>4 DEF Stop, ThreadEnds, Sockets
  <2>5. CASE ApplyOffset \/ WaitInterval
    BY <1>1, <2>5 DEF ApplyOffset, WaitInterval, Sockets
  <2>6. CASE \E s \in Senders : StartReceiving(s)
    BY <1>1, <2>1, <2>6 DEF StartReceiving, Sockets
  <2> QED BY <2>2, <2>3, <2>4, <2>5, <2>6
<1>7. ServerSockets'
  BY <1>1, <1>2 DEF ServerSockets, ServerSocket
<1> QED BY <1>3, <1>4, <1>5, <1>6, <1>7, <1>9, <1>10 DEF IInv

LEMMA AskStep ==
  ASSUME IInv, Ask
  PROVE  IInv'
<1>1. TypeSenders /\ TypeSession /\ TypeRun /\ TypeNet /\ Passed /\ WithinError /\ Sockets /\ ServerSockets
  BY DEF IInv
<1> DEFINE m == Request(there, now)
<1>2. /\ UNCHANGED <<now, listenVars, there, accepts, rejects, deadline, best, result, offsetVars,
                     serverVars>>
      /\ client = "ask" /\ client' = "read"
      /\ outgoing' = Append(outgoing, now) /\ net' = net \cup {m}
  BY DEF Ask
<1>3. now \in Nat /\ there \in Senders
  BY <1>1 DEF Ask, TypeNet, TypeRun
<1>4. m \in ARequest /\ m.transmit = now
  BY <1>3 DEF Request, ARequest
<1> HIDE DEF m
<1>5. TypeSenders' /\ TypeSession' /\ TypeRun' /\ TypeNet'
  <2>1. outgoing' \in Seq(Nat)
    BY <1>1, <1>2, <1>3 DEF TypeRun
  <2> QED BY <1>1, <1>2, <1>4, <2>1 DEF TypeSenders, TypeSession, TypeRun, TypeNet
<1>6. Passed'
  <2>1. m \notin AnAnswer
    BY <1>4, Kinds
  <2> QED BY <1>1, <1>2, <1>3, <1>4, <2>1 DEF Passed, Clock
<1>7. WithinError' /\ Sockets' /\ ServerSockets'
  BY <1>1, <1>2 DEF WithinError, Sockets, ServerSockets, ServerSocket
<1> QED BY <1>5, <1>6, <1>7 DEF IInv

LEMMA Converted ==
  ASSUME NEW offset \in Int
  PROVE  ConvertTimeval(offset) \in Int
<1>1. \A a \in Int : \A b \in Nat \ {0} : Quotient(a, b) \in Int
  BY DEF Quotient
<1>2. Second \in Nat \ {0} /\ Milli \in Nat \ {0}
  BY ClockAssumption
<1>3. Quotient(offset, Second) \in Int
  BY <1>1, <1>2
<1>4. Quotient(offset, Second) * Second \in Int
  BY <1>2, <1>3
<1>5. Quotient(offset - Quotient(offset, Second) * Second, Milli) \in Int
  BY <1>1, <1>2, <1>4
<1> QED BY <1>4, <1>5 DEF ConvertTimeval

\* The ways a round ends.
LEMMA RoundEnds ==
  ASSUME TypeSenders, TypeRun, Passed, Sockets, ServerSockets, client \in {"ask", "read"},
         NEW e \in BestType,
         \/ Fails /\ UNCHANGED net
         \/ NextRound /\ UNCHANGED net
         \/ Returns(e),
         UNCHANGED <<now, listenVars, offsetVars, server, bound, broken, streams>>
  PROVE  /\ net' \subseteq net /\ there' \in Senders \cup {NONE}
         /\ client' \in {"ask", "apply", "wait"} /\ result' \in ResultType
         /\ TypeSenders' /\ Passed' /\ Sockets' /\ ServerSockets'
<1>1. /\ net' \subseteq net /\ there' \in Senders \cup {NONE}
      /\ client' \in {"ask", "apply", "wait"}
  BY DEF Fails, NextRound, Returns, TypeRun
<1>6. /\ data' \in [Senders -> DataType]
      /\ \A s \in Senders : /\ data'[s].originate = data[s].originate
                            /\ data'[s].receive = data[s].receive
  <2>1. CASE data' = data
    BY <2>1 DEF TypeSenders
  <2>2. CASE data' = [s \in Senders |-> [data[s] EXCEPT !.open = FALSE]]
    <3>1. \A s \in Senders : data[s] \in DataType
      BY DEF TypeSenders
    <3>2. \A s \in Senders : /\ data'[s] \in DataType
                              /\ data'[s].originate = data[s].originate
                              /\ data'[s].receive = data[s].receive
      BY <2>2, <3>1 DEF DataType
    <3> QED BY <2>2, <3>2
  <2> QED BY <2>1, <2>2 DEF Fails, NextRound, Returns
<1>7. TypeSenders'
  BY <1>6 DEF TypeSenders
<1>2. result' \in ResultType
  <2>1. e.offset \in Int
    BY DEF BestType
  <2>2. ConvertTimeval(e.offset) \in Int
    BY <2>1, Converted
  <2> QED BY <2>2 DEF Fails, NextRound, Returns, ResultType, TypeRun
<1>3. Passed'
  BY <1>1, <1>6, PassedStep
<1>4. Sockets'
  BY DEF Sockets, Fails, NextRound, Returns
<1>5. ServerSockets'
  BY DEF ServerSockets, ServerSocket
<1> QED BY <1>1, <1>2, <1>3, <1>4, <1>5, <1>7

LEMMA BadAnswerStep ==
  ASSUME IInv, NEW m \in net, BadAnswer(m)
  PROVE  IInv'
<1>1. TypeSenders /\ TypeSession /\ TypeRun /\ TypeNet /\ Passed /\ WithinError /\ Sockets /\ ServerSockets
  BY DEF IInv
<1>2. /\ client \in {"ask", "read"} /\ rejects' = rejects + 1
      /\ (Fails \/ NextRound) /\ UNCHANGED net /\ Answered(m)
      /\ UNCHANGED <<now, listenVars, accepts, deadline, best, offsetVars, server, bound, broken,
                     streams>>
  BY DEF BadAnswer, Reject
<1>3. best \in BestType
  BY <1>1 DEF TypeRun
<1>4. /\ there' \in Senders \cup {NONE}
      /\ client' \in {"ask", "apply", "wait"}
      /\ result' \in ResultType
      /\ TypeSenders' /\ Passed' /\ Sockets' /\ ServerSockets'
  BY <1>1, <1>2, <1>3, RoundEnds
<1>5. outgoing' \in Seq(Nat) /\ rejects' \in Nat
  <2>1. outgoing' \in Seq(Nat)
    BY <1>1, <1>2, Requests DEF TypeRun, Answered
  <2>2. rejects \in Nat
    BY <1>1 DEF TypeRun
  <2> QED BY <1>2, <2>1, <2>2
<1>6. TypeSession' /\ TypeRun' /\ TypeNet'
  BY <1>1, <1>2, <1>4, <1>5 DEF TypeSession, TypeRun, TypeNet
<1>7. WithinError'
  BY <1>1, <1>2 DEF WithinError
<1> QED BY <1>4, <1>6, <1>7 DEF IInv

LEMMA GoodAnswerStep ==
  ASSUME IInv, NEW m \in net, GoodAnswer(m)
  PROVE  IInv'
<1>1. TypeSenders /\ TypeSession /\ TypeRun /\ TypeNet /\ Passed /\ WithinError /\ Sockets /\ ServerSockets
  BY DEF IInv
<1> DEFINE e == Estimate(m)
           better == IF e.error < best.error THEN e ELSE best
<1>2. /\ client \in {"ask", "read"} /\ IsAnswer(m) /\ accepts' = accepts + 1
      /\ Answered(m) /\ best' = better
      /\ \/ Fails /\ UNCHANGED net
         \/ NextRound /\ UNCHANGED net
         \/ Returns(better)
      /\ UNCHANGED <<now, listenVars, rejects, deadline, offsetVars, server, bound, broken, streams>>
  BY DEF GoodAnswer, Answers
<1>3. m \in AnAnswer
  BY <1>1, <1>2, Datagrams
<1>4. /\ e.of = m.from /\ m.from \in Senders /\ e.offset \in Int /\ e.error \in Nat
      /\ 2 * Abs(e.offset - Skew[m.from]) <= e.error
  <2>1. /\ Even(m.originate) /\ Even(m.receive) /\ Even(m.transmit) /\ Even(now)
        /\ m.originate <= m.receive - Skew[m.from] /\ m.receive <= m.transmit
        /\ m.transmit <= Clock(m.from) /\ now \in Int
    BY <1>1, <1>3 DEF Passed, TypeNet
  <2> QED BY <1>3, <2>1, EstimateWithin
<1>5. e \in BestType
  <2>1. e = [offset |-> e.offset, error |-> e.error, of |-> e.of]
    BY DEF Estimate
  <2> HIDE DEF e
  <2> QED BY <1>4, <2>1 DEF BestType
<1>6. better \in BestType
  BY <1>1, <1>5 DEF TypeRun
<1>7. better.of # NONE => 2 * Abs(better.offset - Skew[better.of]) <= better.error
  <2> HIDE DEF e
  <2> QED BY <1>1, <1>4 DEF WithinError
<1> HIDE DEF better, e
<1>8. /\ net' \subseteq net /\ there' \in Senders \cup {NONE}
      /\ client' \in {"ask", "apply", "wait"}
      /\ result' \in ResultType
      /\ TypeSenders' /\ Passed' /\ Sockets' /\ ServerSockets'
  BY <1>1, <1>2, <1>6, RoundEnds
<1>9. outgoing' \in Seq(Nat) /\ accepts' \in Nat
  <2>1. outgoing' \in Seq(Nat)
    BY <1>1, <1>2, Requests DEF TypeRun, Answered
  <2>2. accepts \in Nat
    BY <1>1 DEF TypeRun
  <2> QED BY <1>2, <2>1, <2>2
<1>10. TypeSession' /\ TypeRun' /\ TypeNet'
  BY <1>1, <1>2, <1>6, <1>8, <1>9 DEF TypeSession, TypeRun, TypeNet
<1>11. WithinError'
  BY <1>2, <1>7 DEF WithinError, Abs
<1> QED BY <1>8, <1>10, <1>11 DEF IInv

LEMMA EnoughStep ==
  ASSUME IInv, Enough
  PROVE  IInv'
<1>1. TypeSenders /\ TypeSession /\ TypeRun /\ TypeNet /\ Passed /\ WithinError /\ Sockets /\ ServerSockets
  BY DEF IInv
<1>2. /\ client \in {"ask", "read"} /\ Returns(best)
      /\ UNCHANGED <<now, listenVars, outgoing, accepts, rejects, deadline, best, offsetVars,
                     server, bound, broken, streams>>
  BY DEF Enough
<1>3. best \in BestType
  BY <1>1 DEF TypeRun
<1>4. /\ net' \subseteq net /\ there' \in Senders \cup {NONE}
      /\ client' \in {"ask", "apply", "wait"}
      /\ result' \in ResultType
      /\ TypeSenders' /\ Passed' /\ Sockets' /\ ServerSockets'
  BY <1>1, <1>2, <1>3, RoundEnds
<1>5. TypeSession' /\ TypeRun' /\ TypeNet'
  BY <1>1, <1>2, <1>4 DEF TypeSession, TypeRun, TypeNet
<1>6. WithinError'
  BY <1>1, <1>2 DEF WithinError
<1> QED BY <1>4, <1>5, <1>6 DEF IInv

LEMMA NextIInv == IInv /\ [Next]_vars => IInv'
<1> SUFFICES ASSUME IInv, [Next]_vars PROVE IInv'
  OBVIOUS
<1>1. CASE Tick
  BY <1>1, TickStep
<1>2. CASE Server
  <2>1. PICK s \in Senders :
          \/ StartServer(s) \/ AlreadyOpen(s) \/ SocketFails(s) \/ BindFails(s)
          \/ (\E m \in net : Serve(s, m)) \/ WriteAnswer(s) \/ WriteFails(s) \/ RejectRequest(s)
          \/ StopServer(s)
    BY <1>2 DEF Server
  <2>2. CASE StartServer(s) \/ AlreadyOpen(s) \/ SocketFails(s) \/ BindFails(s) \/ StopServer(s)
    BY <2>2, StartStopServerStep
  <2>3. CASE \E m \in net : Serve(s, m)
    BY <2>3, ServeStep
  <2>4. CASE WriteAnswer(s)
    BY <2>4, AnswerStep
  <2>5. CASE WriteFails(s) \/ RejectRequest(s)
    BY <2>5, BreaksStep
  <2> QED BY <2>1, <2>2, <2>3, <2>4, <2>5
<1>3. CASE \/ Stop \/ ThreadEnds \/ GetOffset \/ FlushFails \/ TooLate \/ TimeOut \/ ApplyOffset
           \/ WaitInterval \/ \E s \in Senders : StartReceiving(s)
  BY <1>3, SessionStep
<1>4. CASE Ask
  BY <1>4, AskStep
<1>5. CASE \E m \in net : BadAnswer(m) \/ GoodAnswer(m)
  BY <1>5, BadAnswerStep, GoodAnswerStep
<1>6. CASE Enough
  BY <1>6, EnoughStep
<1>7. CASE UNCHANGED vars
  <2>1. /\ UNCHANGED <<now, net, host, isRunning, sessions, runs>>
        /\ UNCHANGED <<client, there, outgoing, accepts, rejects, deadline, best, result>>
        /\ UNCHANGED <<lastOffsetUs, systemTimeOffset, server, bound, data, broken, streams>>
    BY <1>7 DEF vars
  <2>2. TypeSenders' /\ TypeSession' /\ TypeRun' /\ TypeNet'
    BY <2>1 DEF IInv, TypeSenders, TypeSession, TypeRun, TypeNet
  <2>3. Passed' /\ WithinError' /\ Sockets' /\ ServerSockets'
    BY <2>1 DEF IInv, Passed, WithinError, Sockets, ServerSockets, ServerSocket, Clock
  <2> QED BY <2>2, <2>3 DEF IInv
<1> QED BY <1>1, <1>2, <1>3, <1>4, <1>5, <1>6, <1>7 DEF Next, Client, User

LEMMA Invariant == Spec => []IInv
BY InitIInv, NextIInv, PTL DEF Spec
-----------------------------------------------------------------------------
\* The variables have their types.
THEOREM TypeCorrectness == Spec => []TypeOK
<1>1. IInv => TypeOK
  BY TypeParts DEF IInv
<1> QED BY <1>1, Invariant, PTL

\* Whatever the network does, an offset is off by at most half of the error that
\* read_packet works out (main.c:557-565), and so agrees with every other one of
\* the same sender.
THEOREM ErrorBoundsOffset == Spec => []WithinError
<1>1. IInv => WithinError
  BY DEF IInv
<1> QED BY <1>1, Invariant, PTL

\* The offset is asked of the session's sender (libmsntp.h:46), unless the run
\* before has failed.
THEOREM AsksItsSender == Spec => []StraysOnlyAfterFailure
<1>1. IInv => StraysOnlyAfterFailure
  BY DEF IInv, Sockets, StraysOnlyAfterFailure
<1> QED BY <1>1, Invariant, PTL

\* A sender that streams without answering has got no socket, or a failure has left its
\* process a socket that is open: that of bind, of receiving, of sending, or a datagram
\* that it has rejected (SenderSession.cpp:250-259, socket.c:96-101, main.c:685-691).
THEOREM ServesUntilBroken == Spec => []ServesWhileStreaming
<1>1. IInv => ServesWhileStreaming
  BY DEF IInv, ServerSockets, ServerSocket, ServesWhileStreaming
<1> QED BY <1>1, Invariant, PTL

\* Both hold together: no order of calls misdirects the exchange, only one of these failures.
THEOREM OnlyFailuresMisdirect == Spec => []SocketsInOrder
<1>1. IInv => SocketsInOrder
  BY DEF IInv, Sockets, ServerSockets, ServerSocket, StraysOnlyAfterFailure, ServesWhileStreaming,
         SocketsInOrder
<1> QED BY <1>1, Invariant, PTL
=============================================================================
