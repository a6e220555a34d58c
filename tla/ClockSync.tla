------------------------------ MODULE ClockSync ------------------------------
(***************************************************************************)
(* How a receiver learns its sender's clock: the SNTP thread of            *)
(* ReceiverSession asks the SNTP thread of a SenderSession through         *)
(* libmsntp, whose socket and settings are global to each process.         *)
(*                                                                         *)
(* One device listens, to one sender after the other; the others stream    *)
(* and stop.  A datagram that was sent may arrive late, more than once or  *)
(* never, in any order, so none is taken out of net; one that flush_socket *)
(* throws away is one of those that never arrive.  Opening a socket may    *)
(* fail, and so may receiving and sending; any program may send a datagram *)
(* that is no request, or no answer.  Times and offsets are counted in     *)
(* microseconds of a coarse clock: now is the listener's clock and passes  *)
(* two at a time, so that halves are exact.  A time-out is not tied to the *)
(* clock.  Nobody sets a clock, and a device does not change its role      *)
(* between sending and listening.                                          *)
(***************************************************************************)
EXTENDS Integers, Sequences, FiniteSets

CONSTANTS
  Senders,
  Skew,          \* how far a sender's clock is ahead of the listener's
  count,         \* responses a run wants, of at most twice as many requests
  minerr, delay, \* error that is good enough, and time a run may take
  NTP_INSANITY,
  Milli, Second, \* microseconds in a millisecond and in a second
  MaxTime,       \* bound: of now
  MaxSessions,   \* bound: sessions of the listener
  MaxRuns,       \* bound: times it asks for the offset
  MaxStreams,    \* bound: sessions of all senders
  NONE

ASSUME ClockAssumption ==
  /\ Skew \in [Senders -> Int] /\ \A s \in Senders : Skew[s] % 2 = 0
  /\ count \in Nat \ {0} /\ minerr \in Nat /\ delay \in Nat
  /\ NTP_INSANITY \in Nat \ {0}
  /\ Milli \in Nat \ {0} /\ Second \in Nat \ {0} /\ Second % Milli = 0
  /\ MaxTime \in Nat /\ MaxSessions \in Nat /\ MaxRuns \in Nat /\ MaxStreams \in Nat
  /\ NONE \notin Senders

VARIABLES
  now,
  net,           \* datagrams that were sent to or from a socket that is still open
  \* the listener: its session, and the SNTP thread with its run_client
  host,          \* _host, or NONE when there is no session
  isRunning, sessions, runs,
  client,        \* where the SNTP thread is
  there,         \* the sender the socket was opened for, or NONE when it is closed
  outgoing,      \* times of the requests of this run, 0 once answered
  accepts, rejects, deadline,
  best,          \* best offset and error of the run, and whose it is
  result,        \* what the last run returned
  lastOffsetUs, systemTimeOffset,
  \* the senders
  server,        \* where the SNTP thread is
  bound,         \* whether the process has a socket open
  data,          \* request that is being answered
  broken,        \* a failure in this process has left its socket open
  streams

listenVars == <<host, isRunning, sessions, runs>>
runVars == <<client, there, outgoing, accepts, rejects, deadline, best, result>>
offsetVars == <<lastOffsetUs, systemTimeOffset>>
serverVars == <<server, bound, data, broken, streams>>
vars == <<now, net, listenVars, runVars, offsetVars, serverVars>>

\* A request carries its transmit time; an answer the times its request was
\* transmitted and received, and its own.
Request(s, t) == [to |-> s, transmit |-> t]
Answer(s, d, t) == [from |-> s, originate |-> d.originate, receive |-> d.receive, transmit |-> t]
IsAnswer(m) == "from" \in DOMAIN m
Answers == {m \in net : IsAnswer(m)}

\* A request whose sender's port is closed by now is not open.
Data(t, r) == [open |-> TRUE, originate |-> t, receive |-> r]
NoData == [open |-> FALSE, originate |-> 0, receive |-> 0]
NoEstimate == [offset |-> 0, error |-> NTP_INSANITY, of |-> NONE]

Init ==
  /\ now = 2 /\ net = {}
  /\ host = NONE /\ isRunning = FALSE /\ sessions = 0 /\ runs = 0
  /\ client = "off" /\ there = NONE /\ outgoing = <<>>
  /\ accepts = 0 /\ rejects = 0 /\ deadline = 0 /\ best = NoEstimate
  /\ result = [err |-> 0, tv |-> 0]
  /\ lastOffsetUs = 0 /\ systemTimeOffset = 0
  /\ server = [s \in Senders |-> "off"] /\ bound = [s \in Senders |-> FALSE]
  /\ data = [s \in Senders |-> NoData] /\ broken = [s \in Senders |-> FALSE]
  /\ streams = 0
-----------------------------------------------------------------------------
Tick ==
  /\ now < MaxTime
  /\ now' = now + 2
  /\ UNCHANGED <<net, listenVars, runVars, offsetVars, serverVars>>
-----------------------------------------------------------------------------
(* The senders.                                                            *)

Clock(s) == now + Skew[s]

\* RunNTPServer begins, with one of the outcomes of open_socket.
Begins(s, outcome) ==
  /\ server[s] = "off" /\ streams < MaxStreams
  /\ server' = [server EXCEPT ![s] = outcome]
  /\ streams' = streams + 1
  /\ UNCHANGED <<now, net, listenVars, runVars, offsetVars, data>>

StartServer(s) ==
  /\ ~bound[s] /\ Begins(s, "serving")
  /\ bound' = [bound EXCEPT ![s] = TRUE]
  /\ UNCHANGED broken

\* The socket is still open from an earlier session, and is refused.
AlreadyOpen(s) == bound[s] /\ Begins(s, "ended") /\ UNCHANGED <<bound, broken>>

\* There is no socket to be had, ...
SocketFails(s) == ~bound[s] /\ Begins(s, "unopened") /\ UNCHANGED <<bound, broken>>

\* ... or the port is taken: the thread ends, and the socket counts as open.
BindFails(s) ==
  /\ ~bound[s] /\ Begins(s, "ended")
  /\ bound' = [bound EXCEPT ![s] = TRUE]
  /\ broken' = [broken EXCEPT ![s] = TRUE]

\* msntp_serve: takes a request, ...
Serve(s, m) ==
  /\ server[s] = "serving" /\ m \in net /\ ~IsAnswer(m) /\ m.to = s
  /\ server' = [server EXCEPT ![s] = "answering"]
  /\ data' = [data EXCEPT ![s] = Data(m.transmit, Clock(s))]
  /\ UNCHANGED <<now, net, listenVars, runVars, offsetVars, bound, broken, streams>>

MakePacket(s) == Answer(s, data[s], Clock(s))

\* ... and answers it.
WriteAnswer(s) ==
  /\ server[s] = "answering"
  /\ net' = IF data[s].open THEN net \cup {MakePacket(s)} ELSE net
  /\ server' = [server EXCEPT ![s] = "serving"]
  /\ data' = [data EXCEPT ![s] = NoData]
  /\ UNCHANGED <<now, listenVars, runVars, offsetVars, bound, broken, streams>>

\* Ends the thread and leaves the socket open.
Breaks(s) ==
  /\ server' = [server EXCEPT ![s] = "ended"]
  /\ data' = [data EXCEPT ![s] = NoData]
  /\ broken' = [broken EXCEPT ![s] = TRUE]
  /\ UNCHANGED <<now, net, listenVars, runVars, offsetVars, bound, streams>>

\* The answer cannot be sent.
WriteFails(s) == server[s] = "answering" /\ Breaks(s)

\* What arrives is rejected, by its length, its mode or its contents, or cannot be
\* received.  (A broadcast is ignored, and so is that nothing arrives.)
RejectRequest(s) == server[s] = "serving" /\ Breaks(s)

\* The session is stopped: the thread closes the socket, if it is still there.
StopServer(s) ==
  /\ server[s] \in {"serving", "ended", "unopened"}
  /\ server' = [server EXCEPT ![s] = "off"]
  /\ IF server[s] = "serving"
       THEN bound' = [bound EXCEPT ![s] = FALSE]
            /\ net' = {m \in net : IsAnswer(m) \/ m.to # s}
       ELSE UNCHANGED <<bound, net>>
  /\ UNCHANGED <<now, listenVars, runVars, offsetVars, data, broken, streams>>
-----------------------------------------------------------------------------
(* The listener.                                                           *)

StartReceiving(s) ==
  /\ client = "off" /\ sessions < MaxSessions
  /\ host' = s /\ isRunning' = TRUE /\ sessions' = sessions + 1
  /\ client' = "check"
  /\ UNCHANGED <<now, net, runs, there, outgoing, accepts, rejects, deadline, best, result,
                 offsetVars, serverVars>>

Stop ==
  /\ isRunning
  /\ isRunning' = FALSE
  /\ UNCHANGED <<now, net, host, sessions, runs, runVars, offsetVars, serverVars>>

ThreadEnds ==
  /\ client = "check" /\ ~isRunning
  /\ client' = "off" /\ host' = NONE
  /\ UNCHANGED <<now, net, isRunning, sessions, runs, there, outgoing, accepts, rejects, deadline,
                 best, result, offsetVars, serverVars>>

\* msntp_get_offset, up to the loop of run_client.  open_socket refuses a socket
\* that is open already, or gets none, which run_client does not notice.
GetOffset ==
  /\ client = "check" /\ isRunning /\ runs < MaxRuns
  /\ client' = "ask" /\ runs' = runs + 1
  /\ there' \in IF there = NONE THEN {host, NONE} ELSE {there}
  /\ deadline' = now + delay
  /\ UNCHANGED <<now, net, host, isRunning, sessions, outgoing, accepts, rejects, best, result,
                 offsetVars, serverVars>>

\* run_client returns an error, and leaves the socket open.
Fails ==
  /\ client' = "wait" /\ result' = [err |-> 1, tv |-> 0]
  /\ UNCHANGED <<there, data>>

\* C's division of integers.
Quotient(a, b) == IF a >= 0 THEN a \div b ELSE -((-a) \div b)

\* convert_timeval: whole seconds, and the milliseconds left, which go into tv_usec.
ConvertTimeval(offset) ==
  LET seconds == Quotient(offset, Second)
      millisecs == Quotient(offset - seconds * Second, Milli)
  IN seconds * Second + millisecs

\* Mutated form: the socket stays open.
ReturnsOpen(estimate) ==
  /\ client' = "apply" /\ result' = [err |-> 0, tv |-> ConvertTimeval(estimate.offset)]
  /\ UNCHANGED <<there, data, net>>

\* It closes the socket, so that what was sent from it or to it is lost, and returns
\* the best offset.
Returns(estimate) ==
  /\ client' = "apply" /\ result' = [err |-> 0, tv |-> ConvertTimeval(estimate.offset)]
  /\ there' = NONE /\ net' = {}
  /\ data' = [s \in Senders |-> [data[s] EXCEPT !.open = FALSE]]

MayAsk == accepts < count /\ Len(outgoing) < 2 * count

\* One round: send a request; whether that has worked is not looked at.
Ask ==
  /\ client = "ask" /\ MayAsk /\ now <= deadline /\ there # NONE
  /\ outgoing' = Append(outgoing, now)
  /\ net' = net \cup {Request(there, now)}
  /\ client' = "read"
  /\ UNCHANGED <<now, listenVars, there, accepts, rejects, deadline, best, result, offsetVars,
                 serverVars>>

\* There is no socket, or flush_socket fails on it.
FlushFails ==
  /\ client = "ask" /\ MayAsk /\ now <= deadline
  /\ outgoing' = Append(outgoing, now)
  /\ Fails
  /\ UNCHANGED <<now, net, listenVars, accepts, rejects, deadline, best, offsetVars,
                 server, bound, broken, streams>>

TooLate ==
  /\ client = "ask" /\ MayAsk /\ now > deadline
  /\ Fails
  /\ UNCHANGED <<now, net, listenVars, outgoing, accepts, rejects, deadline, best, offsetVars,
                 server, bound, broken, streams>>

NextRound == client' = "ask" /\ UNCHANGED <<there, result, data>>

\* A round without a good answer.
Reject ==
  /\ rejects' = rejects + 1
  /\ IF rejects' > count THEN Fails ELSE NextRound

\* Mutated form: as if the request had not been sent.
AskAgain ==
  /\ client = "read"
  /\ NextRound /\ outgoing' = SubSeq(outgoing, 1, Len(outgoing) - 1)
  /\ UNCHANGED <<now, net, listenVars, accepts, rejects, deadline, best, offsetVars,
                 server, bound, broken, streams>>

\* Nothing arrives in time, or nothing that a sender has sent.
TimeOut ==
  /\ client = "read"
  /\ Reject
  /\ UNCHANGED <<now, net, listenVars, outgoing, accepts, deadline, best, offsetVars,
                 server, bound, broken, streams>>

\* read_packet: what a sender answers is sane, but it must belong to one request
\* of this run.  The requests it names are not looked for again.
Matching(m) == {i \in DOMAIN outgoing : outgoing[i] = m.originate}
Acceptable(m) == Cardinality(Matching(m)) = 1 /\ now - m.originate <= NTP_INSANITY
Answered(m) ==
  outgoing' = [i \in DOMAIN outgoing |-> IF i \in Matching(m) THEN 0 ELSE outgoing[i]]

BadAnswer(m) ==
  /\ client = "read" /\ m \in Answers /\ ~Acceptable(m)
  /\ Answered(m) /\ Reject
  /\ UNCHANGED <<now, net, listenVars, accepts, deadline, best, offsetVars, server, bound, broken,
                 streams>>

\* Mutated form: current is still the time of the request.
EstimateStale(m) ==
  LET x == m.receive - m.originate
      y == m.transmit - m.originate
  IN [offset |-> (x + y) \div 2, error |-> IF x > y THEN x - y ELSE 0, of |-> m.from]

\* The offset of the sender's clock and twice its error, as far as an answer tells.
Estimate(m) ==
  LET x == m.receive - m.originate
      y == m.transmit - now
      half == (now - m.originate) \div 2
  IN [offset |-> (x + y) \div 2, error |-> IF half > x - y THEN half ELSE x - y, of |-> m.from]

Abs(x) == IF x < 0 THEN -x ELSE x

GoodAnswer(m) ==
  /\ client = "read" /\ m \in Answers /\ Acceptable(m)
  /\ Answered(m)
  /\ accepts' = accepts + 1
  /\ LET e == Estimate(m)
         better == IF e.error < best.error THEN e ELSE best
         inconsistent == accepts # 0 /\ Abs(e.offset - best.offset) > best.error + e.error
     IN /\ best' = better
        /\ IF inconsistent THEN Fails /\ UNCHANGED net
           ELSE IF better.error <= minerr THEN Returns(better)
           ELSE NextRound /\ UNCHANGED net
  /\ UNCHANGED <<now, listenVars, rejects, deadline, offsetVars, server, bound, broken, streams>>

\* The loop ends, with or without enough answers.
Enough ==
  /\ client = "ask" /\ ~MayAsk
  /\ Returns(best)
  /\ UNCHANGED <<now, listenVars, outgoing, accepts, rejects, deadline, best, offsetVars,
                 server, bound, broken, streams>>

\* The thread averages the offset with the last one, of whatever session, sends
\* it to the sender and gives it to the player.
ApplyOffset ==
  /\ client = "apply"
  /\ LET offsetUSecs == IF lastOffsetUs = 0 THEN result.tv
                        ELSE Quotient(result.tv + lastOffsetUs, 2)
     IN lastOffsetUs' = offsetUSecs /\ systemTimeOffset' = offsetUSecs
  /\ client' = "wait"
  /\ UNCHANGED <<now, net, listenVars, there, outgoing, accepts, rejects, deadline, best, result,
                 serverVars>>

\* What belonged to the run is gone.
WaitInterval ==
  /\ client = "wait"
  /\ client' = "check"
  /\ outgoing' = <<>> /\ accepts' = 0 /\ rejects' = 0 /\ deadline' = 0 /\ best' = NoEstimate
  /\ UNCHANGED <<now, net, listenVars, there, result, offsetVars, serverVars>>

Server ==
  \E s \in Senders :
    \/ StartServer(s) \/ AlreadyOpen(s) \/ SocketFails(s) \/ BindFails(s)
    \/ (\E m \in net : Serve(s, m)) \/ WriteAnswer(s) \/ WriteFails(s) \/ RejectRequest(s)
    \/ StopServer(s)

Client ==
  \/ ThreadEnds \/ GetOffset \/ Ask \/ FlushFails \/ TooLate
  \/ TimeOut \/ (\E m \in net : BadAnswer(m) \/ GoodAnswer(m)) \/ Enough
  \/ ApplyOffset \/ WaitInterval

User == (\E s \in Senders : StartReceiving(s)) \/ Stop

Next == Tick \/ Server \/ Client \/ User

(* The listener's thread is scheduled, and select has a timeout.  Nothing is  *)
(* assumed of the network, the senders and the user.                          *)
Fairness == WF_vars(Client)

Spec == Init /\ [][Next]_vars /\ Fairness
-----------------------------------------------------------------------------
(* Properties.                                                             *)

TypeOK ==
  /\ now \in Nat /\ isRunning \in BOOLEAN /\ sessions \in Nat /\ runs \in Nat /\ streams \in Nat
  /\ host \in Senders \cup {NONE} /\ there \in Senders \cup {NONE}
  /\ client \in {"off", "check", "ask", "read", "apply", "wait"}
  /\ outgoing \in Seq(Nat) /\ accepts \in Nat /\ rejects \in Nat /\ deadline \in Nat
  /\ best \in [offset : Int, error : Nat, of : Senders \cup {NONE}]
  /\ result \in [err : {0, 1}, tv : Int]
  /\ lastOffsetUs \in Int /\ systemTimeOffset \in Int
  /\ server \in [Senders -> {"off", "serving", "answering", "ended", "unopened"}]
  /\ bound \in [Senders -> BOOLEAN] /\ broken \in [Senders -> BOOLEAN]
  /\ data \in [Senders -> [open : BOOLEAN, originate : Int, receive : Int]]
  /\ net \subseteq [to : Senders, transmit : Int]
                  \cup [from : Senders, originate : Int, receive : Int, transmit : Int]

(* Line 561 of main.c, err: whatever is lost, delayed, repeated or comes   *)
(* out of order, from whichever request of the run or socket, the best     *)
(* offset is off the clock of the sender that answered by at most half of  *)
(* the error it is accepted with.                                          *)
WithinError == best.of # NONE => 2 * Abs(best.offset - Skew[best.of]) <= best.error

(* libmsntp.h, "Connects to an SNTP server": a run asks another sender     *)
(* than its session's only when the run before has failed, which leaves    *)
(* the socket open with the old address.                                   *)
StraysOnlyAfterFailure == client \in {"ask", "read"} /\ there \notin {host, NONE} => result.err # 0

(* A sender that streams is there to answer, unless it has got no socket   *)
(* for this session, or a failure has left the socket of its process open: *)
(* that of bind, of receiving or of sending, or a datagram that it has     *)
(* rejected, now or in an earlier session.  After such a failure none of   *)
(* its sessions answers any more.                                          *)
ServesWhileStreaming ==
  \A s \in Senders :
    /\ server[s] = "ended" => broken[s]
    /\ broken[s] => server[s] \in {"off", "ended"} /\ bound[s]

(* Only a failure puts the sockets of the SNTP exchange in the wrong place:*)
(* a run asks its own sender until an earlier run has failed, and a sender *)
(* that streams answers until it has got no socket, rejects a datagram, or *)
(* binding, receiving or sending has failed.                               *)
SocketsInOrder == StraysOnlyAfterFailure /\ ServesWhileStreaming

(* Stop joins the thread: a run ends, whether or not it is answered.       *)
ListeningEnds == ~isRunning ~> (client = "off" \/ isRunning)

(* Lines 38-42 of apppacket.h, "Clock offset relative to the ntp server,   *)
(* in microseconds": what a run returns is the offset it has found, up to  *)
(* the part of a millisecond that is cut off.  The code puts milliseconds  *)
(* where microseconds belong.                                              *)
OffsetInFull == client = "apply" => Abs(result.tv - best.offset) < Milli
=============================================================================
