---------------------------- MODULE MarketClient ----------------------------
(***************************************************************************)
(* The client's process (client/market_client.cpp, client/main.cpp) at its *)
(* end of the Wire: connect, the read loop with its partial recv()s, the   *)
(* callbacks to the TradeProcessor, the one Subscribe, and stop(), which   *)
(* the signal handler runs between any two steps of the same thread once   *)
(* it is installed.                                                        *)
(***************************************************************************)
EXTENDS Wire

CONSTANTS
  Subscriptions,  \* "Subscribe", and "SubscribeUnknown" for a wrong UDS_SYMBOL
  MaxSignals      \* bound: signals the process is sent

ASSUME ClientAssumption ==
  /\ Subscriptions \subseteq {"Subscribe", "SubscribeUnknown"}
  /\ MaxSignals \in Nat

VARIABLES
  pc,          \* of the main thread
  created,     \* g_client is set
  running,     \* running_
  fdOpen,      \* socket_fd_ >= 0
  got,         \* the pieces readExact has received
  header,      \* the pieces of the header of the packet being read
  \* ---- history
  handled,     \* the pieces each callback was given
  disconnects, \* calls of onDisconnected
  signals      \* signals delivered, and where the last one found the thread

threadVars == <<pc, created, running, fdOpen, got, header, handled,
                disconnects>>
clientVars == <<threadVars, signals>>
vars == <<wireVars, clientVars>>

Init ==
  /\ WireInit
  /\ pc = "create"
  /\ created = FALSE
  /\ running = FALSE
  /\ fdOpen = FALSE
  /\ got = <<>>
  /\ header = <<>>
  /\ handled = <<>>
  /\ disconnects = 0
  /\ signals = <<>>

-----------------------------------------------------------------------------
(* main and connect                                                        *)

Create ==
  /\ pc = "create"
  /\ created' = TRUE
  /\ pc' = "socket"
  /\ UNCHANGED <<wireVars, running, fdOpen, got, header, handled,
                 disconnects, signals>>

Socket ==
  /\ pc = "socket"
  /\ \/ fdOpen' = TRUE /\ pc' = "connect"
     \/ fdOpen' = FALSE /\ pc' = "exited"
  /\ UNCHANGED <<wireVars, created, running, got, header, handled,
                 disconnects, signals>>

Connect ==
  /\ pc = "connect"
  /\ fdOpen
  /\ PeerConnects
  /\ pc' = "connected"
  /\ UNCHANGED <<created, running, fdOpen, got, header, handled,
                 disconnects, signals>>

\* No such host, no server, or a signal has closed the socket.
ConnectFails ==
  /\ pc = "connect"
  /\ fdOpen' = FALSE
  /\ pc' = "exited"
  /\ UNCHANGED <<wireVars, created, running, got, header, handled,
                 disconnects, signals>>

\* running_ = true, whatever a signal has done meanwhile.
Connected ==
  /\ pc = "connected"
  /\ running' = TRUE
  /\ pc' = "loop"
  /\ UNCHANGED <<wireVars, created, fdOpen, got, header, handled,
                 disconnects, signals>>

-----------------------------------------------------------------------------
(* run and readExact                                                       *)

Loop ==
  /\ pc = "loop"
  /\ got' = <<>>
  /\ pc' = IF running THEN "header" ELSE "finish"
  /\ UNCHANGED <<wireVars, created, running, fdOpen, header, handled,
                 disconnects, signals>>

\* Mutant: payload_size is taken to count the header.
SizeOfPacket == IF pc = "header" THEN HeaderUnits
                ELSE HeaderUnits + PayloadUnits[header[1].packet.type]

\* The size readExact was asked for.
Size == IF pc = "header" THEN HeaderUnits
        ELSE PayloadUnits[header[1].packet.type]

\* Mutant: recv is asked for size bytes each time.
WantedAgain == Size

\* size - received
Wanted == Size - Len(got)

Reading == pc \in {"header", "payload"}

Receive ==
  /\ Reading
  /\ Len(got) < Size
  /\ running /\ fdOpen
  /\ \E n \in 1 .. Wanted :
       /\ PeerReads(n)
       /\ got' = got \o SubSeq(stream, 1, n)
  /\ UNCHANGED <<pc, created, running, fdOpen, header, handled,
                 disconnects, signals>>

\* recv() <= 0, the end of the stream or a closed descriptor, or running_ is
\* clear: readExact returns FALSE.
ReceiveFails ==
  /\ Reading
  /\ Len(got) < Size
  /\ ~running \/ ~fdOpen \/ (stream = <<>> /\ ~open)
  /\ pc' = "finish"
  /\ UNCHANGED <<wireVars, created, running, fdOpen, got, header, handled, disconnects, signals>>

IsHeader(units) ==
  /\ units # <<>>
  /\ units = SubSeq(Units(units[1].packet), 1, HeaderUnits)

\* Mutant: readExact returns true when running_ has stopped it.
HasReceivedAll == Len(got) = Size \/ ~running

\* received == size
HasReceived == Len(got) = Size

\* Magic and version are checked; a mixed header ends the loop.
HeaderReceived ==
  /\ pc = "header"
  /\ HasReceived
  /\ header' = got
  /\ got' = <<>>
  /\ pc' = IF IsHeader(got) THEN "payload" ELSE "finish"
  /\ UNCHANGED <<wireVars, created, running, fdOpen, handled,
                 disconnects, signals>>

\* handlePacket: the callback of the type; after onConnected, subscribe.
PayloadReceived ==
  /\ pc = "payload"
  /\ HasReceived
  /\ handled' = Append(handled, header \o got)
  /\ pc' = IF header[1].packet.type = "Welcome" THEN "subscribe" ELSE "loop"
  /\ UNCHANGED <<wireVars, created, running, fdOpen, got, header,
                 disconnects, signals>>

\* Whether or not the packet was sent.
SendSubscribe ==
  /\ pc = "subscribe"
  /\ IF fdOpen THEN \E r \in Subscriptions : PeerSends(r)
               ELSE UNCHANGED wireVars
  /\ pc' = "loop"
  /\ UNCHANGED <<created, running, fdOpen, got, header, handled, disconnects,
                 signals>>

Finish ==
  /\ pc = "finish"
  /\ running' = FALSE
  /\ disconnects' = disconnects + 1
  /\ pc' = "exited"
  /\ UNCHANGED <<wireVars, created, fdOpen, got, header, handled,
                 signals>>

Thread ==
  \/ Create \/ Socket \/ Connect \/ ConnectFails \/ Connected
  \/ Loop \/ Receive \/ ReceiveFails \/ HeaderReceived \/ PayloadReceived
  \/ SendSubscribe \/ Finish

-----------------------------------------------------------------------------
\* Mutant: stop() leaves the socket alone.
StopFlagOnly == running' = FALSE /\ UNCHANGED <<fdOpen, wireVars>>

\* stop()
Stop ==
  /\ running' = FALSE
  /\ fdOpen' = FALSE
  /\ IF fdOpen THEN PeerCloses ELSE UNCHANGED wireVars

\* handleSignal, which does nothing before g_client is set.
Signal ==
  /\ pc # "exited"
  /\ Len(signals) < MaxSignals
  /\ signals' = Append(signals, pc)
  /\ IF created THEN Stop ELSE UNCHANGED <<wireVars, running, fdOpen>>
  /\ UNCHANGED <<pc, created, got, header, handled, disconnects>>

\* When the process exits the kernel closes its socket.
Exit ==
  /\ pc = "exited"
  /\ IF peerUp THEN PeerCloses ELSE UNCHANGED wireVars
  /\ UNCHANGED clientVars

Next ==
  \/ Thread
  \/ Signal
  \/ Exit
  \/ (Server \/ ServerCloses) /\ UNCHANGED clientVars

Spec == Init /\ [][Next]_vars

\* The client's thread and the server's threads are scheduled; nobody must
\* signal, send a tick or close.
Fairness ==
  /\ WF_vars(Thread)
  /\ WF_vars(Writing /\ UNCHANGED clientVars)
  /\ WF_vars((HandlerWelcome \/ HandlerReceive) /\ UNCHANGED clientVars)

FairSpec == Spec /\ Fairness

-----------------------------------------------------------------------------
Pieces == [packet : [type : Types, n : 1 .. MaxPackets], part : Nat]

\* Every variable has a value of its type.
TypeOK ==
  /\ {peerUp, open, subscribed, pending, created, running, fdOpen} \subseteq BOOLEAN
  /\ {stream, got, header, unsent["handler"], unsent["worker"]} \subseteq Seq(Pieces)
  /\ Len(stream) <= Buffer
  /\ Reading => Len(got) <= Size
  /\ disconnects \in {0, 1}

\* The callbacks are the packets the server sent, from the first on, each
\* whole and once, in their order, up to where the client or the server ended
\* the connection: nothing is handled in part when a signal or a close falls
\* into the middle of a read.
CallbacksFollowStream ==
  /\ Len(handled) <= Len(sent)
  /\ \A i \in 1 .. Len(handled) : handled[i] = Units(sent[i])

RunLabels == {"connected", "loop", "header", "payload", "subscribe", "finish"}

\* Once there is a connection, a signal at whatever step, or the server's
\* close, makes run() return and onDisconnected print the last report.
ConnectionEnds ==
  (pc \in RunLabels /\ (~open \/ \E i \in DOMAIN signals : signals[i] \in RunLabels))
    ~> (pc = "exited" /\ disconnects = 1)

\* One side has ended the connection.
Ended == ~open \/ signals # <<>>

\* Every packet begun is handled, unless one side ends the connection first.
PacketsHandled ==
  \A i \in 1 .. MaxPackets :
    (Len(sent) >= i) ~> (Len(handled) >= i \/ Ended)

\* The server has not read the request yet.
Asking(r) == \E i \in DOMAIN uplink : uplink[i] = r

\* A Subscribe takes effect, unless one side ends the connection first: a
\* known symbol becomes the active or the pending one of the session, and the
\* Error that refuses an unknown one reaches its callback.  subscribe looks
\* neither at its send nor for an answer.  That a pending symbol ever becomes
\* active is not said: ActivatedOnRegister of SessionManager shows it may not.
SubscribeTakesEffect ==
  /\ Asking("Subscribe") ~> (subscribed \/ pending \/ Ended)
  /\ Asking("SubscribeUnknown") ~>
       (Ended \/ \E i \in DOMAIN handled : handled[i][1].packet.type = "Error")
=============================================================================
