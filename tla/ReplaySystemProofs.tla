------------------------- MODULE ReplaySystemProofs -------------------------
(* The theorems of ReplaySystem, for every value of its constants.         *)
EXTENDS ReplaySystem, SessionServiceProofs

-----------------------------------------------------------------------------
(* The invariant.  Its parts about one client hold until a handler has     *)
(* taken the client's connection for that of another.                      *)

SystemTypes ==
  /\ chosen \in [Conns -> Symbols \cup {UnknownSymbol}]
  /\ stage \in [Conns -> {"waiting", "subscribe", "running", "exited"}]
  /\ tickCount \in [Conns -> Nat]
  /\ reported \subseteq Conns
  /\ mistaken \subseteq Conns

\* Handler h has a request of its own, and has not finished with it.
Asking(h) == pc[h] \in {"lookup", "subscribe", "error"}

\* Clients only ever ask for their symbol, and that is what handlers act on.
RequestsMeant ==
  /\ \A c \in Conns : \A i \in DOMAIN inbox[c] : inbox[c][i] = Ask(c)
  /\ \A h \in Conns :
       /\ pc[h] \notin {"unsubscribe", "heartbeat"}
       /\ Asking(h) => bound[h] \in Conns /\ request[h] = chosen[bound[h]]

\* While a connection has its descriptor, its handler reads from no other.
BoundInv ==
  /\ \A h \in Conns : pc[h] \in {"none", "push", "welcome"} => bound[h] = NoConn
  /\ \A h, c \in Conns : bound[h] = c => pc[c] # "none"
  /\ \A f \in Fds, c \in Conns : fdTable[f] = c => bound[c] \in {NoConn, c}

ExitedIsGone ==
  \A c \in Conns : stage[c] = "exited" =>
    peer[c] = "gone" /\ outbox[c] = <<>> /\ tickCount[c] = 0

\* Only a subscription hears events, and those of its feed.
HeardOfTopic ==
  \A c \in Conns : heard[c] # -1 =>
    subscribed[c] # NoSymbol /\ heard[c] \in 0 .. Rows[subscribed[c]]

\* A handler that refuses a symbol the server knows has lost its connection.
RefusalLost ==
  \A h \in Conns :
    (pc[h] = "error" /\ bound[h] \notin mistaken /\ request[h] \in Symbols)
      => Behind(clientFd[h]) # bound[h]

NoTopic(c) == subscribed[c] = NoSymbol /\ pending[c] = NoSymbol

\* A client asks once, after its Welcome, and at most one handler acts on it.
AskedOnce(c) ==
  /\ requestCount[c] \in {0, 1}
  /\ Len(inbox[c]) <= requestCount[c]
  /\ stage[c] \in {"waiting", "subscribe"} => requestCount[c] = 0
  /\ pc[c] \in {"none", "push", "welcome"} =>
       requestCount[c] = 0 /\ outbox[c] = <<>> /\ stage[c] \in {"waiting", "exited"}
  /\ requestCount[c] = 0 \/ inbox[c] # <<>> =>
       NoTopic(c) /\ \A h \in Conns : bound[h] = c => ~Asking(h)
  /\ \A h \in Conns : bound[h] = c /\ Asking(h) =>
       NoTopic(c) /\ \A k \in Conns : bound[k] = c /\ Asking(k) => k = h
  /\ {subscribed[c], pending[c]} \subseteq {NoSymbol, chosen[c]}

IsFeed(p) == p.type \in {"MarketUpdate", "ReplayDone"}

\* A packet that waits for client c suits what the client has done.
Fits(c, p) ==
  \/ p.type = "Welcome" /\ stage[c] = "waiting"
  \/ p.type = "Error" /\ stage[c] # "waiting" /\ chosen[c] \notin Symbols
  \/ p.type = "MarketUpdate" /\ subscribed[c] # NoSymbol /\ p.n < Rows[chosen[c]]
  \/ p.type = "ReplayDone" /\ subscribed[c] # NoSymbol

PacketsFit(c) ==
  /\ \A i \in DOMAIN outbox[c] : Fits(c, outbox[c][i])
  /\ stage[c] = "waiting" => Len(outbox[c]) <= 1

\* The events of the feed of c, in the cycle of its passes.
Event(c, p) == IF p.type = "MarketUpdate" THEN p.n ELSE Rows[chosen[c]]
After(c, e) == IF e = Rows[chosen[c]] THEN 0 ELSE e + 1

\* The events before client c: those in its packets, then the next one sent.
Ahead(c, i) ==
  IF i <= Len(outbox[c]) THEN Event(c, outbox[c][i]) ELSE After(c, heard[c])

\* The count of client c is what it has handled of the pass of its next event.
Counts(c) ==
  stage[c] # "exited" =>
    /\ heard[c] = -1 =>
         /\ \A i \in DOMAIN outbox[c] : ~IsFeed(outbox[c][i])
         /\ tickCount[c] = 0
         /\ c \notin reported
    /\ heard[c] # -1 =>
         /\ tickCount[c] <= Ahead(c, 1)
         /\ c \in reported => tickCount[c] = Ahead(c, 1)
         /\ \A i \in DOMAIN outbox[c] : Ahead(c, i + 1) = After(c, Ahead(c, i))

ClientInv(c) == AskedOnce(c) /\ PacketsFit(c) /\ Counts(c)

SystemInv ==
  /\ IInv
  /\ StreamInv
  /\ SystemTypes
  /\ RequestsMeant
  /\ BoundInv
  /\ ExitedIsGone
  /\ HeardOfTopic
  /\ RefusalLost
  /\ \A c \in Conns \ mistaken : ClientInv(c)

-----------------------------------------------------------------------------
(* A client is one of the peers of SessionManager.                         *)

LEMMA InitSystemTypes == SystemInit => SystemTypes
BY DEF SystemInit, SystemTypes

LEMMA NextSystemTypes == SystemTypes /\ [SystemNext]_systemVars => SystemTypes'
<1> SUFFICES ASSUME SystemTypes, [SystemNext]_systemVars PROVE SystemTypes'
  OBVIOUS
<1> USE DEF SystemTypes
<1>1. CASE UNCHANGED systemVars
  BY <1>1 DEF systemVars, systemClientVars
<1>2. CASE ServerStep /\ SystemNext /\ UNCHANGED systemClientVars
  BY <1>2 DEF SystemNext, systemClientVars
<1>3. ASSUME NEW c \in Conns, Client(c), UNCHANGED mistaken
      PROVE  SystemTypes'
  BY <1>3 DEF Client, ClientHandle, ClientSubscribe, ClientExit, HandleWelcome,
     HandleUpdate, HandleReplayDone, HandleError, systemClientVars
<1> QED
  BY <1>1, <1>2, <1>3 DEF SystemNext

\* What a client asks for is a request of a peer.
LEMMA AskIsRequest ==
  ASSUME SystemTypes, NEW c \in Conns
  PROVE  Ask(c) \in PeerRequests
BY SystemAssumption DEF SystemTypes, Ask

LEMMA ClientIsPeer ==
  ASSUME SystemTypes, NEW c \in Conns, Client(c)
  PROVE  \/ PeerConnect(c)
         \/ \E r \in PeerRequests : PeerSend(c, r)
         \/ PeerRead(c)
         \/ PeerGone(c)
BY AskIsRequest DEF Client, ClientHandle, ClientSubscribe, ClientExit

LEMMA SystemIsServer ==
  ASSUME SystemTypes, [SystemNext]_systemVars
  PROVE  [Next]_vars
<1>1. CASE UNCHANGED systemVars
  BY <1>1 DEF systemVars
<1>2. CASE ServerStep
  BY <1>2 DEF ServerStep, Next
<1>3. CASE \E c \in Conns : Client(c)
  BY <1>3, ClientIsPeer DEF Next
<1> QED
  BY <1>1, <1>2, <1>3 DEF SystemNext

\* The client programs are peers the server was proved correct for: whatever
\* holds of the server with any peers holds of the whole program.
THEOREM SystemIsOfPeers == SystemSpec => Spec
<1>1. SystemTypes /\ [SystemNext]_systemVars => [Next]_vars
  BY SystemIsServer
<1>2. SystemInit => Init
  BY DEF SystemInit
<1> QED
  BY <1>1, <1>2, InitSystemTypes, NextSystemTypes, PTL DEF SystemSpec, Spec

-----------------------------------------------------------------------------
(* What all requests and descriptors have in common.                       *)

LEMMA AskDispatch ==
  ASSUME SystemTypes, NEW c \in Conns
  PROVE  /\ Dispatch(Ask(c)) = IF chosen[c] \in Symbols THEN "lookup" ELSE "error"
         /\ Ask(c).symbol = chosen[c]
BY DEF Ask, Dispatch

\* A receive takes the one request there is.
LEMMA ReceivesAsk ==
  ASSUME TypeInv, SystemTypes, RequestsMeant, NEW h \in Conns, HandlerReceive(h)
  PROVE  /\ bound[h] \in Conns
         /\ inbox[bound[h]] # <<>>
         /\ request' = [request EXCEPT ![h] = chosen[bound[h]]]
         /\ pc' = [pc EXCEPT ![h] = IF chosen[bound[h]] \in Symbols
                                    THEN "lookup" ELSE "error"]
         /\ inbox' = [inbox EXCEPT ![bound[h]] = Tail(@)]
         /\ UNCHANGED bound
<1>1. /\ pc[h] = "recv" /\ bound[h] \in Conns /\ inbox[bound[h]] # <<>>
      /\ inbox[bound[h]] \in Seq(Request)
  BY DEF HandlerReceive, TypeInv, TypeOK, LocalsOK
<1>2. Head(inbox[bound[h]]) = Ask(bound[h])
  BY <1>1 DEF RequestsMeant
<1> QED
  BY <1>1, <1>2, AskDispatch DEF HandlerReceive, Goto, handlerVars

requestVars == <<inbox, requestCount, pc, bound, request, clientFd>>

\* Workers and main touch no request and no local of a handler.
LEMMA OthersLeaveRequests ==
  ASSUME \/ AcceptCheck \/ AcceptFails \/ Main \/ MainStop \/ Terminated
         \/ \E s \in Symbols : Worker(s)
  PROVE  UNCHANGED requestVars
<1> USE DEF peerVars, listenVars, socketVars, clientVars, mainVars,
            handlerVars, workerVars, requestVars
<1>1. ASSUME NEW s \in Symbols, Worker(s) PROVE UNCHANGED requestVars
  BY <1>1 DEF Worker, WorkerReset, WorkerCheck, WorkerTick, WorkerSend,
     WorkerRelease
<1>2. CASE Main
  BY <1>2 DEF Main, MainRegister, MainActivate, MainReplay, MainCloseListener,
     MainJoin, MainCloseClients
<1>3. CASE AcceptCheck \/ AcceptFails \/ MainStop \/ Terminated
  BY <1>3 DEF AcceptCheck, AcceptFails, MainStop, Terminated, vars
<1> QED
  BY <1>1, <1>2, <1>3

\* The handler that accept() starts is new to everybody.
LEMMA AcceptsNew ==
  ASSUME TypeInv, FdInv, NEW c \in Conns, NEW f \in Fds, Accept(c, f)
  PROVE  /\ pc[c] = "none"
         /\ pc' = [pc EXCEPT ![c] = "push"]
         /\ clientFd' = [clientFd EXCEPT ![c] = f]
         /\ fdTable' = [fdTable EXCEPT ![f] = c]
         /\ fdTable[f] = NoConn
         /\ UNCHANGED <<inbox, requestCount, bound, request, outbox, subscribed,
                        pending, heard, peer>>
BY DEF Accept, FdInv, AcceptedOnce, peerVars, clientVars

\* The steps of a handler, by what they do to its locals.
LEMMA HandlerMoves ==
  ASSUME TypeInv, SystemTypes, RequestsMeant, NEW h \in Conns, Handler(h)
  PROVE  /\ UNCHANGED <<clientFd, requestCount>>
         /\ \/ HandlerReceive(h)
            \/ /\ HandlerLookup(h)
               /\ UNCHANGED <<inbox, bound, request>>
               /\ pc' = [pc EXCEPT ![h] = "subscribe"]
            \/ /\ HandlerSubscribe(h)
               /\ UNCHANGED <<inbox, bound, request>>
               /\ pc' = [pc EXCEPT ![h] =
                           IF Matching(clientFd[h]) = {} THEN "error" ELSE "loop"]
            \/ /\ HandlerRead(h)
               /\ UNCHANGED <<inbox, request>>
               /\ \/ /\ Behind(clientFd[h]) # NoConn
                     /\ pc' = [pc EXCEPT ![h] = "recv"]
                     /\ bound' = [bound EXCEPT ![h] = Behind(clientFd[h])]
                  \/ /\ pc' = [pc EXCEPT ![h] = "exit"]
                     /\ UNCHANGED bound
            \/ /\ HandlerPush(h)
               /\ UNCHANGED <<inbox, bound, request>>
               /\ pc' = [pc EXCEPT ![h] = "welcome"]
            \/ /\ HandlerReply(h) \/ HandlerLoop(h) \/ HandlerReceiveFails(h)
                  \/ HandlerRemove(h)
               /\ UNCHANGED <<inbox, bound, request>>
               /\ \E label \in {"loop", "read", "exit", "done"} :
                    pc' = [pc EXCEPT ![h] = label]
<1> USE DEF peerVars, listenVars, socketVars, clientVars, mainVars,
            handlerVars, workerVars, Goto
<1>1. CASE HandlerReceive(h)
  BY <1>1 DEF HandlerReceive
<1>2. CASE HandlerSubscribe(h)
  BY <1>2 DEF HandlerSubscribe
<1>3. CASE HandlerRead(h)
  BY <1>3 DEF HandlerRead
<1>4. CASE HandlerPush(h) \/ HandlerLookup(h)
  BY <1>4 DEF HandlerPush, HandlerLookup
<1>5. CASE HandlerReply(h) \/ HandlerLoop(h) \/ HandlerReceiveFails(h)
           \/ HandlerRemove(h)
  BY <1>5 DEF HandlerReply, HandlerLoop, HandlerReceiveFails, HandlerRemove
<1>6. ~HandlerUnsubscribe(h)
  BY DEF HandlerUnsubscribe, RequestsMeant
<1> QED
  BY <1>1, <1>2, <1>3, <1>4, <1>5, <1>6 DEF Handler

LEMMA HandlerRequests ==
  ASSUME TypeInv, SystemTypes, RequestsMeant, NEW h \in Conns, Handler(h),
         UNCHANGED chosen
  PROVE  RequestsMeant'
<1>1. /\ pc \in [Conns -> HandlerLabels] /\ request \in [Conns -> AnySymbol]
      /\ inbox \in [Conns -> Seq(Request)]
      /\ bound \in [Conns -> Conns \cup {NoConn}]
  BY DEF TypeInv, TypeOK
<1>2. CASE HandlerReceive(h)
  <2>1. PICK c \in Conns : c = bound[h]
    BY <1>2, ReceivesAsk
  <2>2. /\ inbox[c] \in Seq(Request) /\ inbox[c] # <<>>
        /\ inbox' = [inbox EXCEPT ![c] = Tail(@)]
        /\ request' = [request EXCEPT ![h] = chosen[c]]
        /\ \E label \in {"lookup", "error"} : pc' = [pc EXCEPT ![h] = label]
        /\ UNCHANGED bound
    BY <1>1, <1>2, <2>1, ReceivesAsk
  <2>3. \A i \in DOMAIN Tail(inbox[c]) :
           Tail(inbox[c])[i] = inbox[c][i + 1] /\ i + 1 \in DOMAIN inbox[c]
    BY <2>2
  <2>4. \A k \in Conns : \A i \in DOMAIN inbox'[k] : inbox'[k][i] = Ask(k)'
    BY <1>1, <2>2, <2>3 DEF RequestsMeant, Ask
  <2>5. \A k \in Conns :
          /\ pc'[k] \notin {"unsubscribe", "heartbeat"}
          /\ Asking(k)' => bound'[k] \in Conns /\ request'[k] = chosen'[bound'[k]]
    BY <1>1, <2>1, <2>2 DEF RequestsMeant, Asking
  <2> QED
    BY <2>4, <2>5 DEF RequestsMeant
<1>3. CASE ~HandlerReceive(h)
  <2>1. UNCHANGED <<inbox, request>>
    BY <1>3, HandlerMoves
  <2>2. /\ pc'[h] \notin {"unsubscribe", "heartbeat"}
        /\ \A k \in Conns \ {h} : pc'[k] = pc[k] /\ bound'[k] = bound[k]
        /\ Asking(h)' => Asking(h) /\ bound'[h] = bound[h]
    BY <1>1, <1>3, HandlerMoves DEF Asking, HandlerLookup, HandlerSubscribe
  <2> QED
    BY <2>1, <2>2 DEF RequestsMeant, Asking, Ask
<1> QED
  BY <1>2, <1>3

\* Apart from accept(), descriptors are only closed.
LEMMA TableShrinks ==
  ASSUME TypeInv,
         \/ AcceptCheck \/ AcceptFails \/ Main \/ MainStop \/ Terminated
         \/ \E h \in Conns : Handler(h)
         \/ \E s \in Symbols : Worker(s)
  PROVE  \A f \in Fds : fdTable'[f] \in {fdTable[f], NoConn}
<1> USE DEF peerVars, listenVars, socketVars, clientVars, mainVars,
            handlerVars, workerVars, TypeInv, TypeOK, Close
<1>1. ASSUME NEW h \in Conns, Handler(h)
      PROVE  \A f \in Fds : fdTable'[f] \in {fdTable[f], NoConn}
  <2>1. CASE HandlerRemove(h)
    BY <2>1 DEF HandlerRemove
  <2> QED
    BY <1>1, <2>1 DEF Handler, HandlerPush, HandlerReply, HandlerLoop,
       HandlerRead, HandlerReceive, HandlerReceiveFails, HandlerLookup, HandlerSubscribe,
       HandlerUnsubscribe
<1>2. ASSUME NEW s \in Symbols, Worker(s)
      PROVE  \A f \in Fds : fdTable'[f] \in {fdTable[f], NoConn}
  BY <1>2 DEF Worker, WorkerReset, WorkerCheck, WorkerTick, WorkerSend,
     WorkerRelease
<1>3. CASE Main
  BY <1>3 DEF Main, MainRegister, MainActivate, MainReplay, MainCloseListener,
     MainJoin, MainCloseClients
<1>4. CASE AcceptCheck \/ AcceptFails \/ MainStop \/ Terminated
  BY <1>4 DEF AcceptCheck, AcceptFails, MainStop, Terminated, vars
<1> QED
  BY <1>1, <1>2, <1>3, <1>4

\* The parts of the client that a step of it leaves to the server.
LEMMA ClientLeaves ==
  ASSUME NEW c \in Conns, Client(c)
  PROVE  UNCHANGED <<shutDown, fdTable, clientVars, feeds, mainVars, acceptPc,
                     handlerVars, workerVars, heard, chosen>>
BY DEF Client, ClientHandle, ClientSubscribe, ClientExit, HandleWelcome,
   HandleUpdate, HandleReplayDone, HandleError, systemClientVars,
   PeerConnect, PeerSend, PeerRead, PeerGone, peerVars, listenVars, socketVars

LEMMA ClientRequests ==
  ASSUME TypeInv, SystemTypes, RequestsMeant, NEW c \in Conns, Client(c)
  PROVE  RequestsMeant'
<1>1. UNCHANGED <<pc, bound, request, chosen>>
  BY ClientLeaves DEF handlerVars
<1>2. inbox \in [Conns -> Seq(Request)] /\ Ask(c) \in Request
  BY AskIsRequest, SessionAssumption DEF TypeInv, TypeOK
<1>3. \/ UNCHANGED inbox
      \/ inbox' = [inbox EXCEPT ![c] = Append(@, Ask(c))]
  BY DEF Client, ClientHandle, ClientSubscribe, ClientExit,
     PeerConnect, PeerSend, PeerRead, PeerGone, peerVars
<1>4. \A i \in DOMAIN Append(inbox[c], Ask(c)) :
         Append(inbox[c], Ask(c))[i] =
           IF i \in DOMAIN inbox[c] THEN inbox[c][i] ELSE Ask(c)
  BY <1>2
<1>5. \A k \in Conns : \A i \in DOMAIN inbox'[k] : inbox'[k][i] = Ask(k)
  BY <1>2, <1>3, <1>4 DEF RequestsMeant
<1> QED
  BY <1>1, <1>5 DEF RequestsMeant, Asking, Ask

LEMMA RequestsNext ==
  ASSUME IInv, SystemTypes, RequestsMeant, [SystemNext]_systemVars
  PROVE  RequestsMeant'
<1>1. CASE \E c \in Conns : Client(c)
  BY <1>1, ClientRequests DEF IInv
<1>2. ASSUME UNCHANGED requestVars, UNCHANGED chosen PROVE RequestsMeant'
  BY <1>2 DEF RequestsMeant, Asking, Ask, requestVars
<1>3. CASE UNCHANGED systemVars
  BY <1>2, <1>3 DEF systemVars, systemClientVars, vars, peerVars, handlerVars,
     requestVars
<1>4. CASE ServerStep /\ UNCHANGED chosen
  <2>1. ASSUME NEW c \in Conns, NEW f \in Fds, Accept(c, f)
        PROVE  RequestsMeant'
    BY <1>4, <2>1, AcceptsNew DEF RequestsMeant, Asking, Ask, IInv, TypeInv, TypeOK
  <2> QED
    BY <1>2, <1>4, <2>1, HandlerRequests, OthersLeaveRequests DEF ServerStep, IInv
<1> QED
  BY <1>1, <1>3, <1>4 DEF SystemNext, systemClientVars

LEMMA HandlerBound ==
  ASSUME IInv, SystemTypes, RequestsMeant, BoundInv, NEW h \in Conns, Handler(h)
  PROVE  BoundInv'
<1>1. /\ pc \in [Conns -> HandlerLabels]
      /\ bound \in [Conns -> Conns \cup {NoConn}]
      /\ clientFd[h] \in Fds \cup {NoFd}
  BY DEF IInv, TypeInv, TypeOK
<1>2. \A f \in Fds : fdTable'[f] \in {fdTable[f], NoConn}
  BY TableShrinks DEF IInv
<1>3. NoConn \notin Conns
  BY SessionAssumption
<1>4. /\ \A k \in Conns \ {h} : pc'[k] = pc[k] /\ bound'[k] = bound[k]
      /\ pc'[h] \notin {"none", "push"}
      /\ pc'[h] = "welcome" => pc[h] = "push" /\ bound'[h] = bound[h]
  <2>1. CASE HandlerReceive(h)
    BY <1>1, <2>1, ReceivesAsk DEF IInv
  <2>2. CASE HandlerPush(h)
    BY <1>1, <2>2 DEF HandlerPush, Goto
  <2>3. CASE ~HandlerReceive(h) /\ ~HandlerPush(h)
    BY <1>1, <2>3, HandlerMoves DEF IInv
  <2> QED
    BY <2>1, <2>2, <2>3
<1>5. \/ bound'[h] = bound[h]
      \/ bound'[h] = Behind(clientFd[h]) /\ Behind(clientFd[h]) # NoConn
  BY <1>1, HandlerMoves, ReceivesAsk DEF IInv
<1>6. CASE bound'[h] = bound[h]
  BY <1>2, <1>3, <1>4, <1>6 DEF BoundInv
<1>7. CASE bound'[h] = Behind(clientFd[h]) /\ Behind(clientFd[h]) # NoConn
  <2>1. PICK d \in Conns : d = Behind(clientFd[h])
    BY <1>1, <1>7, BehindType DEF IInv, TypeInv
  <2>2. clientFd[h] \in Fds /\ fdTable[clientFd[h]] = d
    BY <1>1, <1>3, <2>1 DEF Behind
  <2>3. pc[d] # "none"
    BY <2>2 DEF IInv, FdInv, OpenFdsKnown, AcceptedOnce
  <2>4. \A f \in Fds : fdTable[f] = h => d = h
    BY <2>2 DEF IInv, FdInv, OpenFdsKnown
  <2> QED
    BY <1>2, <1>3, <1>4, <1>7, <2>1, <2>3, <2>4 DEF BoundInv
<1> QED
  BY <1>5, <1>6, <1>7

LEMMA BoundNext ==
  ASSUME IInv, SystemTypes, RequestsMeant, BoundInv, [SystemNext]_systemVars
  PROVE  BoundInv'
<1>1. ASSUME UNCHANGED <<pc, bound>>,
             \A f \in Fds : fdTable'[f] \in {fdTable[f], NoConn}
      PROVE  BoundInv'
  BY <1>1, SessionAssumption DEF BoundInv
<1>2. CASE \E c \in Conns : Client(c)
  BY <1>1, <1>2, ClientLeaves DEF handlerVars
<1>3. CASE UNCHANGED systemVars
  BY <1>1, <1>3 DEF systemVars, vars, handlerVars, socketVars
<1>4. CASE ServerStep
  <2>1. ASSUME NEW c \in Conns, NEW f \in Fds, Accept(c, f)
        PROVE  BoundInv'
    <3>1. /\ pc[c] = "none" /\ bound[c] = NoConn
          /\ \A k \in Conns : pc'[k] = IF k = c THEN "push" ELSE pc[k]
          /\ \A x \in Fds : fdTable'[x] = IF x = f THEN c ELSE fdTable[x]
          /\ UNCHANGED bound
      BY <2>1, AcceptsNew DEF BoundInv, IInv, TypeInv, TypeOK
    <3> QED
      BY <3>1 DEF BoundInv
  <2> QED
    BY <1>1, <1>4, <2>1, HandlerBound, OthersLeaveRequests, TableShrinks
       DEF ServerStep, IInv, requestVars
<1> QED
  BY <1>2, <1>3, <1>4 DEF SystemNext

-----------------------------------------------------------------------------
(* What a step of the server may do for one client that no handler has     *)
(* taken for another.                                                      *)

Unserved(c) == UNCHANGED <<outbox[c], subscribed[c], pending[c], heard[c]>>

Answered(c, type) ==
  /\ peer[c] = "up"
  /\ outbox'[c] = Append(outbox[c], Plain(type))
  /\ UNCHANGED <<subscribed[c], pending[c], heard[c]>>

Welcomed(c) ==
  /\ pc[c] = "welcome"
  /\ pc' = [pc EXCEPT ![c] = "loop"]
  /\ Answered(c, "Welcome")

Refused(c) ==
  /\ \E h \in Conns : pc[h] = "error" /\ bound[h] = c /\ Behind(clientFd[h]) = c
  /\ Answered(c, "Error")

Enrolled(c) ==
  /\ \E h \in Conns : /\ pc[h] = "subscribe" /\ bound[h] = c
                      /\ pc' = [pc EXCEPT ![h] = "loop"]
  /\ {subscribed'[c], pending'[c]} \subseteq {NoSymbol, chosen[c]}
  /\ heard'[c] = -1
  /\ outbox'[c] = outbox[c]

Woken(c) ==
  /\ pending[c] # NoSymbol
  /\ subscribed'[c] = pending[c]
  /\ pending'[c] = NoSymbol
  /\ heard'[c] = -1
  /\ outbox'[c] = outbox[c]

Ticked(c) ==
  /\ peer[c] = "up"
  /\ Service!Deliver(c)
  /\ pending'[c] = pending[c]

HandlerServes(c) == Unserved(c) \/ Welcomed(c) \/ Refused(c) \/ Enrolled(c)

LEMMA OwnServes ==
  ASSUME NEW c \in Conns, ~ServedByOther(c), NEW h \in Conns, pc'[h] # pc[h],
         ~Unserved(c)
  PROVE  h = c \/ bound[h] = c
BY DEF ServedByOther, Unserved

\* A handler whose descriptor leads to its own connection reads from it.
LEMMA OwnBound ==
  ASSUME TypeInv, RequestsMeant, BoundInv, NEW c \in Conns, Asking(c),
         Behind(clientFd[c]) = c
  PROVE  bound[c] = c
<1>1. clientFd[c] \in Fds /\ fdTable[clientFd[c]] = c
  BY SessionAssumption DEF TypeInv, TypeOK, Behind
<1> QED
  BY <1>1, SessionAssumption DEF BoundInv, RequestsMeant

LEMMA HandlerEffect ==
  ASSUME IInv, SystemTypes, RequestsMeant, BoundInv, NEW h \in Conns, Handler(h),
         NEW c \in Conns, ~ServedByOther(c)
  PROVE  HandlerServes(c)
<1> USE DEF IInv, peerVars, listenVars, socketVars, clientVars, mainVars,
            handlerVars, workerVars
<1>1. CASE HandlerReply(h)
  <2>1. pc' = [pc EXCEPT ![h] = "loop"] /\ pc \in [Conns -> HandlerLabels]
    BY <1>1 DEF HandlerReply, Goto, TypeInv, TypeOK
  <2>2. PICK type \in {"Welcome", "Heartbeat", "Error"} :
          /\ pc[h] = CASE type = "Welcome" -> "welcome"
                       [] type = "Heartbeat" -> "heartbeat"
                       [] type = "Error" -> "error"
          /\ SendPacket(clientFd[h], Plain(type))
    BY <1>1 DEF HandlerReply
  <2>3. UNCHANGED <<subscribed, pending, heard, peer>>
    BY <1>1 DEF HandlerReply
  <2>4. type # "Heartbeat"
    BY <2>2 DEF RequestsMeant
  <2>5. CASE UNCHANGED outbox
    BY <2>3, <2>5 DEF HandlerServes, Unserved
  <2>6. ASSUME Sendable(Behind(clientFd[h])),
               outbox' = [outbox EXCEPT ![Behind(clientFd[h])] = Append(@, Plain(type))]
        PROVE  HandlerServes(c)
    <3>1. CASE Behind(clientFd[h]) # c
      BY <2>3, <2>6, <3>1 DEF HandlerServes, Unserved, TypeInv, TypeOK
    <3>2. CASE Behind(clientFd[h]) = c
      <4>1. Answered(c, type)
        BY <2>3, <2>6, <3>2 DEF Answered, Sendable, TypeInv, TypeOK
      <4>2. ~Unserved(c)
        <5>1. outbox[c] \in Seq(Packet)
          BY DEF TypeInv, TypeOK
        <5>2. Len(Append(outbox[c], Plain(type))) # Len(outbox[c])
          BY <5>1
        <5> QED
          BY <4>1, <5>2 DEF Answered, Unserved
      <4>3. h = c \/ bound[h] = c
        BY <2>1, <2>2, <4>2, OwnServes
      <4>4. CASE type = "Welcome"
        <5>1. pc[h] = "welcome"
          BY <2>2, <4>4
        <5>2. bound[h] = NoConn
          BY <5>1 DEF BoundInv
        <5> QED
          BY <2>1, <4>1, <4>3, <4>4, <5>1, <5>2, SessionAssumption
             DEF HandlerServes, Welcomed
      <4>5. CASE type = "Error"
        <5>1. pc[h] = "error"
          BY <2>2, <4>5
        <5>2. bound[h] = c
          BY <3>2, <4>3, <5>1, OwnBound DEF Asking
        <5> QED
          BY <3>2, <4>1, <4>5, <5>1, <5>2 DEF HandlerServes, Refused
      <4> QED
        BY <2>4, <4>4, <4>5
    <3> QED
      BY <3>1, <3>2
  <2> QED
    BY <2>2, <2>5, <2>6 DEF SendPacket
<1>2. CASE HandlerSubscribe(h)
  <2>1. pc[h] = "subscribe" /\ UNCHANGED <<outbox, request>> /\ Asking(h)
    BY <1>2 DEF HandlerSubscribe, Asking
  <2>2. CASE UNCHANGED <<subscribed, pending, heard>>
    BY <2>1, <2>2 DEF HandlerServes, Unserved
  <2>3. ASSUME NEW k \in Matching(clientFd[h]),
               \/ SetSymbols(k, request[h], NoSymbol)
               \/ SetSymbols(k, NoSymbol, request[h]),
               pc' = [pc EXCEPT ![h] = "loop"]
        PROVE  HandlerServes(c)
    <3>1. CASE k # c
      BY <2>1, <2>3, <3>1 DEF HandlerServes, Unserved, SetSymbols, TypeInv, TypeOK
    <3>2. CASE k = c /\ ~Unserved(c)
      <4>1. clientFd[h] \in Fds /\ c \in sessions /\ socketFd[c] = clientFd[h]
        BY <2>1, <3>2 DEF Matching, FdInv, AcceptedOnce
      <4>2. Behind(clientFd[h]) = c
        BY <4>1, SessionAssumption DEF FdInv, EntriesOwnFd, Behind
      <4>3. h = c \/ bound[h] = c
        BY <2>1, <2>3, <3>2, OwnServes DEF TypeInv, TypeOK
      <4>4. bound[h] = c
        BY <2>1, <4>2, <4>3, OwnBound
      <4>5. request[h] = chosen[c]
        BY <2>1, <4>4 DEF RequestsMeant
      <4>6. /\ {subscribed'[c], pending'[c]} \subseteq {NoSymbol, chosen[c]}
            /\ heard'[c] = -1
        BY <2>3, <3>2, <4>5 DEF SetSymbols, TypeInv, TypeOK
      <4> QED
        BY <2>1, <2>3, <4>4, <4>6 DEF HandlerServes, Enrolled
    <3> QED
      BY <3>1, <3>2 DEF HandlerServes
  <2> QED
    BY <1>2, <2>2, <2>3 DEF HandlerSubscribe, Goto
<1>3. CASE ~HandlerReply(h) /\ ~HandlerSubscribe(h)
  <2>1. ~HandlerUnsubscribe(h)
    BY DEF HandlerUnsubscribe, RequestsMeant
  <2> QED
    BY <1>3, <2>1 DEF Handler, HandlerPush, HandlerLoop, HandlerRead,
       HandlerReceive, HandlerReceiveFails, HandlerLookup, HandlerRemove, HandlerServes, Unserved
<1> QED
  BY <1>1, <1>2, <1>3

LEMMA WorkerEffect ==
  ASSUME IInv, StreamInv, NEW s \in Symbols, Worker(s), NEW c \in Conns
  PROVE  Unserved(c) \/ Ticked(c)
<1> USE DEF IInv, peerVars, listenVars, socketVars, clientVars, mainVars,
            handlerVars, workerVars
<1>1. CASE WorkerReset(s) \/ WorkerCheck(s) \/ WorkerTick(s) \/ WorkerRelease(s)
  BY <1>1 DEF WorkerReset, WorkerCheck, WorkerTick, WorkerRelease, Unserved
<1>2. ASSUME NEW k \in Conns, WorkerSend(s, k) PROVE Unserved(c) \/ Ticked(c)
  <2>1. UNCHANGED <<subscribed, pending>>
    BY <1>2 DEF WorkerSend
  <2>2. CASE UNCHANGED <<outbox, heard>>
    BY <2>1, <2>2 DEF Unserved
  <2>3. ASSUME NEW p,
               p.type \in {"MarketUpdate", "ReplayDone"},
               outbox' = [outbox EXCEPT ![k] = Append(@, p)],
               heard' = [heard EXCEPT ![k] = FeedEvent(s)],
               Reachable(k)
        PROVE  Unserved(c) \/ Ticked(c)
    <3>1. CASE k # c
      BY <2>1, <2>3, <3>1 DEF Unserved, TypeInv, TypeOK
    <3>2. CASE k = c
      <4>1. outbox[c] \in Seq(Packet) /\ outbox'[c] = Append(outbox[c], p)
        BY <2>3, <3>2 DEF TypeInv, TypeOK
      <4>2. /\ Len(outbox'[c]) = Len(outbox[c]) + 1
            /\ outbox'[c][Len(outbox'[c])] = p
        BY <4>1
      <4>3. outbox'[c] # outbox[c]
        BY <4>2, <4>1
      <4>4. outbox[c] # <<>> => outbox'[c] \notin {Tail(outbox[c]), <<>>}
        BY <4>1, <4>2
      <4>5. ServiceStep(c)
        BY WorkerShows
      <4>6. ~Service!Reply(c)
        BY <2>3, <4>2 DEF Service!Reply, Service!Sent
      <4>7. Service!Deliver(c)
        BY <4>3, <4>4, <4>5, <4>6
           DEF ServiceStep, Service!Step, Service!Choose, Service!Take
      <4> QED
        BY <2>1, <2>3, <3>2, <4>7 DEF Ticked, Reachable
    <3> QED
      BY <3>1, <3>2
  <2>4. /\ MarketUpdate(s).type = "MarketUpdate"
        /\ ReplayDone(s).type = "ReplayDone"
    BY DEF MarketUpdate, ReplayDone
  <2> QED
    BY <1>2, <2>2, <2>3, <2>4, TurnOutcome
<1> QED
  BY <1>1, <1>2 DEF Worker

LEMMA MainEffect ==
  ASSUME IInv, Main \/ MainStop, NEW c \in Conns
  PROVE  Unserved(c) \/ Woken(c)
<1> USE DEF IInv, peerVars, listenVars, socketVars, clientVars, mainVars,
            handlerVars, workerVars
<1>1. CASE MainActivate
  <2>1. activating # NoSymbol
    BY <1>1, SessionAssumption DEF MainActivate, FeedInv, TypeInv, TypeOK
  <2>2. CASE c \in Waiting(activating)
    BY <1>1, <2>1, <2>2 DEF MainActivate, Waiting, Woken
  <2>3. CASE c \notin Waiting(activating)
    BY <1>1, <2>3 DEF MainActivate, Unserved
  <2> QED
    BY <2>2, <2>3
<1>2. CASE ~MainActivate
  BY <1>2 DEF Main, MainRegister, MainReplay, MainStop, MainCloseListener,
     MainJoin, MainCloseClients, Unserved
<1> QED
  BY <1>1, <1>2

LEMMA ServerEffect ==
  ASSUME IInv, StreamInv, SystemTypes, RequestsMeant, BoundInv, ServerStep,
         NEW c \in Conns, ~ServedByOther(c)
  PROVE  HandlerServes(c) \/ Woken(c) \/ Ticked(c)
<1>1. CASE \/ AcceptCheck \/ AcceptFails \/ Terminated
           \/ \E k \in Conns, f \in Fds : Accept(k, f)
  BY <1>1 DEF AcceptCheck, AcceptFails, Terminated, Accept, vars, socketVars,
     clientVars, HandlerServes, Unserved
<1> QED
  BY <1>1, HandlerEffect, WorkerEffect, MainEffect DEF ServerStep, HandlerServes

-----------------------------------------------------------------------------
(* The invariant step by step.                                             *)

LEMMA HeardNext ==
  ASSUME IInv, StreamInv, SystemTypes, HeardOfTopic, [SystemNext]_systemVars
  PROVE  HeardOfTopic'
<1> SUFFICES ASSUME NEW c \in Conns, heard'[c] # -1
             PROVE  /\ subscribed'[c] # NoSymbol
                    /\ heard'[c] \in 0 .. Rows[subscribed'[c]]
  BY DEF HeardOfTopic
<1>1. ServiceStep(c)
  BY SystemIsServer, NextShows
<1>2. CASE Service!Deliver(c)
  BY <1>2 DEF Service!Deliver, Service!Follows
<1>3. CASE ~Service!Deliver(c)
  <2>1. heard'[c] = heard[c] /\ subscribed'[c] = subscribed[c]
    BY <1>1, <1>3 DEF ServiceStep, Service!Step, Service!Choose, Service!Reply,
       Service!Take
  <2> QED
    BY <2>1 DEF HeardOfTopic
<1> QED
  BY <1>2, <1>3

\* The server reaches no peer that has gone.
LEMMA GoneStays ==
  ASSUME TypeInv, ServerStep, NEW c \in Conns, peer[c] = "gone", outbox[c] = <<>>
  PROVE  peer'[c] = "gone" /\ outbox'[c] = <<>>
<1> USE DEF TypeInv, TypeOK, peerVars, listenVars, socketVars, clientVars,
            mainVars, handlerVars, workerVars
<1>1. ASSUME NEW h \in Conns, Handler(h)
      PROVE  peer'[c] = "gone" /\ outbox'[c] = <<>>
  <2>1. CASE HandlerReply(h)
    BY <2>1 DEF HandlerReply, SendPacket, Sendable
  <2> QED
    BY <1>1, <2>1 DEF Handler, HandlerPush, HandlerLoop, HandlerRead,
       HandlerReceive, HandlerReceiveFails, HandlerLookup, HandlerSubscribe,
       HandlerUnsubscribe, HandlerRemove
<1>2. ASSUME NEW s \in Symbols, Worker(s)
      PROVE  peer'[c] = "gone" /\ outbox'[c] = <<>>
  BY <1>2 DEF Worker, WorkerReset, WorkerCheck, WorkerTick, WorkerSend,
     WorkerRelease, Sendable
<1>3. CASE Main
  BY <1>3 DEF Main, MainRegister, MainActivate, MainReplay, MainCloseListener,
     MainJoin, MainCloseClients
<1>4. CASE \/ AcceptCheck \/ AcceptFails \/ MainStop \/ Terminated
           \/ \E k \in Conns, f \in Fds : Accept(k, f)
  BY <1>4 DEF AcceptCheck, AcceptFails, Accept, MainStop, Terminated, vars
<1> QED
  BY <1>1, <1>2, <1>3, <1>4 DEF ServerStep

\* A client that has left counts nothing more.
LEMMA ExitedNext ==
  ASSUME TypeInv, SystemTypes, ExitedIsGone, [SystemNext]_systemVars
  PROVE  ExitedIsGone'
<1> SUFFICES ASSUME NEW c \in Conns, stage'[c] = "exited"
             PROVE  peer'[c] = "gone" /\ outbox'[c] = <<>> /\ tickCount'[c] = 0
  BY DEF ExitedIsGone
<1>1. CASE UNCHANGED systemVars
  BY <1>1 DEF systemVars, systemClientVars, vars, peerVars, socketVars, ExitedIsGone
<1>2. ASSUME NEW k \in Conns, Client(k)
      PROVE  peer'[c] = "gone" /\ outbox'[c] = <<>> /\ tickCount'[c] = 0
  <2>1. CASE ClientExit(k)
    BY <2>1 DEF ClientExit, PeerGone, SystemTypes, TypeInv, TypeOK, ExitedIsGone
  <2>2. CASE ~ClientExit(k)
    <3>1. stage[c] = "exited" /\ peer[k] # "gone"
      BY <1>2, <2>2
         DEF Client, ClientHandle, ClientSubscribe, HandleWelcome, HandleUpdate,
             HandleReplayDone, HandleError, systemClientVars, SystemTypes,
             PeerConnect, PeerSend, PeerRead
    <3>2. k # c /\ peer[c] = "gone" /\ outbox[c] = <<>> /\ tickCount[c] = 0
      BY <3>1 DEF ExitedIsGone
    <3> QED
      BY <1>2, <2>2, <3>2
         DEF Client, ClientHandle, ClientSubscribe, HandleWelcome, HandleUpdate,
             HandleReplayDone, HandleError, systemClientVars, SystemTypes,
             PeerConnect, PeerSend, PeerRead, TypeInv, TypeOK, peerVars, socketVars
  <2> QED
    BY <2>1, <2>2
<1>3. CASE ServerStep /\ UNCHANGED systemClientVars
  BY <1>3, GoneStays DEF systemClientVars, ExitedIsGone
<1> QED
  BY <1>1, <1>2, <1>3 DEF SystemNext

\* Whoever is to refuse a request of a client that is still there means it.
LEMMA RefusalNext ==
  ASSUME IInv, SystemTypes, RequestsMeant, BoundInv, RefusalLost,
         \A c \in Conns \ mistaken : AskedOnce(c),
         [SystemNext]_systemVars
  PROVE  RefusalLost'
<1> SUFFICES ASSUME NEW h \in Conns, pc'[h] = "error", bound'[h] \notin mistaken',
                    request'[h] \in Symbols
             PROVE  Behind(clientFd[h])' # bound'[h]
  BY DEF RefusalLost
<1>1. RequestsMeant' /\ BoundInv' /\ SystemTypes'
  BY RequestsNext, BoundNext, NextSystemTypes
<1>2. PICK c \in Conns : c = bound'[h]
  BY <1>1 DEF RequestsMeant, Asking
<1>3. mistaken \subseteq mistaken'
  BY DEF SystemNext, systemVars
<1>4. /\ clientFd[h] \in Fds \cup {NoFd} /\ NoFd \notin Fds /\ NoConn \notin Conns
      /\ pc \in [Conns -> HandlerLabels]
      /\ bound \in [Conns -> Conns \cup {NoConn}]
      /\ request \in [Conns -> AnySymbol]
      /\ clientFd \in [Conns -> Fds \cup {NoFd}]
      /\ fdTable \in [Fds -> Conns \cup {NoConn}]
  BY SessionAssumption DEF IInv, TypeInv, TypeOK
<1>5. ASSUME pc[h] = "error", bound[h] = c, request[h] \in Symbols,
             clientFd'[h] = clientFd[h],
             \A f \in Fds : fdTable'[f] \in {fdTable[f], NoConn}
      PROVE  Behind(clientFd[h])' # c
  <2>1. Behind(clientFd[h]) # c
    BY <1>2, <1>3, <1>5 DEF RefusalLost
  <2> QED
    BY <1>4, <1>5, <2>1 DEF Behind
<1>6. CASE UNCHANGED systemVars
  BY <1>2, <1>5, <1>6 DEF systemVars, vars, handlerVars, socketVars
<1>7. CASE \E k \in Conns : Client(k)
  BY <1>2, <1>5, <1>7, ClientLeaves DEF handlerVars
<1>8. CASE ServerStep
  <2>1. ASSUME NEW k \in Conns, NEW f \in Fds, Accept(k, f)
        PROVE  Behind(clientFd[h])' # c
    <3>1. /\ pc[k] = "none" /\ pc[h] = "error" /\ h # k
          /\ bound[h] = c /\ request[h] \in Symbols /\ clientFd'[h] = clientFd[h]
          /\ \A x \in Fds : fdTable'[x] = IF x = f THEN k ELSE fdTable[x]
      <4>1. /\ pc[k] = "none"
            /\ pc' = [pc EXCEPT ![k] = "push"]
            /\ clientFd' = [clientFd EXCEPT ![k] = f]
            /\ fdTable' = [fdTable EXCEPT ![f] = k]
            /\ UNCHANGED <<bound, request>>
        BY <2>1, AcceptsNew DEF IInv
      <4> QED
        BY <1>2, <1>4, <4>1
    <3>2. c # k
      BY <3>1 DEF BoundInv
    <3>3. Behind(clientFd[h]) # c
      BY <1>2, <1>3, <3>1 DEF RefusalLost
    <3> QED
      BY <1>4, <3>1, <3>2, <3>3 DEF Behind
  <2>2. ASSUME NEW k \in Conns, Handler(k)
        PROVE  Behind(clientFd[h])' # c
    <3>1. \A f \in Fds : fdTable'[f] \in {fdTable[f], NoConn}
      BY <2>2, TableShrinks DEF IInv
    <3>2. UNCHANGED clientFd
      BY <2>2, HandlerMoves DEF IInv
    <3>3. CASE HandlerReceive(k)
      <4>1. k # h
        BY <1>4, <3>3, ReceivesAsk DEF IInv
      <4> QED
        BY <1>2, <1>4, <1>5, <3>1, <3>2, <3>3, <4>1, ReceivesAsk
           DEF IInv
    <3>4. CASE HandlerSubscribe(k) /\ k = h
      <4>1. /\ pc[h] = "subscribe" /\ Matching(clientFd[h]) = {}
            /\ UNCHANGED <<bound, fdTable>>
        BY <1>4, <3>4 DEF HandlerSubscribe, Goto, socketVars
      <4>2. /\ Asking(h) /\ bound[h] = c /\ c \notin mistaken
        BY <1>2, <1>3, <4>1 DEF Asking
      <4>3. pc[c] # "push"
        BY <4>2 DEF AskedOnce
      <4>4. Behind(clientFd[h]) # c
        BY <1>4, <4>1, <4>3 DEF Behind, Matching, IInv, FdInv, OpenFdsKnown
      <4> QED
        BY <3>2, <4>1, <4>4 DEF Behind
    <3>5. CASE ~HandlerReceive(k) /\ ~(HandlerSubscribe(k) /\ k = h)
      <4>1. pc[h] = "error" /\ bound[h] = c /\ UNCHANGED request
        <5>1. CASE k # h
          BY <1>2, <1>4, <2>2, <3>5, <5>1, HandlerMoves DEF IInv
        <5>2. CASE k = h
          BY <1>4, <2>2, <3>5, <5>2, HandlerMoves DEF IInv
        <5> QED
          BY <5>1, <5>2
      <4> QED
        BY <1>5, <3>1, <3>2, <4>1
    <3> QED
      BY <3>3, <3>4, <3>5
  <2>3. ASSUME \/ AcceptCheck \/ AcceptFails \/ Main \/ MainStop \/ Terminated
               \/ \E s \in Symbols : Worker(s)
        PROVE  Behind(clientFd[h])' # c
    BY <1>2, <1>5, <2>3, OthersLeaveRequests, TableShrinks DEF IInv, requestVars
  <2> QED
    BY <1>2, <1>8, <2>1, <2>2, <2>3 DEF ServerStep
<1> QED
  BY <1>2, <1>6, <1>7, <1>8 DEF SystemNext

Early(label) == label \in {"none", "push", "welcome"}

\* No handler begins to act on a request of c, and the handler of c has not
\* just started.
NobodyBegins(c) ==
  /\ \A h \in Conns : (bound'[h] = c /\ Asking(h)') => (bound[h] = c /\ Asking(h))
  /\ Early(pc'[c]) => Early(pc[c])

LEMMA AskedKept ==
  ASSUME TypeInv, NEW c \in Conns, AskedOnce(c), NobodyBegins(c),
         UNCHANGED <<requestCount[c], inbox[c], stage[c], chosen[c]>>,
         HandlerServes(c) \/ Woken(c) \/ Ticked(c)
  PROVE  AskedOnce(c)'
<1> USE DEF NobodyBegins, Early
<1>1. CASE Unserved(c)
  BY <1>1 DEF AskedOnce, NoTopic, Unserved
<1>2. CASE Welcomed(c)
  <2>1. ~Early(pc'[c])
    BY <1>2 DEF Welcomed, TypeInv, TypeOK
  <2> QED
    BY <1>2, <2>1 DEF Welcomed, Answered, AskedOnce, NoTopic
<1>3. CASE Refused(c)
  <2>1. ~Early(pc[c])
    BY <1>3 DEF Refused, AskedOnce, Asking
  <2> QED
    BY <1>3, <2>1 DEF Refused, Answered, AskedOnce, NoTopic
<1>4. CASE Enrolled(c)
  <2>1. PICK h \in Conns : /\ pc[h] = "subscribe" /\ bound[h] = c
                           /\ pc' = [pc EXCEPT ![h] = "loop"]
    BY <1>4 DEF Enrolled
  <2>2. \A k \in Conns : bound'[k] = c => ~Asking(k)'
    BY <2>1 DEF AskedOnce, Asking, TypeInv, TypeOK
  <2>3. requestCount[c] # 0 /\ inbox[c] = <<>>
    BY <2>1 DEF AskedOnce, Asking
  <2> QED
    BY <1>4, <2>2, <2>3 DEF Enrolled, AskedOnce
<1>5. CASE Woken(c) \/ Ticked(c)
  <2>1. ~NoTopic(c)
    BY <1>5 DEF Woken, Ticked, Service!Deliver, NoTopic
  <2>2. /\ requestCount[c] # 0 /\ inbox[c] = <<>>
        /\ \A h \in Conns : bound'[h] = c => ~Asking(h)'
    BY <2>1 DEF AskedOnce
  <2>3. /\ ~Early(pc'[c])
        /\ {subscribed'[c], pending'[c]} \subseteq {NoSymbol, chosen[c]}
    BY <1>5, <2>2 DEF AskedOnce, Woken, Ticked, Service!Deliver
  <2> QED
    BY <2>2, <2>3 DEF AskedOnce
<1> QED
  BY <1>1, <1>2, <1>3, <1>4, <1>5 DEF HandlerServes

\* A client's step is nobody else's.
LEMMA ClientAlone ==
  ASSUME TypeInv, SystemTypes, NEW k \in Conns, Client(k), NEW c \in Conns, c # k
  PROVE  /\ UNCHANGED <<peer[c], requestCount[c], inbox[c], outbox[c], stage[c],
                        tickCount[c]>>
         /\ c \in reported' <=> c \in reported
BY DEF Client, ClientHandle, ClientSubscribe, ClientExit, HandleWelcome,
   HandleUpdate, HandleReplayDone, HandleError, systemClientVars, PeerConnect,
   PeerSend, PeerRead, PeerGone, TypeInv, TypeOK, SystemTypes, peerVars, socketVars

\* What a client has read was a packet that suits it.
LEMMA ReadFits ==
  ASSUME TypeInv, NEW c \in Conns, PacketsFit(c), outbox[c] # <<>>
  PROVE  /\ Head(outbox[c]) = outbox[c][1]
         /\ 1 \in DOMAIN outbox[c]
         /\ Fits(c, Head(outbox[c]))
         /\ Len(Tail(outbox[c])) = Len(outbox[c]) - 1
         /\ \A i \in DOMAIN Tail(outbox[c]) :
              Tail(outbox[c])[i] = outbox[c][i + 1] /\ i + 1 \in DOMAIN outbox[c]
<1>1. outbox[c] \in Seq(Packet)
  BY DEF TypeInv, TypeOK
<1> QED
  BY <1>1 DEF PacketsFit

LEMMA ClientAsked ==
  ASSUME TypeInv, SystemTypes, NEW c \in Conns, Client(c), AskedOnce(c),
         PacketsFit(c)
  PROVE  AskedOnce(c)'
<1>1. UNCHANGED <<subscribed, pending, pc, bound, chosen>>
  BY ClientLeaves DEF clientVars, handlerVars
<1>2. /\ inbox[c] \in Seq(Request) /\ requestCount \in [Conns -> 0 .. MaxRequests]
      /\ inbox \in [Conns -> Seq(Request)] /\ outbox \in [Conns -> Seq(Packet)]
  BY DEF TypeInv, TypeOK
<1>3. CASE PeerConnect(c) /\ UNCHANGED systemClientVars
  BY <1>1, <1>3 DEF PeerConnect, systemClientVars, socketVars, AskedOnce, NoTopic,
     Asking
<1>4. CASE ClientHandle(c)
  <2>1. /\ outbox[c] # <<>> /\ UNCHANGED <<requestCount, inbox>>
    BY <1>4 DEF ClientHandle, PeerRead, peerVars
  <2>2. ~Early(pc[c])
    BY <2>1 DEF AskedOnce, Early
  <2>3. \/ stage'[c] = stage[c]
        \/ stage[c] = "waiting" /\ stage'[c] = "subscribe"
    BY <1>4, <2>1, ReadFits
       DEF ClientHandle, HandleWelcome, HandleUpdate, HandleReplayDone,
           HandleError, systemClientVars, Fits, SystemTypes
  <2> QED
    BY <1>1, <2>1, <2>2, <2>3 DEF AskedOnce, NoTopic, Asking, Early
<1>5. CASE ClientSubscribe(c)
  <2>1. /\ requestCount[c] = 0 /\ inbox[c] = <<>> /\ stage[c] = "subscribe"
        /\ ~Early(pc[c])
    BY <1>2, <1>5 DEF ClientSubscribe, AskedOnce, Early
  <2>2. /\ requestCount'[c] = 1 /\ inbox'[c] = Append(<<>>, Ask(c))
        /\ stage'[c] = "running"
    BY <1>2, <1>5, <2>1 DEF ClientSubscribe, PeerSend, SystemTypes
  <2>3. Len(Append(<<>>, Ask(c))) = 1
    OBVIOUS
  <2> QED
    BY <1>1, <2>1, <2>2, <2>3 DEF AskedOnce, NoTopic, Asking, Early
<1>6. CASE ClientExit(c)
  BY <1>1, <1>2, <1>6 DEF ClientExit, PeerGone, AskedOnce, NoTopic, Asking,
     SystemTypes
<1> QED
  BY <1>3, <1>4, <1>5, <1>6 DEF Client

\* Only a receive from c lets a handler begin to act for c.
LEMMA HandlerBegins ==
  ASSUME IInv, SystemTypes, RequestsMeant, NEW h \in Conns, Handler(h),
         NEW c \in Conns, ~(HandlerReceive(h) /\ bound[h] = c)
  PROVE  NobodyBegins(c) /\ inbox'[c] = inbox[c]
<1>1. /\ pc \in [Conns -> HandlerLabels]
      /\ bound \in [Conns -> Conns \cup {NoConn}]
      /\ inbox \in [Conns -> Seq(Request)]
  BY DEF IInv, TypeInv, TypeOK
<1>2. CASE HandlerReceive(h)
  <2>1. PICK d \in Conns : d = bound[h]
    BY <1>2, ReceivesAsk DEF IInv
  <2>2. /\ inbox' = [inbox EXCEPT ![d] = Tail(@)]
        /\ \E label \in {"lookup", "error"} : pc' = [pc EXCEPT ![h] = label]
        /\ UNCHANGED bound
    BY <1>1, <1>2, <2>1, ReceivesAsk DEF IInv
  <2> QED
    BY <1>1, <1>2, <2>1, <2>2 DEF NobodyBegins, Asking, Early
<1>3. CASE HandlerPush(h)
  BY <1>1, <1>3 DEF HandlerPush, Goto, NobodyBegins, Asking, Early, peerVars
<1>4. CASE HandlerLookup(h)
  BY <1>1, <1>4 DEF HandlerLookup, Goto, NobodyBegins, Asking, Early, peerVars
<1>5. CASE HandlerSubscribe(h)
  BY <1>1, <1>5 DEF HandlerSubscribe, Goto, NobodyBegins, Asking, Early, peerVars
<1>6. CASE ~(HandlerReceive(h) \/ HandlerPush(h) \/ HandlerLookup(h)
             \/ HandlerSubscribe(h))
  <2>1. /\ \E label \in {"read", "recv", "loop", "exit", "done"} :
             pc' = [pc EXCEPT ![h] = label]
        /\ UNCHANGED inbox
        /\ \A k \in Conns \ {h} : bound'[k] = bound[k]
    BY <1>1, <1>6, HandlerMoves DEF IInv
  <2> QED
    BY <1>1, <2>1 DEF NobodyBegins, Asking, Early
<1> QED
  BY <1>2, <1>3, <1>4, <1>5, <1>6

\* The one request of c is received.
LEMMA ReceiveAsked ==
  ASSUME TypeInv, SystemTypes, RequestsMeant, NEW h \in Conns, HandlerReceive(h),
         NEW c \in Conns, bound[h] = c, AskedOnce(c), UNCHANGED <<stage, chosen>>
  PROVE  AskedOnce(c)'
<1>1. /\ pc \in [Conns -> HandlerLabels] /\ inbox \in [Conns -> Seq(Request)]
      /\ pc[h] = "recv"
  BY DEF TypeInv, TypeOK, HandlerReceive
<1>2. /\ inbox[c] # <<>>
      /\ inbox' = [inbox EXCEPT ![c] = Tail(@)]
      /\ \E label \in {"lookup", "error"} : pc' = [pc EXCEPT ![h] = label]
      /\ UNCHANGED bound
  BY <1>1, ReceivesAsk
<1>3. UNCHANGED <<subscribed, pending, outbox, requestCount>>
  BY DEF HandlerReceive, clientVars, socketVars
<1>4. /\ requestCount[c] = 1 /\ Len(inbox[c]) = 1
      /\ NoTopic(c) /\ \A k \in Conns : bound[k] = c => ~Asking(k)
      /\ ~Early(pc[c])
  <2>1. Len(inbox[c]) \in Nat /\ Len(inbox[c]) >= 1
    BY <1>1, <1>2
  <2>2. requestCount[c] \in {0, 1} /\ Len(inbox[c]) <= requestCount[c]
    BY DEF AskedOnce
  <2>3. requestCount[c] = 1 /\ Len(inbox[c]) = 1
    <3>1. \A m, n : m \in {0, 1} /\ n \in Nat /\ n >= 1 /\ n <= m => m = 1 /\ n = 1
      OBVIOUS
    <3> QED
      BY <2>1, <2>2, <3>1
  <2> QED
    BY <1>2, <2>3 DEF AskedOnce, Early
<1>5. inbox'[c] = <<>> /\ Len(inbox'[c]) = 0
  BY <1>1, <1>2, <1>4
<1>6. \A k \in Conns : bound'[k] = c /\ Asking(k)' => k = h
  BY <1>1, <1>2, <1>4 DEF Asking
<1>7. ~Early(pc'[c])
  BY <1>1, <1>2, <1>4 DEF Early
<1> QED
  BY <1>3, <1>4, <1>5, <1>6, <1>7 DEF AskedOnce, NoTopic, Early

LEMMA AskedNext ==
  ASSUME SystemInv, [SystemNext]_systemVars, NEW c \in Conns \ mistaken'
  PROVE  AskedOnce(c)'
<1> USE DEF SystemInv
<1>1. c \notin mistaken /\ AskedOnce(c) /\ PacketsFit(c)
  BY DEF SystemNext, systemVars, ClientInv
<1>2. CASE UNCHANGED systemVars
  BY <1>1, <1>2 DEF systemVars, systemClientVars, vars, peerVars, socketVars,
     clientVars, handlerVars, AskedOnce, NoTopic, Asking
<1>3. ASSUME NEW k \in Conns, Client(k) PROVE AskedOnce(c)'
  <2>1. CASE k = c
    BY <1>1, <1>3, <2>1, ClientAsked DEF IInv
  <2>2. CASE k # c
    BY <1>1, <1>3, <2>2, ClientAlone, ClientLeaves
       DEF IInv, AskedOnce, NoTopic, Asking, clientVars, handlerVars
  <2> QED
    BY <2>1, <2>2
<1>4. CASE ServerStep /\ ~ServedByOther(c) /\ UNCHANGED systemClientVars
  <2>1. HandlerServes(c) \/ Woken(c) \/ Ticked(c)
    BY <1>4, ServerEffect
  <2>2. UNCHANGED <<stage, chosen>>
    BY <1>4 DEF systemClientVars
  <2>3. ASSUME NEW h \in Conns, Handler(h) PROVE AskedOnce(c)'
    <3>1. UNCHANGED requestCount
      BY <2>3, HandlerMoves DEF IInv
    <3>2. CASE HandlerReceive(h) /\ bound[h] = c
      BY <1>1, <2>2, <3>2, ReceiveAsked DEF IInv
    <3>3. CASE ~(HandlerReceive(h) /\ bound[h] = c)
      <4>1. NobodyBegins(c) /\ inbox'[c] = inbox[c]
        BY <2>3, <3>3, HandlerBegins
      <4> QED
        BY <1>1, <2>1, <2>2, <3>1, <4>1, AskedKept DEF IInv
    <3> QED
      BY <3>2, <3>3
  <2>4. ASSUME NEW k \in Conns, NEW f \in Fds, Accept(k, f) PROVE AskedOnce(c)'
    <3>1. /\ pc[k] = "none" /\ pc' = [pc EXCEPT ![k] = "push"]
          /\ UNCHANGED <<inbox, requestCount, bound>>
      BY <2>4, AcceptsNew DEF IInv
    <3>2. NobodyBegins(c)
      BY <3>1 DEF NobodyBegins, Asking, Early, IInv, TypeInv, TypeOK
    <3> QED
      BY <1>1, <2>1, <2>2, <3>1, <3>2, AskedKept DEF IInv
  <2>5. ASSUME \/ AcceptCheck \/ AcceptFails \/ Main \/ MainStop \/ Terminated
               \/ \E s \in Symbols : Worker(s)
        PROVE  AskedOnce(c)'
    <3>1. UNCHANGED requestVars
      BY <2>5, OthersLeaveRequests
    <3>2. NobodyBegins(c) /\ UNCHANGED <<requestCount, inbox>>
      BY <3>1 DEF NobodyBegins, Asking, Early, requestVars
    <3> QED
      BY <1>1, <2>1, <2>2, <3>2, AskedKept DEF IInv
  <2> QED
    BY <1>4, <2>3, <2>4, <2>5 DEF ServerStep
<1> QED
  BY <1>2, <1>3, <1>4 DEF SystemNext

LEMMA PacketAppended ==
  ASSUME NEW q \in Seq(Packet), NEW p
  PROVE  /\ Len(Append(q, p)) = Len(q) + 1
         /\ Append(q, p)[Len(q) + 1] = p
         /\ \A i \in DOMAIN Append(q, p) :
              \/ i \in DOMAIN q /\ Append(q, p)[i] = q[i]
              \/ i = Len(q) + 1 /\ Append(q, p)[i] = p
OBVIOUS

\* What a worker sends is the event that the client is due to hear.
LEMMA TickedPacket ==
  ASSUME TypeInv, NEW c \in Conns, AskedOnce(c), Ticked(c), HeardOfTopic
  PROVE  LET p == Service!Sent(c)
             R == Rows[chosen[c]]
         IN  /\ subscribed[c] = chosen[c] /\ chosen[c] \in Symbols
             /\ R \in Nat
             /\ subscribed'[c] = subscribed[c]
             /\ outbox'[c] = Append(outbox[c], p)
             /\ heard'[c] \in 0 .. R
             /\ p.type \in {"MarketUpdate", "ReplayDone"}
             /\ p.type = "MarketUpdate" => p.n < R /\ p.n = heard'[c]
             /\ p.type = "ReplayDone" => heard'[c] = R
             /\ heard[c] # -1 => heard[c] \in 0 .. R /\ heard'[c] = After(c, heard[c])
<1>1. subscribed[c] # NoSymbol /\ subscribed[c] = chosen[c] /\ chosen[c] \in Symbols
  BY DEF Ticked, Service!Deliver, AskedOnce, TypeInv, TypeOK
<1>2. Rows[chosen[c]] \in Nat
  BY <1>1, FeedAssumption
<1>3. /\ Service!Follows(heard[c], chosen[c], heard'[c])
      /\ Service!Announces(Service!Sent(c), chosen[c], heard'[c])
      /\ outbox'[c] = Append(outbox[c], Service!Sent(c))
      /\ subscribed'[c] = subscribed[c]
  BY <1>1 DEF Ticked, Service!Deliver, Service!Appends
<1>4. heard'[c] \in 0 .. Rows[chosen[c]]
  BY <1>3 DEF Service!Follows
<1>5. ASSUME heard[c] # -1
      PROVE  heard[c] \in 0 .. Rows[chosen[c]] /\ heard'[c] = After(c, heard[c])
  <2>1. heard[c] \in 0 .. Rows[chosen[c]]
    BY <1>1, <1>5 DEF HeardOfTopic
  <2>2. heard'[c] = (heard[c] + 1) % (Rows[chosen[c]] + 1)
    BY <1>3, <1>5 DEF Service!Follows
  <2>3. CASE heard[c] = Rows[chosen[c]]
    <3>1. (Rows[chosen[c]] + 1) % (Rows[chosen[c]] + 1) = 0
      BY <1>2
    <3> QED
      BY <2>1, <2>2, <2>3, <3>1 DEF After
  <2>4. CASE heard[c] # Rows[chosen[c]]
    <3>1. (heard[c] + 1) % (Rows[chosen[c]] + 1) = heard[c] + 1
      BY <1>2, <2>1, <2>4
    <3> QED
      BY <2>1, <2>2, <2>4, <3>1 DEF After
  <2> QED
    BY <2>3, <2>4
<1> QED
  BY <1>1, <1>2, <1>3, <1>4, <1>5 DEF Service!Announces

\* Packets of a feed are only under way to a subscribed client.
LEMMA ServerFits ==
  ASSUME TypeInv, FeedInv, SystemTypes, RequestsMeant, ExitedIsGone, HeardOfTopic,
         RefusalLost, NEW c \in Conns \ mistaken, AskedOnce(c), PacketsFit(c),
         HandlerServes(c) \/ Woken(c) \/ Ticked(c),
         UNCHANGED <<stage, chosen>>
  PROVE  PacketsFit(c)'
<1>1. outbox[c] \in Seq(Packet)
  BY DEF TypeInv, TypeOK
<1>2. CASE Unserved(c)
  BY <1>2 DEF Unserved, PacketsFit, Fits
<1>3. CASE Welcomed(c)
  <2>1. /\ outbox[c] = <<>> /\ stage[c] = "waiting"
        /\ outbox'[c] = Append(outbox[c], Plain("Welcome"))
    BY <1>3 DEF Welcomed, Answered, AskedOnce, ExitedIsGone
  <2>2. Plain("Welcome").type = "Welcome"
    BY DEF Plain
  <2> QED
    BY <1>1, <2>1, <2>2, PacketAppended DEF PacketsFit, Fits
<1>4. CASE Refused(c)
  <2>1. PICK h \in Conns : pc[h] = "error" /\ bound[h] = c /\ Behind(clientFd[h]) = c
    BY <1>4 DEF Refused
  <2>2. stage[c] # "waiting"
    BY <2>1 DEF AskedOnce, Asking
  <2>3. chosen[c] \notin Symbols
    BY <2>1 DEF RequestsMeant, Asking, RefusalLost
  <2>4. Plain("Error").type = "Error"
    BY DEF Plain
  <2>5. /\ outbox'[c] = Append(outbox[c], Plain("Error"))
        /\ UNCHANGED <<subscribed[c], stage[c], chosen[c]>>
    BY <1>4 DEF Refused, Answered
  <2> QED
    BY <1>1, <2>2, <2>3, <2>4, <2>5, PacketAppended DEF PacketsFit, Fits
<1>5. CASE Enrolled(c) \/ Woken(c)
  <2>1. subscribed[c] = NoSymbol
    BY <1>5 DEF Enrolled, Woken, AskedOnce, Asking, NoTopic, FeedInv
  <2>2. outbox'[c] = outbox[c]
    BY <1>5 DEF Enrolled, Woken
  <2> QED
    BY <2>1, <2>2 DEF PacketsFit, Fits
<1>6. CASE Ticked(c)
  <2>1. stage[c] # "waiting"
    BY <1>6 DEF Ticked, Service!Deliver, AskedOnce, NoTopic
  <2>2. PICK p : /\ p = Service!Sent(c)
                 /\ outbox'[c] = Append(outbox[c], p)
                 /\ subscribed[c] # NoSymbol /\ subscribed'[c] = subscribed[c]
                 /\ p.type \in {"MarketUpdate", "ReplayDone"}
                 /\ p.type = "MarketUpdate" => p.n < Rows[chosen[c]]
    BY <1>6, TickedPacket, SessionAssumption
  <2> QED
    BY <1>1, <2>1, <2>2, PacketAppended DEF PacketsFit, Fits
<1> QED
  BY <1>2, <1>3, <1>4, <1>5, <1>6 DEF HandlerServes

LEMMA ClientFits ==
  ASSUME TypeInv, SystemTypes, NEW c \in Conns, Client(c), AskedOnce(c),
         PacketsFit(c)
  PROVE  PacketsFit(c)'
<1>1. UNCHANGED <<subscribed, chosen>>
  BY ClientLeaves DEF clientVars
<1>2. outbox \in [Conns -> Seq(Packet)]
  BY DEF TypeInv, TypeOK
<1>3. CASE ClientHandle(c)
  <2>1. outbox[c] # <<>> /\ outbox'[c] = Tail(outbox[c])
    BY <1>2, <1>3 DEF ClientHandle, PeerRead
  <2>2. \/ stage'[c] = stage[c]
        \/ stage[c] = "waiting" /\ stage'[c] = "subscribe"
    BY <1>3, <2>1, ReadFits
       DEF ClientHandle, HandleWelcome, HandleUpdate, HandleReplayDone,
           HandleError, systemClientVars, Fits, SystemTypes
  <2>3. CASE stage[c] = "waiting"
    <3>1. Len(outbox[c]) <= 1
      BY <2>3 DEF PacketsFit
    <3>2. outbox'[c] = <<>>
      BY <1>2, <2>1, <3>1
    <3> QED
      BY <3>2 DEF PacketsFit
  <2>4. CASE stage[c] # "waiting"
    <3>1. stage'[c] = stage[c]
      BY <2>2, <2>4
    <3> QED
      BY <1>1, <2>1, <2>4, <3>1, ReadFits DEF PacketsFit, Fits
  <2> QED
    BY <2>3, <2>4
<1>4. CASE ClientSubscribe(c)
  <2>1. stage[c] = "subscribe" /\ stage'[c] = "running" /\ UNCHANGED outbox
    BY <1>4 DEF ClientSubscribe, PeerSend, SystemTypes, socketVars
  <2> QED
    BY <1>1, <2>1 DEF PacketsFit, Fits
<1>5. CASE ClientExit(c)
  BY <1>2, <1>5 DEF ClientExit, PeerGone, PacketsFit
<1>6. CASE PeerConnect(c) /\ UNCHANGED systemClientVars
  BY <1>1, <1>6 DEF PeerConnect, systemClientVars, socketVars, PacketsFit, Fits
<1> QED
  BY <1>3, <1>4, <1>5, <1>6 DEF Client

\* A subscribed client has only packets of its feed before it.
LEMMA OnlyFeed ==
  ASSUME TypeInv, NEW c \in Conns, AskedOnce(c), PacketsFit(c),
         subscribed[c] # NoSymbol, NEW i \in DOMAIN outbox[c]
  PROVE  /\ IsFeed(outbox[c][i])
         /\ outbox[c][i].type = "MarketUpdate" => outbox[c][i].n < Rows[chosen[c]]
<1>1. chosen[c] \in Symbols
  BY DEF AskedOnce, TypeInv, TypeOK
<1>2. stage[c] # "waiting"
  BY DEF AskedOnce, NoTopic
<1>3. Fits(c, outbox[c][i])
  BY DEF PacketsFit
<1> QED
  BY <1>1, <1>2, <1>3 DEF Fits, IsFeed

LEMMA TickedCounts ==
  ASSUME TypeInv, SystemTypes, HeardOfTopic, NEW c \in Conns, AskedOnce(c),
         PacketsFit(c), Counts(c), Ticked(c), stage[c] # "exited",
         UNCHANGED systemClientVars
  PROVE  Counts(c)'
<1>1. PICK p, q, R :
        /\ p = Service!Sent(c) /\ q = outbox[c] /\ R = Rows[chosen[c]]
        /\ q \in Seq(Packet) /\ R \in Nat
        /\ outbox'[c] = Append(q, p)
        /\ heard'[c] \in 0 .. R
        /\ p.type \in {"MarketUpdate", "ReplayDone"}
        /\ p.type = "MarketUpdate" => p.n = heard'[c]
        /\ p.type = "ReplayDone" => heard'[c] = R
        /\ heard[c] # -1 => heard[c] \in 0 .. R /\ heard'[c] = After(c, heard[c])
        /\ subscribed[c] # NoSymbol
  <2>1. subscribed[c] # NoSymbol /\ outbox[c] \in Seq(Packet)
    BY DEF Ticked, Service!Deliver, TypeInv, TypeOK
  <2> QED
    BY <2>1, TickedPacket
<1>2. UNCHANGED <<chosen, stage, tickCount, reported>>
  BY DEF systemClientVars
<1>3. Event(c, p) = heard'[c]
  BY <1>1 DEF Event
<1>4. /\ Len(outbox'[c]) = Len(q) + 1
      /\ Len(q) \in Nat
      /\ DOMAIN outbox'[c] = 1 .. (Len(q) + 1)
      /\ DOMAIN q = 1 .. Len(q)
      /\ outbox'[c][Len(q) + 1] = p
      /\ \A i \in 1 .. Len(q) : outbox'[c][i] = q[i]
  BY <1>1
<1>5. \A i \in 1 .. Len(q) : Ahead(c, i)' = Event(c, q[i])
  BY <1>2, <1>4 DEF Ahead, Event
<1>6. Ahead(c, Len(q) + 1)' = heard'[c]
  BY <1>2, <1>3, <1>4 DEF Ahead, Event
<1>7. Ahead(c, Len(q) + 2)' = After(c, heard'[c])
  BY <1>2, <1>4 DEF Ahead, After
<1>8. tickCount[c] \in Nat
  BY DEF SystemTypes
<1>9. CASE heard[c] = -1
  <2>1. tickCount[c] = 0 /\ c \notin reported
        /\ \A i \in DOMAIN outbox[c] : ~IsFeed(outbox[c][i])
    BY <1>9 DEF Counts
  <2>2. DOMAIN q = {}
    BY <1>1, <2>1, OnlyFeed
  <2>3. Len(q) = 0
    BY <1>4, <2>2
  <2>4. Ahead(c, 1)' = heard'[c] /\ Ahead(c, 2)' = After(c, heard'[c])
    BY <1>6, <1>7, <2>3
  <2>5. \A i \in DOMAIN outbox'[c] : Ahead(c, i + 1)' = After(c, Ahead(c, i)')
    BY <1>4, <2>3, <2>4
  <2> QED
    BY <1>1, <1>2, <2>1, <2>4, <2>5 DEF Counts, After
<1>10. CASE heard[c] # -1
  <2>1. /\ tickCount[c] <= Ahead(c, 1)
        /\ c \in reported => tickCount[c] = Ahead(c, 1)
        /\ \A i \in DOMAIN outbox[c] : Ahead(c, i + 1) = After(c, Ahead(c, i))
    BY <1>10 DEF Counts
  <2>2. \A i \in 1 .. Len(q) : Ahead(c, i) = Event(c, q[i])
    BY <1>1, <1>4 DEF Ahead
  <2>3. Ahead(c, Len(q) + 1) = heard'[c]
    BY <1>1, <1>4, <1>10 DEF Ahead
  <2>4. \A i \in 1 .. (Len(q) + 1) : Ahead(c, i)' = Ahead(c, i)
    BY <1>4, <1>5, <1>6, <2>2, <2>3
  <2>5. \A i \in 1 .. Len(q) : Ahead(c, i + 1)' = After(c, Ahead(c, i)')
    <3> TAKE i \in 1 .. Len(q)
    <3>1. /\ i \in 1 .. (Len(q) + 1) /\ i + 1 \in 1 .. (Len(q) + 1)
          /\ i \in DOMAIN outbox[c]
      BY <1>1, <1>4
    <3>2. Ahead(c, i)' = Ahead(c, i) /\ Ahead(c, i + 1)' = Ahead(c, i + 1)
      BY <2>4, <3>1
    <3> QED
      BY <2>1, <3>1, <3>2
  <2>6. \A i \in DOMAIN outbox'[c] : Ahead(c, i + 1)' = After(c, Ahead(c, i)')
    BY <1>4, <1>6, <1>7, <2>5
  <2>7. Ahead(c, 1)' = Ahead(c, 1)
    BY <1>4, <2>4
  <2> QED
    BY <1>2, <1>10, <1>1, <2>1, <2>6, <2>7 DEF Counts, After
<1> QED
  BY <1>9, <1>10

LEMMA ServerCounts ==
  ASSUME TypeInv, FeedInv, SystemTypes, RequestsMeant, ExitedIsGone, HeardOfTopic,
         RefusalLost, NEW c \in Conns \ mistaken, ClientInv(c),
         HandlerServes(c) \/ Woken(c) \/ Ticked(c), UNCHANGED systemClientVars
  PROVE  Counts(c)'
<1> USE DEF ClientInv
<1>1. UNCHANGED <<chosen, stage, tickCount, reported>>
  BY DEF systemClientVars
<1>2. outbox[c] \in Seq(Packet)
  BY DEF TypeInv, TypeOK
<1>3. CASE stage[c] = "exited"
  BY <1>1, <1>3 DEF Counts
<1>4. CASE Unserved(c)
  BY <1>1, <1>4 DEF Unserved, Counts, Ahead, After, Event
<1>5. CASE Welcomed(c) \/ Refused(c)
  <2>1. subscribed[c] = NoSymbol
    BY <1>5 DEF Welcomed, Refused, AskedOnce, NoTopic, Asking
  <2>2. heard[c] = -1 /\ heard'[c] = -1
    BY <1>5, <2>1 DEF Welcomed, Refused, Answered, HeardOfTopic
  <2>3. PICK type \in {"Welcome", "Error"} :
          outbox'[c] = Append(outbox[c], Plain(type))
    BY <1>5 DEF Welcomed, Refused, Answered
  <2>4. ~IsFeed(Plain(type))
    BY DEF IsFeed, Plain
  <2>5. \A i \in DOMAIN outbox'[c] :
          \/ ~IsFeed(outbox'[c][i])
          \/ i \in DOMAIN outbox[c] /\ outbox'[c][i] = outbox[c][i]
    <3>1. PICK q, p : /\ q = outbox[c] /\ p = Plain(type) /\ q \in Seq(Packet)
                      /\ outbox'[c] = Append(q, p)
      BY <1>2, <2>3
    <3>2. \A i \in DOMAIN Append(q, p) :
            \/ i \in DOMAIN q /\ Append(q, p)[i] = q[i]
            \/ i = Len(q) + 1 /\ Append(q, p)[i] = p
      BY <3>1, PacketAppended
    <3> TAKE i \in DOMAIN outbox'[c]
    <3>3. i \in DOMAIN Append(q, p) /\ outbox'[c][i] = Append(q, p)[i]
      BY <3>1
    <3> QED
      BY <2>4, <3>1, <3>2, <3>3
  <2> QED
    BY <1>1, <2>2, <2>5 DEF Counts, IsFeed
<1>6. CASE Enrolled(c) \/ Woken(c)
  <2>1. subscribed[c] = NoSymbol
    BY <1>6 DEF Enrolled, Woken, AskedOnce, Asking, NoTopic, FeedInv
  <2>2. heard[c] = -1 /\ heard'[c] = -1 /\ outbox'[c] = outbox[c]
    BY <1>6, <2>1 DEF Enrolled, Woken, HeardOfTopic
  <2> QED
    BY <1>1, <2>2 DEF Counts, IsFeed
<1>7. CASE Ticked(c)
  BY <1>3, <1>7, TickedCounts
<1> QED
  BY <1>4, <1>5, <1>6, <1>7 DEF HandlerServes

\* Reading a packet, client c moves on by the one event it tells, if any.
LEMMA ClientCounts ==
  ASSUME TypeInv, SystemTypes, HeardOfTopic, ExitedIsGone, NEW c \in Conns,
         Client(c), ClientInv(c)
  PROVE  Counts(c)'
<1> USE DEF ClientInv
<1>1. /\ UNCHANGED <<subscribed, chosen, heard>>
      /\ outbox \in [Conns -> Seq(Packet)]
      /\ tickCount[c] \in Nat
  BY ClientLeaves DEF clientVars, TypeInv, TypeOK, SystemTypes
<1>2. CASE \/ PeerConnect(c) /\ UNCHANGED systemClientVars
           \/ ClientSubscribe(c)
  <2>1. /\ UNCHANGED <<outbox, tickCount, reported>>
        /\ stage'[c] = "exited" \/ stage[c] # "exited"
    BY <1>2 DEF PeerConnect, ClientSubscribe, PeerSend, systemClientVars, socketVars
  <2> QED
    BY <1>1, <2>1 DEF Counts, Ahead, After, Event
<1>3. CASE ClientExit(c)
  <2>1. stage'[c] = "exited"
    BY <1>3 DEF ClientExit, SystemTypes
  <2> QED
    BY <2>1 DEF Counts
<1>4. CASE ClientHandle(c)
  <2>1. PICK q, R, p :
          /\ q = outbox[c] /\ R = Rows[chosen[c]] /\ p = Head(q)
          /\ q \in Seq(Packet) /\ q # <<>> /\ p = q[1]
          /\ outbox'[c] = Tail(q)
    BY <1>1, <1>4, ReadFits DEF ClientHandle, PeerRead
  <2>2. /\ Len(q) \in Nat /\ Len(q) >= 1
        /\ DOMAIN q = 1 .. Len(q)
        /\ Len(outbox'[c]) = Len(q) - 1
        /\ DOMAIN outbox'[c] = 1 .. (Len(q) - 1)
        /\ \A i \in 1 .. (Len(q) - 1) : outbox'[c][i] = q[i + 1]
    BY <2>1
  <2>3. stage[c] # "exited"
    BY <1>4 DEF ClientHandle, PeerRead, ExitedIsGone
  <2>4. Fits(c, p)
    BY <2>1, <2>2 DEF PacketsFit
  <2>5. CASE heard[c] = -1
    <3>1. /\ \A i \in DOMAIN outbox[c] : ~IsFeed(outbox[c][i])
          /\ tickCount[c] = 0 /\ c \notin reported
      BY <2>3, <2>5 DEF Counts
    <3>2. ~IsFeed(p)
      BY <2>1, <2>2, <3>1
    <3>3. tickCount'[c] = 0 /\ c \notin reported'
      BY <1>4, <2>1, <3>1, <3>2
         DEF ClientHandle, HandleWelcome, HandleUpdate, HandleReplayDone,
             HandleError, IsFeed, systemClientVars, SystemTypes
    <3>4. \A i \in DOMAIN outbox'[c] : ~IsFeed(outbox'[c][i])
      <4> TAKE i \in DOMAIN outbox'[c]
      <4>1. i + 1 \in DOMAIN outbox[c] /\ outbox'[c][i] = outbox[c][i + 1]
        BY <2>1, <2>2
      <4> QED
        BY <3>1, <4>1 DEF IsFeed
    <3> QED
      BY <1>1, <2>5, <3>3, <3>4 DEF Counts, IsFeed
  <2>6. CASE heard[c] # -1
    <3>1. /\ tickCount[c] <= Ahead(c, 1)
          /\ c \in reported => tickCount[c] = Ahead(c, 1)
          /\ \A i \in DOMAIN outbox[c] : Ahead(c, i + 1) = After(c, Ahead(c, i))
      BY <2>3, <2>6 DEF Counts
    <3>2. subscribed[c] # NoSymbol
      BY <2>6 DEF HeardOfTopic
    <3>3. IsFeed(p) /\ (p.type = "MarketUpdate" => p.n < R)
      BY <2>1, <2>2, <3>2, OnlyFeed
    <3>4. R \in Nat /\ p \in Packet
      <4>1. chosen[c] \in Symbols
        BY <3>2 DEF AskedOnce, TypeInv, TypeOK
      <4> QED
        BY <2>1, <2>2, <4>1, FeedAssumption
    <3>5. Ahead(c, 1) = Event(c, p)
      BY <2>1, <2>2 DEF Ahead
    <3>6. Ahead(c, 1 + 1) = After(c, Event(c, p))
      BY <2>1, <2>2, <3>1, <3>5
    <3>7. \A i \in 1 .. Len(q) : Ahead(c, i)' = Ahead(c, i + 1)
      BY <1>1, <2>1, <2>2 DEF Ahead, After, Event
    <3>8. \A i \in DOMAIN outbox'[c] : Ahead(c, i + 1)' = After(c, Ahead(c, i)')
      <4> TAKE i \in DOMAIN outbox'[c]
      <4>1. /\ i \in 1 .. Len(q) /\ i + 1 \in 1 .. Len(q) /\ i + 1 \in DOMAIN outbox[c]
        BY <2>1, <2>2
      <4>2. Ahead(c, (i + 1) + 1) = After(c, Ahead(c, i + 1))
        BY <3>1, <4>1
      <4> QED
        BY <3>7, <4>1, <4>2
    <3>9. /\ tickCount'[c] <= Ahead(c, 1)'
          /\ c \in reported' => tickCount'[c] = Ahead(c, 1)'
      <4>1. Ahead(c, 1)' = After(c, Event(c, p))
        <5>1. 1 \in 1 .. Len(q)
          <6>1. \A n \in Nat : n >= 1 => 1 \in 1 .. n
            OBVIOUS
          <6> QED
            BY <2>2, <6>1
        <5>2. Ahead(c, 1)' = Ahead(c, 1 + 1)
          BY <3>7, <5>1
        <5> QED
          BY <3>6, <5>2
      <4>2. CASE p.type = "MarketUpdate"
        <5>1. p.n \in Nat /\ p.n < R
          BY <3>3, <3>4, <4>2 DEF Packet
        <5>2. Event(c, p) = p.n /\ After(c, Event(c, p)) = p.n + 1
          BY <2>1, <3>4, <4>2, <5>1 DEF Event, After
        <5>3. tickCount'[c] = tickCount[c] + 1 /\ UNCHANGED reported
          BY <1>4, <2>1, <4>2
             DEF ClientHandle, HandleWelcome, HandleUpdate, HandleReplayDone,
                 HandleError, SystemTypes
        <5> QED
          BY <1>1, <3>1, <3>5, <4>1, <5>1, <5>2, <5>3
      <4>3. CASE p.type = "ReplayDone"
        <5>1. After(c, Event(c, p)) = 0
          BY <4>3 DEF Event, After
        <5>2. tickCount'[c] = 0
          BY <1>4, <2>1, <4>3
             DEF ClientHandle, HandleWelcome, HandleUpdate, HandleReplayDone,
                 HandleError, SystemTypes
        <5> QED
          BY <4>1, <5>1, <5>2
      <4> QED
        BY <3>3, <4>2, <4>3 DEF IsFeed
    <3> QED
      BY <1>1, <2>6, <3>8, <3>9 DEF Counts, After
  <2> QED
    BY <2>5, <2>6
<1> QED
  BY <1>2, <1>3, <1>4 DEF Client

LEMMA ClientInvNext ==
  ASSUME SystemInv, [SystemNext]_systemVars, NEW c \in Conns \ mistaken'
  PROVE  ClientInv(c)'
<1> USE DEF SystemInv
<1>1. c \notin mistaken /\ ClientInv(c)
  BY DEF SystemNext, systemVars
<1>2. AskedOnce(c)'
  BY AskedNext
<1>3. CASE UNCHANGED systemVars
  BY <1>1, <1>2, <1>3 DEF systemVars, systemClientVars, vars, socketVars,
     clientVars, ClientInv, PacketsFit, Fits, Counts, Ahead, After, Event
<1>4. ASSUME NEW k \in Conns, Client(k) PROVE ClientInv(c)'
  <2>1. CASE k = c
    BY <1>1, <1>2, <1>4, <2>1, ClientFits, ClientCounts DEF IInv, ClientInv
  <2>2. CASE k # c
    <3>1. /\ UNCHANGED <<subscribed, chosen, heard>>
          /\ UNCHANGED <<outbox[c], stage[c], tickCount[c]>>
          /\ c \in reported' <=> c \in reported
      BY <1>4, <2>2, ClientAlone, ClientLeaves DEF IInv, clientVars
    <3> QED
      BY <1>1, <1>2, <3>1 DEF ClientInv, PacketsFit, Fits, Counts, Ahead, After,
         Event
  <2> QED
    BY <2>1, <2>2
<1>5. CASE ServerStep /\ ~ServedByOther(c) /\ UNCHANGED systemClientVars
  <2>1. HandlerServes(c) \/ Woken(c) \/ Ticked(c)
    BY <1>5, ServerEffect
  <2>2. UNCHANGED <<stage, chosen>>
    BY <1>5 DEF systemClientVars
  <2>3. PacketsFit(c)'
    BY <1>1, <2>1, <2>2, ServerFits DEF IInv, ClientInv
  <2>4. Counts(c)'
    BY <1>1, <1>5, <2>1, ServerCounts DEF IInv
  <2> QED
    BY <1>2, <2>3, <2>4 DEF ClientInv
<1> QED
  BY <1>3, <1>4, <1>5 DEF SystemNext

LEMMA SystemInvInit == SystemInit => SystemInv
<1> SUFFICES ASSUME SystemInit PROVE SystemInv
  OBVIOUS
<1>1. IInv /\ StreamInv /\ SystemTypes
  BY IInvInit, StreamInit, InitSystemTypes DEF SystemInit
<1>2. RequestsMeant /\ BoundInv /\ ExitedIsGone /\ HeardOfTopic /\ RefusalLost
  BY SessionAssumption
     DEF SystemInit, Init, RequestsMeant, Asking, BoundInv, ExitedIsGone,
         HeardOfTopic, RefusalLost
<1>3. \A c \in Conns : ClientInv(c)
  BY DEF SystemInit, Init, ClientInv, AskedOnce, NoTopic, Asking, PacketsFit,
     Counts
<1> QED
  BY <1>1, <1>2, <1>3 DEF SystemInv

LEMMA SystemInvNext == SystemInv /\ [SystemNext]_systemVars => SystemInv'
<1> SUFFICES ASSUME SystemInv, [SystemNext]_systemVars PROVE SystemInv'
  OBVIOUS
<1>1. IInv' /\ StreamInv' /\ SystemTypes'
  BY SystemIsServer, IInvNext, StreamNext, NextSystemTypes DEF SystemInv
<1>2. RequestsMeant' /\ BoundInv' /\ HeardOfTopic'
  BY RequestsNext, BoundNext, HeardNext DEF SystemInv
<1>3. ExitedIsGone' /\ RefusalLost'
  BY ExitedNext, RefusalNext DEF SystemInv, IInv, ClientInv
<1>4. \A c \in Conns \ mistaken' : ClientInv(c)'
  BY ClientInvNext
<1> QED
  BY <1>1, <1>2, <1>3, <1>4 DEF SystemInv

\* In every reachable state the server is as it was with any peers, and each
\* client that no handler has mistaken for another has been served as it asked.
THEOREM SystemInvariance == SystemSpec => []SystemInv
BY SystemInvInit, SystemInvNext, PTL DEF SystemSpec

-----------------------------------------------------------------------------
\* A client counts no more ticks than a pass of the feed it chose has, and
\* none of a symbol the server does not know.
THEOREM CountsWithinPass == SystemSpec => []SystemTypeOK
<1>1. SystemInv => SystemTypeOK
  <2> SUFFICES ASSUME SystemInv, NEW c \in Conns \ mistaken, tickCount[c] > 0
               PROVE  chosen[c] \in Symbols /\ tickCount[c] <= Rows[chosen[c]]
    BY DEF SystemInv, SystemTypes, SystemTypeOK
  <2>1. /\ AskedOnce(c) /\ PacketsFit(c) /\ Counts(c) /\ TypeInv /\ HeardOfTopic
        /\ tickCount[c] \in Nat
    BY DEF SystemInv, ClientInv, IInv, SystemTypes
  <2>2. stage[c] # "exited" /\ heard[c] # -1
    BY <2>1 DEF SystemInv, ExitedIsGone, Counts
  <2>3. /\ subscribed[c] # NoSymbol /\ subscribed[c] = chosen[c]
        /\ chosen[c] \in Symbols /\ heard[c] \in 0 .. Rows[chosen[c]]
    BY <2>1, <2>2 DEF HeardOfTopic, AskedOnce, TypeInv, TypeOK
  <2>4. Rows[chosen[c]] \in Nat
    BY <2>3, FeedAssumption
  <2>5. Ahead(c, 1) \in 0 .. Rows[chosen[c]]
    <3>1. CASE 1 <= Len(outbox[c])
      <4>1. outbox[c] \in Seq(Packet) /\ 1 \in DOMAIN outbox[c]
        BY <2>1, <3>1 DEF TypeInv, TypeOK
      <4>2. /\ outbox[c][1] \in Packet /\ IsFeed(outbox[c][1])
            /\ outbox[c][1].type = "MarketUpdate" => outbox[c][1].n < Rows[chosen[c]]
        BY <2>1, <2>3, <4>1, OnlyFeed
      <4>3. outbox[c][1].type = "MarketUpdate" => outbox[c][1].n \in Nat
        BY <4>2 DEF Packet
      <4> QED
        BY <2>4, <3>1, <4>2, <4>3 DEF Ahead, Event
    <3>2. CASE ~(1 <= Len(outbox[c]))
      BY <2>3, <2>4, <3>2 DEF Ahead, After
    <3> QED
      BY <3>1, <3>2
  <2> QED
    BY <2>1, <2>2, <2>3, <2>4, <2>5 DEF Counts
<1> QED
  BY <1>1, SystemInvariance, PTL

\* resetSession runs before the client is given anything else: no update, end
\* of replay or error is handled before Welcome.
THEOREM WelcomeComesFirst == SystemSpec => ConnectedFirst
<1>1. SystemInv /\ [SystemNext]_systemVars =>
        [\A c \in Conns \ mistaken :
           Handles(c, {"MarketUpdate", "ReplayDone", "Error"})
             => stage[c] # "waiting"]_systemVars
  <2> SUFFICES ASSUME SystemInv, NEW c \in Conns \ mistaken,
                      Handles(c, {"MarketUpdate", "ReplayDone", "Error"})
               PROVE  stage[c] # "waiting"
    OBVIOUS
  <2>1. AskedOnce(c) /\ PacketsFit(c) /\ TypeInv
    BY DEF SystemInv, ClientInv, IInv
  <2>2. Fits(c, Head(outbox[c]))
    BY <2>1, ReadFits DEF Handles
  <2> QED
    BY <2>1, <2>2 DEF Handles, Fits, AskedOnce, NoTopic
<1> QED
  BY <1>1, SystemInvariance, PTL DEF SystemSpec, ConnectedFirst

\* Each report a client prints is of a pass as it was replayed, however much of
\* it the buffers held back: none of more than a pass, and every one after
\* the first of exactly one.
THEOREM ReportsArePasses == SystemSpec => ReportsWholePasses
<1>1. SystemInv /\ [SystemNext]_systemVars =>
        [\A c \in Conns \ mistaken :
           Handles(c, {"ReplayDone"}) =>
             /\ tickCount[c] <= Rows[chosen[c]]
             /\ c \in reported => tickCount[c] = Rows[chosen[c]]]_systemVars
  <2> SUFFICES ASSUME SystemInv, [SystemNext]_systemVars,
                      NEW c \in Conns \ mistaken, Handles(c, {"ReplayDone"})
               PROVE  /\ tickCount[c] <= Rows[chosen[c]]
                      /\ c \in reported => tickCount[c] = Rows[chosen[c]]
    OBVIOUS
  <2>1. AskedOnce(c) /\ PacketsFit(c) /\ Counts(c) /\ TypeInv
    BY DEF SystemInv, ClientInv, IInv
  <2>2. /\ outbox[c] # <<>> /\ Head(outbox[c]).type = "ReplayDone"
    BY DEF Handles
  <2>3. /\ Head(outbox[c]) = outbox[c][1] /\ 1 \in DOMAIN outbox[c]
        /\ outbox[c] \in Seq(Packet)
    BY <2>1, <2>2, ReadFits DEF TypeInv, TypeOK
  <2>4. stage[c] # "exited" /\ heard[c] # -1
    BY <2>1, <2>2, <2>3 DEF SystemInv, ExitedIsGone, Counts, IsFeed
  <2>5. Ahead(c, 1) = Rows[chosen[c]]
    BY <2>2, <2>3 DEF Ahead, Event
  <2> QED
    BY <2>1, <2>4, <2>5 DEF Counts
<1> QED
  BY <1>1, SystemInvariance, PTL DEF SystemSpec, ReportsWholePasses
=============================================================================
