------------------------ MODULE SessionManagerProofs ------------------------
(***************************************************************************)
(* Proofs about the replay server of SessionManager, for any number of     *)
(* connections, descriptors, symbols and snapshots.                        *)
(***************************************************************************)
EXTENDS SessionManager, TLAPS

\* What a thread's program counter says of its locals: recv is bound to a
\* connection, subscribeClient was given a known symbol, and a broadcast
\* comes after next() has moved the cursor.
LocalsOK ==
  /\ \A c \in Conns : pc[c] = "recv" => bound[c] \in Conns
  /\ \A c \in Conns : pc[c] \in {"lookup", "subscribe"} => request[c] \in Symbols
  /\ \A s \in Symbols : workerPc[s] = "broadcast" => cursor[s] > 0

TypeInv == TypeOK /\ LocalsOK

-----------------------------------------------------------------------------
(* Types of the operators the actions are built from.                      *)

\* The requests of the model are requests, and so is what recv hands over.
LEMMA RequestSymbol ==
  ASSUME NEW r \in Request
  PROVE  /\ r.symbol \in AnySymbol
         /\ Dispatch(r) \in HandlerLabels
         /\ Dispatch(r) \notin {"recv", "subscribe"}
         /\ Dispatch(r) = "lookup" => r.symbol \in Symbols
BY SessionAssumption DEF Request, AnySymbol, Dispatch, HandlerLabels

LEMMA DispatchLabel ==
  ASSUME NEW r
  PROVE  Dispatch(r) \in {"lookup", "error", "unsubscribe", "heartbeat", "exit",
                          "loop"}
BY DEF Dispatch

LEMMA PlainPacket ==
  /\ Plain("Welcome") \in Packet
  /\ Plain("Heartbeat") \in Packet
  /\ Plain("Error") \in Packet
BY DEF Plain, Packet

\* What a worker sends is a packet.
LEMMA FeedPacket ==
  ASSUME TypeOK, NEW s \in Symbols,
         workerPc[s] = "broadcast" => cursor[s] > 0
  PROVE  /\ ReplayDone(s) \in Packet
         /\ workerPc[s] = "broadcast" => MarketUpdate(s) \in Packet
         /\ FeedEvent(s) \in Int
<1>1. Size(s) \in Nat
  BY FeedAssumption DEF Size
<1>2. cursor[s] \in Nat /\ Rows[s] \in Int
  BY FeedAssumption DEF TypeOK
<1>3. LastSequence(cursor[s]) \in Int
  BY <1>2 DEF LastSequence
<1>4. workerPc[s] = "broadcast" => LastSequence(cursor[s]) \in Nat
  BY <1>2 DEF LastSequence
<1> QED
  BY <1>1, <1>2, <1>3, <1>4 DEF ReplayDone, MarketUpdate, FeedEvent, Packet

\* Whatever descriptor it is given, a call reaches one connection or none.
LEMMA BehindType ==
  ASSUME TypeOK, NEW f \in Fds \cup {NoFd}
  PROVE  Behind(f) \in Conns \cup {NoConn}
BY DEF TypeOK, Behind

LEMMA AppendType ==
  ASSUME TypeOK, NEW d \in Conns, NEW p \in Packet
  PROVE  [outbox EXCEPT ![d] = Append(@, p)] \in [Conns -> Seq(Packet)]
BY DEF TypeOK

LEMMA SendPacketType ==
  ASSUME TypeOK, NEW f \in Fds \cup {NoFd}, NEW p \in Packet,
         SendPacket(f, p)
  PROVE  outbox' \in [Conns -> Seq(Packet)]
<1> DEFINE d == Behind(f)
<1>1. CASE Sendable(d) /\ outbox' = [outbox EXCEPT ![d] = Append(@, p)]
  BY <1>1, BehindType, AppendType DEF Sendable
<1>2. CASE UNCHANGED outbox
  BY <1>2 DEF TypeOK
<1> QED
  BY <1>1, <1>2 DEF SendPacket

LEMMA CloseType ==
  ASSUME TypeOK, NEW f
  PROVE  Close(f) \in [Fds -> Conns \cup {NoConn}]
BY DEF TypeOK, Close

LEMMA SetSymbolsType ==
  ASSUME TypeOK, NEW k \in Conns,
         NEW active \in Symbols \cup {NoSymbol},
         NEW deferred \in Symbols \cup {NoSymbol},
         SetSymbols(k, active, deferred)
  PROVE  /\ subscribed' \in [Conns -> Symbols \cup {NoSymbol}]
         /\ pending' \in [Conns -> Symbols \cup {NoSymbol}]
         /\ heard' \in [Conns -> Int]
BY DEF TypeOK, SetSymbols

-----------------------------------------------------------------------------
(* Every step keeps the types.                                             *)

LEMMA PeerTypes ==
  ASSUME TypeInv, NEW c \in Conns,
         PeerConnect(c) \/ (\E r \in PeerRequests : PeerSend(c, r))
           \/ PeerRead(c) \/ PeerGone(c)
  PROVE  TypeInv'
<1> USE DEF peerVars, listenVars, socketVars, clientVars, mainVars,
            handlerVars, workerVars, TypeInv, TypeOK, LocalsOK
<1>1. CASE PeerConnect(c)
  BY <1>1 DEF PeerConnect
<1>2. ASSUME NEW r \in PeerRequests, PeerSend(c, r) PROVE TypeInv'
  <2>1. r \in Request
    BY SessionAssumption
  <2>2. requestCount' \in [Conns -> 0 .. MaxRequests]
    BY <1>2, SessionAssumption DEF PeerSend
  <2>3. inbox' \in [Conns -> Seq(Request)]
    BY <1>2, <2>1 DEF PeerSend
  <2> QED
    BY <1>2, <2>2, <2>3 DEF PeerSend
<1>3. CASE PeerRead(c)
  BY <1>3 DEF PeerRead
<1>4. CASE PeerGone(c)
  BY <1>4 DEF PeerGone
<1> QED
  BY <1>1, <1>2, <1>3, <1>4

LEMMA AcceptTypes ==
  ASSUME TypeInv,
         AcceptCheck \/ (\E c \in Conns, f \in Fds : Accept(c, f)) \/ AcceptFails
  PROVE  TypeInv'
<1> USE DEF peerVars, listenVars, socketVars, clientVars, mainVars,
            handlerVars, workerVars, TypeInv, TypeOK, LocalsOK
<1>1. CASE AcceptCheck
  BY <1>1 DEF AcceptCheck
<1>2. ASSUME NEW c \in Conns, NEW f \in Fds, Accept(c, f) PROVE TypeInv'
  BY <1>2 DEF Accept, HandlerLabels
<1>3. CASE AcceptFails
  BY <1>3 DEF AcceptFails
<1> QED
  BY <1>1, <1>2, <1>3

LEMMA HandlerTypes ==
  ASSUME TypeInv, NEW c \in Conns, Handler(c)
  PROVE  TypeInv'
<1> USE DEF peerVars, listenVars, socketVars, clientVars, mainVars,
            handlerVars, workerVars, TypeInv, TypeOK, LocalsOK
<1> USE DEF Goto
<1>1. CASE HandlerPush(c)
  BY <1>1 DEF HandlerPush, HandlerLabels
<1>2. CASE HandlerReply(c)
  <2>1. outbox' \in [Conns -> Seq(Packet)]
    BY <1>2, SendPacketType, PlainPacket DEF HandlerReply
  <2>2. pc' \in [Conns -> HandlerLabels]
    BY <1>2 DEF HandlerReply, HandlerLabels
  <2>3. \A k \in Conns : pc'[k] \in {"recv", "lookup", "subscribe"} => pc'[k] = pc[k]
    BY <1>2 DEF HandlerReply
  <2> QED
    BY <1>2, <2>1, <2>2, <2>3 DEF HandlerReply
<1>3. CASE HandlerLoop(c)
  BY <1>3 DEF HandlerLoop, HandlerLabels
<1>10. CASE HandlerRead(c)
  <2> DEFINE d == Behind(clientFd[c])
  <2>1. d \in Conns \cup {NoConn}
    BY BehindType
  <2>2. CASE d # NoConn
    <3>1. /\ d \in Conns
          /\ bound' = [bound EXCEPT ![c] = d]
          /\ pc' = [pc EXCEPT ![c] = "recv"]
      BY <1>10, <2>1, <2>2 DEF HandlerRead
    <3> QED
      BY <1>10, <3>1 DEF HandlerRead, HandlerLabels
  <2>3. CASE d = NoConn
    BY <1>10, <2>3 DEF HandlerRead, HandlerLabels
  <2> QED
    BY <2>2, <2>3
<1>4. CASE HandlerReceive(c)
  <2> DEFINE r == Head(inbox[bound[c]])
  <2>1. bound[c] \in Conns /\ inbox[bound[c]] \in Seq(Request)
    BY <1>4 DEF HandlerReceive
  <2>2. r \in Request /\ Tail(inbox[bound[c]]) \in Seq(Request)
    BY <1>4, <2>1 DEF HandlerReceive
  <2>3. inbox' \in [Conns -> Seq(Request)]
    BY <1>4, <2>1, <2>2 DEF HandlerReceive
  <2>4. /\ request' = [request EXCEPT ![c] = r.symbol]
        /\ pc' = [pc EXCEPT ![c] = Dispatch(r)]
    BY <1>4 DEF HandlerReceive
  <2>5. /\ request' \in [Conns -> AnySymbol]
        /\ pc' \in [Conns -> HandlerLabels]
    BY <2>2, <2>4, RequestSymbol
  <2>6. LocalsOK'
    BY <1>4, <2>2, <2>4, RequestSymbol DEF HandlerReceive
  <2> QED
    BY <1>4, <2>3, <2>5, <2>6 DEF HandlerReceive
<1>5. CASE HandlerReceiveFails(c)
  BY <1>5 DEF HandlerReceiveFails, HandlerLabels
<1>6. CASE HandlerLookup(c)
  BY <1>6 DEF HandlerLookup, HandlerLabels
<1>7. CASE HandlerSubscribe(c)
  <2>1. pc' \in [Conns -> HandlerLabels]
    BY <1>7 DEF HandlerSubscribe, HandlerLabels
  <2>2. /\ subscribed' \in [Conns -> Symbols \cup {NoSymbol}]
        /\ pending' \in [Conns -> Symbols \cup {NoSymbol}]
        /\ heard' \in [Conns -> Int]
    BY <1>7, SetSymbolsType DEF HandlerSubscribe, Matching
  <2>3. LocalsOK'
    BY <1>7 DEF HandlerSubscribe
  <2> QED
    BY <1>7, <2>1, <2>2, <2>3 DEF HandlerSubscribe
<1>8. CASE HandlerUnsubscribe(c)
  <2>1. pc' \in [Conns -> HandlerLabels]
    BY <1>8 DEF HandlerUnsubscribe, HandlerLabels
  <2>2. /\ subscribed' \in [Conns -> Symbols \cup {NoSymbol}]
        /\ pending' \in [Conns -> Symbols \cup {NoSymbol}]
        /\ heard' \in [Conns -> Int]
    BY <1>8, SetSymbolsType DEF HandlerUnsubscribe, Matching
  <2>3. LocalsOK'
    BY <1>8 DEF HandlerUnsubscribe
  <2> QED
    BY <1>8, <2>1, <2>2, <2>3 DEF HandlerUnsubscribe
<1>9. CASE HandlerRemove(c)
  BY <1>9, CloseType DEF HandlerRemove, HandlerLabels
<1> QED
  BY <1>1, <1>2, <1>3, <1>4, <1>5, <1>6, <1>7, <1>8, <1>9, <1>10 DEF Handler

LEMMA WorkerTypes ==
  ASSUME TypeInv, NEW s \in Symbols, Worker(s)
  PROVE  TypeInv'
<1> USE DEF peerVars, listenVars, socketVars, clientVars, mainVars,
            handlerVars, workerVars, TypeInv, TypeOK, LocalsOK
<1> USE DEF Advance
<1>1. CASE WorkerReset(s)
  <2>1. workerPc' \in [Symbols -> WorkerLabels] /\ cursor' \in [Symbols -> Nat]
    BY <1>1 DEF WorkerReset, WorkerLabels
  <2>2. \A x \in Symbols : cursor'[x] \in Cursor(x)
    <3>1. 0 \in Cursor(s)
      BY FeedAssumption DEF Cursor
    <3> QED
      BY <1>1, <3>1 DEF WorkerReset
  <2>3. LocalsOK'
    BY <1>1 DEF WorkerReset
  <2> QED
    BY <1>1, <2>1, <2>2, <2>3 DEF WorkerReset
<1>2. CASE WorkerCheck(s)
  BY <1>2 DEF WorkerCheck, WorkerLabels
<1>3. CASE WorkerTick(s)
  <2>1. cursor[s] \in Nat /\ cursor[s] <= Rows[s] /\ Rows[s] \in Nat
    BY FeedAssumption DEF Cursor
  <2>2. CASE HasNext(s, cursor[s])
    <3>1. /\ workerPc' = [workerPc EXCEPT ![s] = "broadcast"]
          /\ cursor' = [cursor EXCEPT ![s] = @ + 1]
      BY <1>3, <2>2 DEF WorkerTick, Subscribers
    <3>2. cursor[s] + 1 \in Cursor(s) /\ cursor[s] + 1 > 0
      BY <2>1, <2>2 DEF HasNext, Cursor
    <3>3. workerPc' \in [Symbols -> WorkerLabels] /\ cursor' \in [Symbols -> Nat]
      BY <2>1, <3>1 DEF WorkerLabels
    <3>4. \A x \in Symbols : cursor'[x] \in Cursor(x)
      BY <3>1, <3>2
    <3>5. LocalsOK'
      BY <1>3, <3>1, <3>2 DEF WorkerTick, Subscribers
    <3> QED
      BY <1>3, <3>3, <3>4, <3>5 DEF WorkerTick, Subscribers
  <2>3. CASE ~HasNext(s, cursor[s])
    BY <1>3, <2>3 DEF WorkerTick, Subscribers, WorkerLabels
  <2> QED
    BY <2>2, <2>3
<1>4. ASSUME NEW k \in Conns, WorkerSend(s, k) PROVE TypeInv'
  <2> DEFINE d == Behind(socketFd[k])
             p == IF workerPc[s] = "broadcast" THEN MarketUpdate(s)
                                               ELSE ReplayDone(s)
  <2>1. p \in Packet /\ FeedEvent(s) \in Int
    BY FeedPacket
  <2>2. outbox' \in [Conns -> Seq(Packet)]
    <3>1. CASE Sendable(d) /\ outbox' = [outbox EXCEPT ![d] = Append(@, p)]
      <4>1. d \in Conns
        BY <3>1, BehindType DEF Sendable
      <4> QED
        BY <3>1, <4>1, <2>1, AppendType
    <3>2. CASE UNCHANGED outbox
      BY <3>2
    <3> QED
      BY <1>4, <3>1, <3>2 DEF WorkerSend
  <2>3. /\ heard' \in [Conns -> Int]
        /\ socketFd' \in [Conns -> Fds \cup {NoFd}]
        /\ fdTable' \in [Fds -> Conns \cup {NoConn}]
        /\ todo' \subseteq Conns
    <3> USE DEF WorkerSend
    <3>1. heard' \in [Conns -> Int]
      BY <1>4, <2>1
    <3>2. socketFd' \in [Conns -> Fds \cup {NoFd}]
      BY <1>4
    <3>3. fdTable' \in [Fds -> Conns \cup {NoConn}]
      BY <1>4, CloseType
    <3>4. todo' \subseteq Conns
      BY <1>4
    <3> QED
      BY <3>1, <3>2, <3>3, <3>4
  <2> QED
    BY <1>4, <2>2, <2>3 DEF WorkerSend
<1>5. CASE WorkerRelease(s)
  BY <1>5 DEF WorkerRelease, WorkerLabels
<1> QED
  BY <1>1, <1>2, <1>3, <1>4, <1>5 DEF Worker

LEMMA MainTypes ==
  ASSUME TypeInv, Main \/ MainStop
  PROVE  TypeInv'
<1> USE DEF peerVars, listenVars, socketVars, clientVars, mainVars,
            handlerVars, workerVars, TypeInv, TypeOK, LocalsOK
<1> USE DEF MainLabels
<1>1. ASSUME NEW s \in Symbols, MainRegister(s) PROVE TypeInv'
  BY <1>1 DEF MainRegister
<1>2. CASE MainActivate
  BY <1>2 DEF MainActivate
<1>3. CASE MainReplay
  BY <1>3 DEF MainReplay, WorkerLabels
<1>4. CASE MainStop
  BY <1>4 DEF MainStop
<1>5. CASE MainCloseListener
  BY <1>5 DEF MainCloseListener
<1>6. CASE MainJoin
  BY <1>6 DEF MainJoin
<1>7. CASE MainCloseClients
  BY <1>7 DEF MainCloseClients
<1> QED
  BY <1>1, <1>2, <1>3, <1>4, <1>5, <1>6, <1>7 DEF Main

LEMMA InitTypes == Init => TypeInv
BY FeedAssumption, SessionAssumption
   DEF Init, TypeInv, TypeOK, LocalsOK, Cursor, HandlerLabels, WorkerLabels,
       MainLabels, AnySymbol

LEMMA NextTypes == TypeInv /\ [Next]_vars => TypeInv'
<1> SUFFICES ASSUME TypeInv, [Next]_vars PROVE TypeInv'
  OBVIOUS
<1>1. CASE UNCHANGED vars
  BY <1>1 DEF vars, peerVars, listenVars, socketVars, clientVars, mainVars,
              handlerVars, workerVars, TypeInv, TypeOK, LocalsOK
<1>2. CASE Next
  BY <1>1, <1>2, PeerTypes, AcceptTypes, HandlerTypes, WorkerTypes, MainTypes
     DEF Next, Terminated
<1> QED
  BY <1>1, <1>2

\* Every reachable state is well typed: no counter, descriptor or program
\* counter of the server leaves its range, the feed's cursor included.
THEOREM TypeCorrect == Spec => []TypeOK
<1>1. Spec => []TypeInv
  BY InitTypes, NextTypes, PTL DEF Spec
<1>2. TypeInv => TypeOK
  BY DEF TypeInv
<1> QED
  BY <1>1, <1>2, PTL

-----------------------------------------------------------------------------
(* Descriptors.  Their numbers are reused, so what a thread holds in an     *)
(* int may name another connection by the time it is used; the invariant   *)
(* says which of the copies can still be trusted.                          *)

\* An open entry of clients_ holds the number its handler was started with,
\* and that number still leads to its own connection.
EntriesOwnFd ==
  \A k \in sessions : socketFd[k] # NoFd =>
    /\ socketFd[k] = clientFd[k]
    /\ fdTable[socketFd[k]] = k

\* Every open descriptor is known to clients_ or to a handler about to push.
OpenFdsKnown ==
  \A f \in Fds : \A c \in Conns : fdTable[f] = c =>
    /\ clientFd[c] = f
    /\ pc[c] = "push" \/ (c \in sessions /\ socketFd[c] = f)

\* A handler that has not registered yet is the only holder of its descriptor.
PushHoldsFd ==
  \A c \in Conns : pc[c] = "push" =>
    /\ c \notin sessions
    /\ clientFd[c] \in Fds
    /\ fdTable[clientFd[c]] = c

\* A connection is accepted once: before that nothing knows it.
AcceptedOnce ==
  \A c \in Conns :
    /\ pc[c] = "none" => c \notin sessions
    /\ pc[c] # "none" => clientFd[c] \in Fds
    /\ c \in backlog => pc[c] = "none"
    /\ peer[c] = "none" => pc[c] = "none" /\ c \notin backlog

\* clients_mutex_ is held during a broadcast and the ReplayDone loop, and the
\* entries the loop has still to visit stay in clients_.
LoopsHoldMutex ==
  /\ \A s \in Symbols : workerPc[s] \in {"broadcast", "replayDone"} =>
       clientsMutex = s
  /\ clientsMutex # NoSymbol => todo \subseteq sessions

\* A closed entry stays in clients_ only until the broadcast that closed it
\* is over.
ClosedInBroadcast ==
  \A k \in sessions : socketFd[k] = NoFd =>
    \E s \in Symbols : workerPc[s] = "broadcast"

FdInv ==
  /\ EntriesOwnFd
  /\ OpenFdsKnown
  /\ PushHoldsFd
  /\ AcceptedOnce
  /\ LoopsHoldMutex
  /\ ClosedInBroadcast

\* main() starts the workers after the last registerFeed, and leaves the
\* serving state with running_ cleared.
MainInv ==
  /\ mainPc \in {"register", "activate"} => \A s \in Symbols : workerPc[s] = "off"
  /\ mainPc \in {"closeListener", "joinAccept", "joinReplay", "closeClients",
                 "stopped"} => ~running

\* Where a subscription got its symbol from: the look at feeds_, or
\* registerFeed itself; and no worker is missing once replay has begun.
FeedInv ==
  /\ \A c \in Conns : pc[c] = "subscribe" /\ feedReady[c] => request[c] \in feeds
  /\ mainPc = "activate" => activating \in feeds
  /\ mainPc = "serve" => \A s \in feeds : workerPc[s] # "off"
  /\ \A k \in Conns : subscribed[k] # NoSymbol =>
       subscribed[k] \in feeds /\ pending[k] = NoSymbol

IInv == TypeInv /\ FdInv /\ MainInv /\ StopIsComplete /\ FeedInv

fdVars == <<peer, backlog, fdTable, sessions, socketFd, pc, clientFd,
            clientsMutex, workerPc, todo>>

LEMMA FdStutter ==
  ASSUME FdInv, UNCHANGED fdVars
  PROVE  FdInv'
BY DEF fdVars, FdInv, EntriesOwnFd, OpenFdsKnown, PushHoldsFd, AcceptedOnce,
       LoopsHoldMutex, ClosedInBroadcast

\* A handler that only moves on between two calls touches no descriptor.
LEMMA FdMoveOn ==
  ASSUME TypeInv, FdInv, NEW c \in Conns, NEW label,
         pc[c] \notin {"none", "push"}, label \notin {"none", "push"},
         pc' = [pc EXCEPT ![c] = label],
         UNCHANGED <<peer, backlog, fdTable, sessions, socketFd, clientFd,
                     clientsMutex, workerPc, todo>>
  PROVE  FdInv'
BY DEF TypeInv, TypeOK, FdInv, EntriesOwnFd, OpenFdsKnown, PushHoldsFd,
       AcceptedOnce, LoopsHoldMutex, ClosedInBroadcast

LEMMA PeerFds ==
  ASSUME TypeInv, FdInv, NEW c \in Conns,
         PeerConnect(c) \/ (\E r \in PeerRequests : PeerSend(c, r))
           \/ PeerRead(c) \/ PeerGone(c)
  PROVE  FdInv'
<1> USE DEF peerVars, listenVars, socketVars, clientVars, mainVars,
            handlerVars, workerVars
<1>1. CASE PeerConnect(c)
  BY <1>1 DEF PeerConnect, TypeInv, TypeOK, FdInv, EntriesOwnFd, OpenFdsKnown,
     PushHoldsFd, AcceptedOnce, LoopsHoldMutex, ClosedInBroadcast
<1>2. CASE (\E r \in PeerRequests : PeerSend(c, r)) \/ PeerRead(c)
  BY <1>2, FdStutter DEF PeerSend, PeerRead, fdVars
<1>3. CASE PeerGone(c)
  BY <1>3 DEF PeerGone, TypeInv, TypeOK, FdInv, EntriesOwnFd, OpenFdsKnown,
     PushHoldsFd, AcceptedOnce, LoopsHoldMutex, ClosedInBroadcast
<1> QED
  BY <1>1, <1>2, <1>3

LEMMA AcceptFds ==
  ASSUME TypeInv, FdInv,
         AcceptCheck \/ (\E c \in Conns, f \in Fds : Accept(c, f)) \/ AcceptFails
  PROVE  FdInv'
<1> USE DEF peerVars, listenVars, socketVars, clientVars, mainVars,
            handlerVars, workerVars
<1>1. CASE AcceptCheck \/ AcceptFails
  BY <1>1, FdStutter DEF AcceptCheck, AcceptFails, fdVars
<1>2. ASSUME NEW c \in Conns, NEW f \in Fds, Accept(c, f) PROVE FdInv'
  <2> USE <1>2, SessionAssumption DEF Accept, TypeInv, TypeOK, FdInv
  <2>1. c \notin sessions /\ pc[c] = "none" /\ peer[c] # "none"
    BY DEF AcceptedOnce
  <2>2. \A g \in Fds : fdTable[g] # c
    BY <2>1 DEF OpenFdsKnown
  <2>3. EntriesOwnFd'
    <3>1. \A k \in sessions : socketFd[k] # NoFd => socketFd[k] # f
      BY DEF EntriesOwnFd
    <3> QED
      BY <2>1, <3>1 DEF EntriesOwnFd
  <2>4. OpenFdsKnown'
    BY <2>1, <2>2 DEF OpenFdsKnown
  <2>5. PushHoldsFd'
    <3>1. \A k \in Conns : pc[k] = "push" => clientFd[k] # f
      BY DEF PushHoldsFd
    <3> QED
      BY <2>1, <3>1 DEF PushHoldsFd
  <2>6. AcceptedOnce'
    BY <2>1 DEF AcceptedOnce
  <2>7. LoopsHoldMutex' /\ ClosedInBroadcast'
    BY DEF LoopsHoldMutex, ClosedInBroadcast
  <2> QED
    BY <2>3, <2>4, <2>5, <2>6, <2>7
<1> QED
  BY <1>1, <1>2

LEMMA HandlerFds ==
  ASSUME TypeInv, FdInv, NEW c \in Conns, Handler(c)
  PROVE  FdInv'
<1> USE DEF peerVars, listenVars, socketVars, clientVars, mainVars,
            handlerVars, workerVars
<1> USE DEF Goto
<1>1. CASE HandlerPush(c)
  <2> USE <1>1, SessionAssumption DEF HandlerPush, TypeInv, TypeOK, FdInv
  <2>1. /\ c \notin sessions
        /\ clientFd[c] \in Fds
        /\ fdTable[clientFd[c]] = c
    BY DEF PushHoldsFd
  <2>2. EntriesOwnFd'
    BY <2>1 DEF EntriesOwnFd
  <2>3. OpenFdsKnown'
    BY <2>1 DEF OpenFdsKnown
  <2>4. PushHoldsFd'
    BY <2>1 DEF PushHoldsFd
  <2>5. AcceptedOnce'
    BY <2>1 DEF AcceptedOnce
  <2>6. LoopsHoldMutex'
    BY DEF LoopsHoldMutex
  <2>7. ClosedInBroadcast'
    BY <2>1 DEF ClosedInBroadcast
  <2> QED
    BY <2>2, <2>3, <2>4, <2>5, <2>6, <2>7
<1>2. CASE HandlerReply(c)
  BY <1>2, FdMoveOn DEF HandlerReply
<1>3. CASE HandlerLoop(c)
  BY <1>3, FdMoveOn DEF HandlerLoop
<1>10. CASE HandlerRead(c)
  BY <1>10, FdMoveOn DEF HandlerRead
<1>4. CASE HandlerReceive(c)
  <2>1. Dispatch(Head(inbox[bound[c]])) \notin {"none", "push"}
    BY DispatchLabel
  <2> QED
    BY <1>4, <2>1, FdMoveOn DEF HandlerReceive
<1>5. CASE HandlerReceiveFails(c)
  BY <1>5, FdMoveOn DEF HandlerReceiveFails
<1>6. CASE HandlerLookup(c)
  BY <1>6, FdMoveOn DEF HandlerLookup
<1>7. CASE HandlerSubscribe(c)
  BY <1>7, FdMoveOn DEF HandlerSubscribe
<1>8. CASE HandlerUnsubscribe(c)
  BY <1>8, FdMoveOn DEF HandlerUnsubscribe
<1>9. CASE HandlerRemove(c)
  <2> DEFINE f == clientFd[c]
             gone == Matching(f)
  <2> USE <1>9 DEF HandlerRemove, TypeInv, TypeOK, FdInv
  <2>1. f \in Fds /\ f # NoFd
    BY SessionAssumption DEF AcceptedOnce
  <2>2. \A k \in sessions : k \in gone <=> socketFd[k] = f
    BY DEF Matching
  <2>3. \A k \in gone : fdTable[f] = k
    BY <2>1 DEF Matching, EntriesOwnFd
  <2>4. /\ sessions' = sessions \ gone
        /\ gone \subseteq sessions
        /\ gone = {} => fdTable' = fdTable
        /\ gone # {} => fdTable' = [fdTable EXCEPT ![f] = NoConn]
        /\ pc' = [pc EXCEPT ![c] = "done"]
        /\ UNCHANGED <<socketFd, clientFd>>
    BY DEF Close, Matching
  <2>11. /\ fdTable \in [Fds -> Conns \cup {NoConn}]
         /\ pc \in [Conns -> HandlerLabels]
         /\ sessions \subseteq Conns
         /\ socketFd \in [Conns -> Fds \cup {NoFd}]
         /\ pc[c] = "exit"
    OBVIOUS
  <2> HIDE <1>9 DEF gone, HandlerRemove, TypeOK
  <2>5. EntriesOwnFd'
    <3>1. SUFFICES ASSUME NEW k \in sessions', socketFd[k] # NoFd
                   PROVE  socketFd[k] = clientFd[k] /\ fdTable'[socketFd[k]] = k
      BY <2>4 DEF EntriesOwnFd
    <3>2. k \in sessions /\ socketFd[k] # f
      BY <2>2, <2>4
    <3>3. socketFd[k] = clientFd[k] /\ fdTable[socketFd[k]] = k
      BY <3>1, <3>2 DEF EntriesOwnFd
    <3> QED
      BY <2>1, <2>4, <2>11, <3>1, <3>2, <3>3
  <2>6. OpenFdsKnown'
    <3>1. SUFFICES ASSUME NEW g \in Fds, NEW k \in Conns, fdTable'[g] = k
                   PROVE  /\ clientFd[k] = g
                          /\ pc'[k] = "push" \/ (k \in sessions' /\ socketFd[k] = g)
      BY <2>4 DEF OpenFdsKnown
    <3>2. fdTable[g] = k
      BY <2>1, <2>4, <2>11, <3>1, SessionAssumption
    <3>3. k \in gone => g = f /\ fdTable'[f] = NoConn
      BY <2>1, <2>3, <2>4, <2>11, <3>2 DEF OpenFdsKnown
    <3>4. k \notin gone
      BY <3>1, <3>3, SessionAssumption
    <3> QED
      BY <2>4, <2>11, <3>2, <3>4 DEF OpenFdsKnown
  <2>10. PushHoldsFd'
    <3>1. SUFFICES ASSUME NEW k \in Conns, pc'[k] = "push"
                   PROVE  /\ k \notin sessions'
                          /\ clientFd[k] \in Fds
                          /\ fdTable'[clientFd[k]] = k
      BY <2>4 DEF PushHoldsFd
    <3>2. pc[k] = "push"
      BY <2>4, <2>11, <3>1
    <3>3. k \notin sessions /\ clientFd[k] \in Fds /\ fdTable[clientFd[k]] = k
      BY <3>2 DEF PushHoldsFd
    <3>4. gone # {} => clientFd[k] # f
      BY <2>3, <2>4, <3>3
    <3> QED
      BY <2>4, <2>11, <3>3, <3>4
  <2>7. AcceptedOnce'
    BY <1>9, <2>4, <2>11 DEF AcceptedOnce, HandlerRemove
  <2>8. LoopsHoldMutex'
    BY <1>9 DEF LoopsHoldMutex, MutexFree, HandlerRemove
  <2>9. ClosedInBroadcast'
    BY <1>9, <2>4 DEF ClosedInBroadcast, HandlerRemove
  <2> QED
    BY <2>10, <2>5, <2>6, <2>7, <2>8, <2>9
<1> QED
  BY <1>1, <1>2, <1>3, <1>4, <1>5, <1>6, <1>7, <1>8, <1>9, <1>10 DEF Handler

LEMMA WorkerFds ==
  ASSUME TypeInv, FdInv, NEW s \in Symbols, Worker(s)
  PROVE  FdInv'
<1> USE DEF peerVars, listenVars, socketVars, clientVars, mainVars,
            handlerVars, workerVars
<1> USE DEF Advance
<1>1. CASE WorkerReset(s) \/ WorkerCheck(s)
  BY <1>1 DEF WorkerReset, WorkerCheck, TypeInv, TypeOK, FdInv, EntriesOwnFd,
     OpenFdsKnown, PushHoldsFd, AcceptedOnce, LoopsHoldMutex, ClosedInBroadcast
<1>2. CASE WorkerTick(s)
  <2> USE <1>2, SessionAssumption DEF WorkerTick, Subscribers, TypeInv, TypeOK, FdInv, MutexFree
  <2>1. EntriesOwnFd' /\ OpenFdsKnown' /\ PushHoldsFd' /\ AcceptedOnce'
    BY DEF EntriesOwnFd, OpenFdsKnown, PushHoldsFd, AcceptedOnce
  <2>2. \A x \in Symbols : workerPc[x] \notin {"broadcast", "replayDone"}
    BY DEF LoopsHoldMutex
  <2>3. LoopsHoldMutex'
    BY <2>2 DEF LoopsHoldMutex
  <2>4. ClosedInBroadcast'
    BY <2>2 DEF ClosedInBroadcast
  <2> QED
    BY <2>1, <2>3, <2>4
<1>3. ASSUME NEW k \in Conns, WorkerSend(s, k) PROVE FdInv'
  <2>1. /\ workerPc[s] \in {"broadcast", "replayDone"}
        /\ todo' = todo \ {k}
        /\ UNCHANGED <<peer, backlog, sessions, pc, clientFd, clientsMutex,
                       workerPc>>
    BY <1>3 DEF WorkerSend
  <2>2. k \in sessions
    BY <1>3, <2>1, SessionAssumption
       DEF WorkerSend, FdInv, LoopsHoldMutex
  <2>3. LoopsHoldMutex'
    BY <2>1 DEF FdInv, LoopsHoldMutex
  <2>4. CASE UNCHANGED <<socketFd, fdTable>>
    BY <2>1, <2>3, <2>4 DEF FdInv, EntriesOwnFd, OpenFdsKnown, PushHoldsFd,
       AcceptedOnce, ClosedInBroadcast
  <2>5. CASE /\ workerPc[s] = "broadcast"
             /\ socketFd' = [socketFd EXCEPT ![k] = NoFd]
             /\ fdTable' = Close(socketFd[k])
    <3> DEFINE f == socketFd[k]
    <3> USE <2>1, <2>2, <2>5, SessionAssumption DEF TypeInv, TypeOK, FdInv, Close
    <3>1. f # NoFd => f = clientFd[k] /\ fdTable[f] = k
      BY DEF EntriesOwnFd
    <3>2. EntriesOwnFd'
      BY DEF EntriesOwnFd
    <3>3. OpenFdsKnown'
      BY <3>1 DEF OpenFdsKnown
    <3>4. PushHoldsFd'
      BY <3>1 DEF PushHoldsFd
    <3>5. AcceptedOnce'
      BY DEF AcceptedOnce
    <3>6. ClosedInBroadcast'
      BY DEF ClosedInBroadcast
    <3> QED
      BY <2>3, <3>2, <3>3, <3>4, <3>5, <3>6
  <2> QED
    BY <1>3, <2>4, <2>5 DEF WorkerSend
<1>4. CASE WorkerRelease(s)
  <2> USE <1>4, SessionAssumption DEF WorkerRelease, TypeInv, TypeOK, FdInv
  <2>1. \A x \in Symbols : x # s => workerPc[x] \notin {"broadcast", "replayDone"}
    BY DEF LoopsHoldMutex
  <2>2. /\ sessions' \subseteq sessions
        /\ \A k \in sessions : socketFd[k] # NoFd => k \in sessions'
        /\ UNCHANGED <<socketFd, fdTable, clientFd, pc>>
    BY DEF Matching
  <2>3. EntriesOwnFd'
    BY <2>2 DEF EntriesOwnFd
  <2>4. OpenFdsKnown'
    BY <2>2 DEF OpenFdsKnown
  <2>5. PushHoldsFd' /\ AcceptedOnce'
    BY <2>2 DEF PushHoldsFd, AcceptedOnce
  <2>6. LoopsHoldMutex'
    BY <2>1 DEF LoopsHoldMutex
  <2>7. \A k \in sessions' : socketFd[k] # NoFd
    BY <2>1 DEF ClosedInBroadcast, Matching
  <2>8. ClosedInBroadcast'
    BY <2>2, <2>7 DEF ClosedInBroadcast
  <2> QED
    BY <2>3, <2>4, <2>5, <2>6, <2>8
<1> QED
  BY <1>1, <1>2, <1>3, <1>4 DEF Worker

LEMMA MainFds ==
  ASSUME TypeInv, FdInv, MainInv, Main \/ MainStop
  PROVE  FdInv'
<1> USE DEF peerVars, listenVars, socketVars, clientVars, mainVars,
            handlerVars, workerVars
<1>1. CASE \/ \E s \in Symbols : MainRegister(s)
           \/ MainActivate
           \/ MainStop
           \/ MainJoin
  BY <1>1, FdStutter DEF MainRegister, MainActivate, MainStop, MainJoin, fdVars
<1>2. CASE MainReplay
  <2>1. \A s \in Symbols : workerPc'[s] \notin {"broadcast", "replayDone"}
    BY <1>2 DEF MainReplay
  <2>2. \A s \in Symbols : workerPc[s] = "off"
    BY <1>2 DEF MainReplay, MainInv
  <2> QED
    BY <1>2, <2>1, <2>2 DEF MainReplay, FdInv, EntriesOwnFd, OpenFdsKnown,
       PushHoldsFd, AcceptedOnce, LoopsHoldMutex, ClosedInBroadcast
<1>3. CASE MainCloseListener
  BY <1>3 DEF MainCloseListener, TypeInv, TypeOK, FdInv, EntriesOwnFd,
     OpenFdsKnown, PushHoldsFd, AcceptedOnce, LoopsHoldMutex, ClosedInBroadcast
<1>4. CASE MainCloseClients
  <2> DEFINE closing == {socketFd[k] : k \in sessions}
  <2>1. /\ MutexFree
        /\ fdTable' = [f \in Fds |-> IF f \in closing THEN NoConn ELSE fdTable[f]]
        /\ sessions' = {}
        /\ UNCHANGED <<peer, backlog, pc, clientFd, clientsMutex, workerPc, todo>>
    BY <1>4 DEF MainCloseClients
  <2>2. \A f \in Fds \cap closing : \E k \in sessions : fdTable[f] = k
    BY SessionAssumption DEF FdInv, EntriesOwnFd
  <2>3. OpenFdsKnown'
    BY <2>1, SessionAssumption DEF TypeInv, TypeOK, FdInv, OpenFdsKnown
  <2>4. PushHoldsFd'
    BY <2>1, <2>2 DEF TypeInv, TypeOK, FdInv, PushHoldsFd
  <2>5. AcceptedOnce'
    BY <2>1 DEF FdInv, AcceptedOnce
  <2>6. EntriesOwnFd' /\ ClosedInBroadcast'
    BY <2>1 DEF EntriesOwnFd, ClosedInBroadcast
  <2>7. LoopsHoldMutex'
    BY <2>1 DEF FdInv, LoopsHoldMutex, MutexFree
  <2> QED
    BY <2>3, <2>4, <2>5, <2>6, <2>7 DEF FdInv
<1> QED
  BY <1>1, <1>2, <1>3, <1>4 DEF Main

LEMMA InitFds == Init => FdInv
BY SessionAssumption
   DEF Init, FdInv, EntriesOwnFd, OpenFdsKnown, PushHoldsFd, AcceptedOnce,
       LoopsHoldMutex, ClosedInBroadcast

-----------------------------------------------------------------------------
(* The order in which main() starts and stops the threads.                 *)

LEMMA MainInvNext ==
  ASSUME TypeInv, MainInv, Next
  PROVE  MainInv'
<1> USE DEF peerVars, listenVars, socketVars, clientVars, mainVars,
            handlerVars, workerVars
<1>1. ASSUME NEW s \in Symbols, Worker(s) PROVE MainInv'
  <2>1. workerPc[s] # "off" /\ UNCHANGED mainVars
    BY <1>1 DEF Worker, WorkerReset, WorkerCheck, WorkerTick, WorkerSend,
       WorkerRelease
  <2> QED
    BY <2>1 DEF MainInv
<1>2. ASSUME NEW c \in Conns, Handler(c) PROVE MainInv'
  BY <1>2 DEF MainInv, Handler, HandlerPush, HandlerReply, HandlerLoop,
     HandlerRead, HandlerReceive, HandlerReceiveFails, HandlerLookup, HandlerSubscribe,
     HandlerUnsubscribe, HandlerRemove
<1>3. ASSUME NEW c \in Conns,
             PeerConnect(c) \/ (\E r \in PeerRequests : PeerSend(c, r))
               \/ PeerRead(c) \/ PeerGone(c)
      PROVE  MainInv'
  BY <1>3 DEF MainInv, PeerConnect, PeerSend, PeerRead, PeerGone
<1>4. CASE \/ AcceptCheck
           \/ \E c \in Conns, f \in Fds : Accept(c, f)
           \/ AcceptFails
  BY <1>4 DEF MainInv, AcceptCheck, Accept, AcceptFails
<1>5. CASE Main \/ MainStop
  BY <1>5 DEF MainInv, Main, MainRegister, MainActivate, MainReplay, MainStop,
     MainCloseListener, MainJoin, MainCloseClients
<1>6. CASE Terminated
  BY <1>6 DEF Terminated, vars, MainInv
<1> QED
  BY <1>1, <1>2, <1>3, <1>4, <1>5, <1>6 DEF Next

\* After the sweep of stop() a handler can register, but its loop ends at once.
LEMMA StopNext ==
  ASSUME TypeInv, FdInv, MainInv, StopIsComplete, Next
  PROVE  StopIsComplete'
<1> USE DEF peerVars, listenVars, socketVars, clientVars, mainVars,
            handlerVars, workerVars
<1> USE DEF StopIsComplete
<1>1. ASSUME NEW s \in Symbols, Worker(s) PROVE StopIsComplete'
  BY <1>1 DEF Worker, WorkerReset, WorkerCheck, WorkerTick, WorkerSend,
     WorkerRelease
<1>2. ASSUME NEW c \in Conns, Handler(c) PROVE StopIsComplete'
  <2> USE DEF TypeInv, TypeOK, Goto
  <2>1. CASE HandlerPush(c)
    BY <2>1 DEF HandlerPush
  <2>2. CASE HandlerReply(c)
    BY <2>2 DEF HandlerReply
  <2>3. CASE HandlerLoop(c)
    BY <2>3 DEF HandlerLoop, HandlerContinues, MainInv
  <2>4. CASE HandlerRead(c) \/ HandlerReceive(c) \/ HandlerReceiveFails(c)
    <3>1. mainPc = "stopped" => c \notin sessions
      BY <2>4 DEF HandlerRead, HandlerReceive, HandlerReceiveFails
    <3> QED
      BY <2>4, <3>1 DEF HandlerRead, HandlerReceive, HandlerReceiveFails
  <2>5. CASE HandlerLookup(c) \/ HandlerSubscribe(c) \/ HandlerUnsubscribe(c)
    <3>1. mainPc = "stopped" => c \notin sessions
      BY <2>5 DEF HandlerLookup, HandlerSubscribe, HandlerUnsubscribe
    <3>2. UNCHANGED <<sessions, mainPc>>
      BY <2>5 DEF HandlerLookup, HandlerSubscribe, HandlerUnsubscribe
    <3>3. \A k \in Conns : k # c => pc'[k] = pc[k]
      BY <2>5 DEF HandlerLookup, HandlerSubscribe, HandlerUnsubscribe
    <3> QED
      BY <3>1, <3>2, <3>3
  <2>6. CASE HandlerRemove(c)
    <3>1. c \in sessions => c \in Matching(clientFd[c])
      BY <2>6, SessionAssumption DEF HandlerRemove, MutexFree, Matching, FdInv,
         EntriesOwnFd, ClosedInBroadcast, LoopsHoldMutex
    <3> QED
      BY <2>6, <3>1 DEF HandlerRemove
  <2> QED
    BY <1>2, <2>1, <2>2, <2>3, <2>4, <2>5, <2>6 DEF Handler
<1>3. ASSUME NEW c \in Conns,
             PeerConnect(c) \/ (\E r \in PeerRequests : PeerSend(c, r))
               \/ PeerRead(c) \/ PeerGone(c)
      PROVE  StopIsComplete'
  BY <1>3 DEF PeerConnect, PeerSend, PeerRead, PeerGone
<1>4. ASSUME NEW c \in Conns, NEW f \in Fds, Accept(c, f) PROVE StopIsComplete'
  <2>1. c \notin sessions
    BY <1>4 DEF Accept, FdInv, AcceptedOnce
  <2> QED
    BY <1>4, <2>1 DEF Accept, TypeInv, TypeOK
<1>5. CASE AcceptCheck \/ AcceptFails
  BY <1>5 DEF AcceptCheck, AcceptFails
<1>6. CASE Main \/ MainStop
  BY <1>6 DEF Main, MainRegister, MainActivate, MainReplay, MainStop,
     MainCloseListener, MainJoin, MainCloseClients
<1>7. CASE Terminated
  BY <1>7 DEF Terminated, vars
<1> QED
  BY <1>1, <1>2, <1>3, <1>4, <1>5, <1>6, <1>7 DEF Next

-----------------------------------------------------------------------------
(* Subscriptions and feeds.                                                *)

feedVars == <<feeds, mainPc, activating, pc, request, feedReady, workerPc,
              subscribed, pending>>

LEMMA FeedStutter ==
  ASSUME FeedInv, UNCHANGED feedVars
  PROVE  FeedInv'
BY DEF feedVars, FeedInv

\* A handler that leaves the subscriptions alone and is not about to act on
\* feedReady.
LEMMA FeedMoveOn ==
  ASSUME TypeInv, FeedInv, NEW c \in Conns, pc'[c] # "subscribe",
         \A k \in Conns \ {c} : /\ pc'[k] = pc[k]
                                /\ request'[k] = request[k]
                                /\ feedReady'[k] = feedReady[k],
         UNCHANGED <<feeds, mainPc, activating, workerPc, subscribed, pending>>
  PROVE  FeedInv'
BY DEF FeedInv

LEMMA HandlerFeeds ==
  ASSUME TypeInv, FeedInv, NEW c \in Conns, Handler(c)
  PROVE  FeedInv'
<1> USE DEF peerVars, listenVars, socketVars, clientVars, mainVars,
            handlerVars, workerVars
<1> USE DEF Goto, TypeInv, TypeOK
<1>1. CASE HandlerPush(c)
  BY <1>1, FeedMoveOn DEF HandlerPush
<1>2. CASE HandlerReply(c)
  BY <1>2, FeedMoveOn DEF HandlerReply
<1>3. CASE HandlerLoop(c)
  BY <1>3, FeedMoveOn DEF HandlerLoop
<1>10. CASE HandlerRead(c)
  BY <1>10, FeedMoveOn DEF HandlerRead
<1>4. CASE HandlerReceive(c)
  <2>1. Dispatch(Head(inbox[bound[c]])) # "subscribe"
    BY DispatchLabel
  <2> QED
    BY <1>4, <2>1, FeedMoveOn DEF HandlerReceive
<1>5. CASE HandlerReceiveFails(c)
  BY <1>5, FeedMoveOn DEF HandlerReceiveFails
<1>6. CASE HandlerLookup(c)
  BY <1>6 DEF HandlerLookup, FeedInv
<1>7. CASE HandlerSubscribe(c)
  <2>1. request[c] \in Symbols /\ request[c] # NoSymbol
    BY <1>7, SessionAssumption DEF HandlerSubscribe, LocalsOK
  <2>2. CASE UNCHANGED <<subscribed, pending>>
    BY <1>7, <2>2, FeedMoveOn DEF HandlerSubscribe
  <2>3. ASSUME NEW k \in Matching(clientFd[c]),
               IF feedReady[c] THEN SetSymbols(k, request[c], NoSymbol)
                               ELSE SetSymbols(k, NoSymbol, request[c])
        PROVE  FeedInv'
    <3>1. k \in Conns
      BY DEF Matching
    <3>2. feedReady[c] => request[c] \in feeds
      BY <1>7 DEF HandlerSubscribe, FeedInv
    <3>3. PICK active, deferred :
            /\ SetSymbols(k, active, deferred)
            /\ active # NoSymbol => active \in feeds /\ deferred = NoSymbol
      BY <2>3, <3>2
    <3>4. /\ subscribed' = [subscribed EXCEPT ![k] = active]
          /\ pending' = [pending EXCEPT ![k] = deferred]
      BY <3>3 DEF SetSymbols
    <3>5. \A x \in Conns : subscribed[x] # NoSymbol =>
            subscribed[x] \in feeds /\ pending[x] = NoSymbol
      BY DEF FeedInv
    <3>6. \A x \in Conns : subscribed'[x] # NoSymbol =>
            subscribed'[x] \in feeds /\ pending'[x] = NoSymbol
      BY <3>1, <3>3, <3>4, <3>5
    <3> QED
      BY <1>7, <3>6 DEF HandlerSubscribe, FeedInv
  <2> QED
    BY <1>7, <2>2, <2>3 DEF HandlerSubscribe
<1>8. CASE HandlerUnsubscribe(c)
  <2>1. CASE UNCHANGED <<subscribed, pending>>
    BY <1>8, <2>1, FeedMoveOn DEF HandlerUnsubscribe
  <2>2. ASSUME NEW k \in Matching(clientFd[c]), SetSymbols(k, NoSymbol, NoSymbol)
        PROVE  FeedInv'
    BY <1>8, <2>2 DEF HandlerUnsubscribe, SetSymbols, Matching, FeedInv
  <2> QED
    BY <1>8, <2>1, <2>2 DEF HandlerUnsubscribe
<1>9. CASE HandlerRemove(c)
  BY <1>9, FeedMoveOn DEF HandlerRemove
<1> QED
  BY <1>1, <1>2, <1>3, <1>4, <1>5, <1>6, <1>7, <1>8, <1>9, <1>10 DEF Handler

LEMMA MainFeeds ==
  ASSUME TypeInv, FeedInv, Main \/ MainStop
  PROVE  FeedInv'
<1> USE DEF peerVars, listenVars, socketVars, clientVars, mainVars,
            handlerVars, workerVars
<1> USE DEF TypeInv, TypeOK, FeedInv
<1>1. ASSUME NEW s \in Symbols, MainRegister(s) PROVE FeedInv'
  BY <1>1 DEF MainRegister
<1>2. CASE MainActivate
  BY <1>2, SessionAssumption DEF MainActivate, Waiting
<1>3. CASE MainReplay
  BY <1>3 DEF MainReplay
<1>4. CASE MainStop
  BY <1>4 DEF MainStop
<1>5. CASE MainCloseListener \/ MainJoin \/ MainCloseClients
  BY <1>5 DEF MainCloseListener, MainJoin, MainCloseClients
<1> QED
  BY <1>1, <1>2, <1>3, <1>4, <1>5 DEF Main

LEMMA FeedNext ==
  ASSUME TypeInv, FeedInv, Next
  PROVE  FeedInv'
<1> USE DEF peerVars, listenVars, socketVars, clientVars, mainVars,
            handlerVars, workerVars
<1>1. ASSUME NEW s \in Symbols, Worker(s) PROVE FeedInv'
  <2>1. /\ \A x \in Symbols : workerPc[x] # "off" => workerPc'[x] # "off"
        /\ UNCHANGED <<feeds, mainPc, activating, pc, request, feedReady,
                       subscribed, pending>>
    BY <1>1 DEF Worker, WorkerReset, WorkerCheck, WorkerTick, WorkerSend,
       WorkerRelease, Advance, TypeInv, TypeOK
  <2> QED
    BY <2>1 DEF FeedInv, TypeInv, TypeOK
<1>2. ASSUME NEW c \in Conns,
             PeerConnect(c) \/ (\E r \in PeerRequests : PeerSend(c, r))
               \/ PeerRead(c) \/ PeerGone(c)
      PROVE  FeedInv'
  BY <1>2, FeedStutter DEF feedVars, PeerConnect, PeerSend, PeerRead, PeerGone
<1>3. CASE AcceptCheck \/ AcceptFails
  BY <1>3, FeedStutter DEF feedVars, AcceptCheck, AcceptFails
<1>4. ASSUME NEW c \in Conns, NEW f \in Fds, Accept(c, f) PROVE FeedInv'
  BY <1>4, FeedMoveOn DEF Accept, TypeInv, TypeOK
<1>5. CASE Terminated
  BY <1>5, FeedStutter DEF Terminated, vars, feedVars
<1> QED
  BY <1>1, <1>2, <1>3, <1>4, <1>5, HandlerFeeds, MainFeeds DEF Next

-----------------------------------------------------------------------------
(* The invariant of the server.                                            *)

LEMMA IInvInit == Init => IInv
<1>1. Init => MainInv /\ StopIsComplete /\ FeedInv
  BY SessionAssumption DEF Init, MainInv, StopIsComplete, FeedInv
<1> QED
  BY <1>1, InitTypes, InitFds DEF IInv

LEMMA IInvNext == IInv /\ [Next]_vars => IInv'
<1> SUFFICES ASSUME IInv, [Next]_vars PROVE IInv'
  OBVIOUS
<1> USE DEF IInv
<1>1. TypeInv'
  BY NextTypes
<1>2. CASE Next
  <2>1. CASE Terminated
    BY <2>1, <1>1, FdStutter, MainInvNext, StopNext, FeedNext, <1>2
       DEF Terminated, vars, fdVars, peerVars, listenVars, socketVars,
           clientVars, handlerVars, workerVars
  <2>2. CASE ~Terminated
    <3>1. FdInv'
      BY <1>2, <2>2, PeerFds, AcceptFds, HandlerFds, WorkerFds, MainFds DEF Next
    <3> QED
      BY <1>1, <1>2, <3>1, MainInvNext, StopNext, FeedNext
  <2> QED
    BY <2>1, <2>2
<1>3. CASE UNCHANGED vars
  BY <1>1, <1>3, FdStutter, FeedStutter
     DEF vars, fdVars, feedVars, peerVars, listenVars, socketVars, clientVars,
         mainVars, handlerVars, workerVars, MainInv, StopIsComplete
<1> QED
  BY <1>2, <1>3

THEOREM Invariance == Spec => []IInv
BY IInvInit, IInvNext, PTL DEF Spec

\* A broadcast never writes to a stranger: the descriptor of a live entry of
\* clients_ is open and leads to the connection of that entry, although
\* removeClient, broadcast and stop() close descriptors under other threads.
THEOREM FdsOwned == Spec => []SessionOwnsFd
<1>1. IInv => SessionOwnsFd
  BY DEF IInv, FdInv, EntriesOwnFd, SessionOwnsFd
<1> QED
  BY <1>1, Invariance, PTL

\* No descriptor leaks, however sessions end: each open one is in clients_ or
\* its handler is about to put it there.
THEOREM FdsNotLeaked == Spec => []NoFdLeak
<1>1. IInv => NoFdLeak
  BY DEF IInv, TypeInv, TypeOK, FdInv, OpenFdsKnown, NoFdLeak
<1> QED
  BY <1>1, Invariance, PTL

\* After stop() no registered handler is left waiting in recv.
THEOREM StopCompletes == Spec => []StopIsComplete
<1>1. IInv => StopIsComplete
  BY DEF IInv
<1> QED
  BY <1>1, Invariance, PTL

\* An active subscription names a registered feed, with a worker once replay
\* has begun, whatever the order of Subscribe, registerFeed, runReplayLoop.
THEOREM SubscriptionsHaveFeeds == Spec => []SubscribedHasFeed
<1>1. IInv => SubscribedHasFeed
  BY DEF IInv, TypeInv, TypeOK, FeedInv, SubscribedHasFeed
<1> QED
  BY <1>1, Invariance, PTL
=============================================================================
