--------------------------- MODULE SessionManager ---------------------------
(***************************************************************************)
(* The replay server (server/session_manager.cpp, driven by                *)
(* server/main.cpp): the main thread, the accept thread, one detached      *)
(* handler thread per accepted connection and one replay worker per feed,  *)
(* sharing the vector clients_ under clients_mutex_, the map feeds_ under  *)
(* feeds_mutex_, the flag running_ and the process's descriptor table.     *)
(*                                                                         *)
(* A critical section that makes no blocking call is one action, enabled   *)
(* when the mutex is free.  The two that send while they hold              *)
(* clients_mutex_ (broadcast and the ReplayDone loop) are split into       *)
(* acquire, one send per client, release.  The calls a handler makes       *)
(* without the mutex (accept, recv, send, the look at feeds_) are actions  *)
(* of their own: between two of them every other thread may run.           *)
(***************************************************************************)
EXTENDS MarketDataFeed, Sequences, FiniteSets

CONSTANTS
  Conns,           \* the TCP connections peers may open, each at most once
  Fds,             \* descriptor numbers accept() can return
  NoFd,            \* socket_fd = -1
  NoConn,          \* an unused entry of the descriptor table
  NoSymbol,        \* the empty string in subscribed_symbol, pending_symbol
  UnknownSymbol,   \* any symbol isKnownSymbol rejects
  PeerRequests,    \* the requests peers send
  MaxRequests,     \* bound: requests per connection
  SendBuffer,      \* bound: packets the kernel buffers towards one peer
  LoopForever      \* UDS_LOOP

Request ==
  [type : {"Subscribe"}, symbol : Symbols \cup {UnknownSymbol}]
    \cup [type : {"Unsubscribe", "Heartbeat", "Ignored", "BadMagic"},
          symbol : {NoSymbol}]

ASSUME SessionAssumption ==
  /\ NoFd \notin Fds
  /\ NoConn \notin Conns
  /\ NoSymbol \notin Symbols \cup {UnknownSymbol}
  /\ UnknownSymbol \notin Symbols
  /\ PeerRequests \subseteq Request
  /\ MaxRequests \in Nat
  /\ SendBuffer \in Nat \ {0}
  /\ LoopForever \in BOOLEAN

Packet ==
  [type : {"Welcome", "Heartbeat", "Error"}, symbol : {NoSymbol}, n : {0}]
    \cup [type : {"MarketUpdate", "ReplayDone"}, symbol : Symbols, n : Nat]

VARIABLES
  \* ---- the network and the kernel
  peer,         \* "none" before connect, "up", "gone" after close or reset
  backlog,      \* connections waiting in the listen queue
  requestCount, \* requests the peer has sent
  inbox,        \* requests in the receive queue of a connection
  outbox,       \* packets sent to a connection and not yet read by its peer
  shutDown,     \* connections the server called shutdown(SHUT_RDWR) on
  fdTable,      \* the connection behind each descriptor
  listening,    \* listen_fd_ is open
  \* ---- SessionManager's members
  running,      \* running_
  feeds,        \* the keys of feeds_
  clientsMutex, \* the feed whose worker holds clients_mutex_, or NoSymbol
  sessions,     \* the entries of clients_, named by the connection they serve
  socketFd, subscribed, pending,    \* the fields of each entry
  \* ---- threads
  mainPc, activating,               \* main(); registerFeed's argument
  acceptPc,                         \* acceptLoop
  pc, clientFd, request, feedReady, bound,   \* handleClient, per connection
  workerPc, cursor, todo,           \* the replay workers; broadcast's loop
  \* ---- history
  heard         \* the last feed event sent under the current subscription

peerVars    == <<peer, requestCount, inbox>>
listenVars  == <<backlog, listening>>
socketVars  == <<outbox, shutDown, fdTable>>
clientVars  == <<sessions, socketFd, subscribed, pending>>
mainVars    == <<running, mainPc, activating>>
handlerVars == <<pc, clientFd, request, feedReady, bound>>
workerVars  == <<clientsMutex, workerPc, cursor, todo>>
vars == <<peerVars, listenVars, socketVars, clientVars, feeds, mainVars,
          acceptPc, handlerVars, workerVars, heard>>

\* An entry of clients_ that was erased keeps its last field values here; no
\* guard reads them, they record what the client had been subscribed to.

Init ==
  /\ peer = [c \in Conns |-> "none"]
  /\ backlog = {}
  /\ requestCount = [c \in Conns |-> 0]
  /\ inbox = [c \in Conns |-> <<>>]
  /\ outbox = [c \in Conns |-> <<>>]
  /\ shutDown = {}
  /\ fdTable = [f \in Fds |-> NoConn]
  /\ listening = TRUE
  /\ running = TRUE
  /\ feeds = {}
  /\ clientsMutex = NoSymbol
  /\ sessions = {}
  /\ socketFd = [c \in Conns |-> NoFd]
  /\ subscribed = [c \in Conns |-> NoSymbol]
  /\ pending = [c \in Conns |-> NoSymbol]
  /\ mainPc = "register"
  /\ activating = NoSymbol
  /\ acceptPc = "check"
  /\ pc = [c \in Conns |-> "none"]
  /\ clientFd = [c \in Conns |-> NoFd]
  /\ request = [c \in Conns |-> NoSymbol]
  /\ feedReady = [c \in Conns |-> FALSE]
  /\ bound = [c \in Conns |-> NoConn]
  /\ workerPc = [s \in Symbols |-> "off"]
  /\ cursor = [s \in Symbols |-> 0]
  /\ todo = {}
  /\ heard = [c \in Conns |-> -1]

\* Mutant: a critical section entered without its lock_guard.
MutexIgnored == TRUE

MutexFree == clientsMutex = NoSymbol

-----------------------------------------------------------------------------
(* Sockets.  A call on a descriptor reaches the connection the descriptor  *)
(* table names at that moment, whoever it belongs to.                      *)

Behind(f) == IF f = NoFd THEN NoConn ELSE fdTable[f]

\* send() returns: the packet fits in the buffer of a live connection ...
Sendable(d) ==
  /\ d # NoConn
  /\ peer[d] = "up"
  /\ d \notin shutDown
  /\ Len(outbox[d]) < SendBuffer

\* ... or the call fails: EBADF, EPIPE, ECONNRESET.  Else it blocks.
SendFails(d) == d # NoConn => peer[d] = "gone" \/ d \in shutDown

Plain(type) == [type |-> type, symbol |-> NoSymbol, n |-> 0]

\* SessionManager::sendPacket, which ignores what writeAll returns.
SendPacket(f, packet) ==
  LET d == Behind(f) IN
  \/ /\ Sendable(d)
     /\ outbox' = [outbox EXCEPT ![d] = Append(@, packet)]
  \/ /\ SendFails(d)
     /\ UNCHANGED outbox

\* Mutant: the entry is dropped and its descriptor stays open.
CloseForgotten(f) == fdTable

\* ::close(f)
Close(f) == [fdTable EXCEPT ![f] = NoConn]

\* The entries of clients_ a loop over "client.socket_fd == client_fd" finds.
Matching(f) == {k \in sessions : socketFd[k] = f}

-----------------------------------------------------------------------------
(* Peers: any program that speaks the protocol.                            *)

PeerConnect(c) ==
  /\ peer[c] = "none"
  /\ listening
  /\ peer' = [peer EXCEPT ![c] = "up"]
  /\ backlog' = backlog \cup {c}
  /\ UNCHANGED <<requestCount, inbox, listening, socketVars, clientVars, feeds,
                 mainVars, acceptPc, handlerVars, workerVars, heard>>

PeerSend(c, r) ==
  /\ peer[c] = "up"
  /\ requestCount[c] < MaxRequests
  /\ requestCount' = [requestCount EXCEPT ![c] = @ + 1]
  /\ inbox' = [inbox EXCEPT ![c] = Append(@, r)]
  /\ UNCHANGED <<peer, listenVars, socketVars, clientVars, feeds, mainVars,
                 acceptPc, handlerVars, workerVars, heard>>

PeerRead(c) ==
  /\ peer[c] = "up"
  /\ outbox[c] # <<>>
  /\ outbox' = [outbox EXCEPT ![c] = Tail(@)]
  /\ UNCHANGED <<peerVars, listenVars, shutDown, fdTable, clientVars, feeds,
                 mainVars, acceptPc, handlerVars, workerVars, heard>>

PeerGone(c) ==
  /\ peer[c] = "up"
  /\ peer' = [peer EXCEPT ![c] = "gone"]
  /\ outbox' = [outbox EXCEPT ![c] = <<>>]
  /\ UNCHANGED <<requestCount, inbox, listenVars, shutDown, fdTable, clientVars,
                 feeds, mainVars, acceptPc, handlerVars, workerVars, heard>>

-----------------------------------------------------------------------------
(* acceptLoop                                                              *)

AcceptCheck ==
  /\ acceptPc = "check"
  /\ acceptPc' = IF running THEN "accept" ELSE "done"
  /\ UNCHANGED <<peerVars, listenVars, socketVars, clientVars, feeds, mainVars,
                 handlerVars, workerVars, heard>>

\* accept() returns descriptor f for c; the handler thread starts, detached.
Accept(c, f) ==
  /\ acceptPc = "accept"
  /\ c \in backlog
  /\ fdTable[f] = NoConn
  /\ backlog' = backlog \ {c}
  /\ fdTable' = [fdTable EXCEPT ![f] = c]
  /\ clientFd' = [clientFd EXCEPT ![c] = f]
  /\ pc' = [pc EXCEPT ![c] = "push"]
  /\ acceptPc' = "check"
  /\ UNCHANGED <<peerVars, listening, outbox, shutDown, clientVars, feeds,
                 mainVars, request, feedReady, bound, workerVars, heard>>

\* accept() fails (listener shut down, no descriptor left, connection
\* aborted in the queue): the loop ends, whether or not the server stops.
AcceptFails ==
  /\ acceptPc = "accept"
  /\ \/ ~listening
     \/ \A f \in Fds : fdTable[f] # NoConn
     \/ \E c \in backlog : peer[c] = "gone"
  /\ acceptPc' = "done"
  /\ UNCHANGED <<peerVars, listenVars, socketVars, clientVars, feeds, mainVars,
                 handlerVars, workerVars, heard>>

-----------------------------------------------------------------------------
(* handleClient.  clientFd is the int the thread was started with.         *)

Goto(c, label) == pc' = [pc EXCEPT ![c] = label]

\* clients_.push_back(ClientSession{client_fd, {}, {}})
HandlerPush(c) ==
  /\ pc[c] = "push"
  /\ MutexFree
  /\ sessions' = sessions \cup {c}
  /\ socketFd' = [socketFd EXCEPT ![c] = clientFd[c]]
  /\ Goto(c, "welcome")
  /\ UNCHANGED <<peerVars, listenVars, socketVars, subscribed, pending, feeds,
                 mainVars, acceptPc, clientFd, request, feedReady, bound,
                 workerVars, heard>>

\* sendPacket outside the mutex: Welcome, a Heartbeat answer, an Error.
HandlerReply(c) ==
  /\ \/ pc[c] = "welcome"   /\ SendPacket(clientFd[c], Plain("Welcome"))
     \/ pc[c] = "heartbeat" /\ SendPacket(clientFd[c], Plain("Heartbeat"))
     \/ pc[c] = "error"     /\ SendPacket(clientFd[c], Plain("Error"))
  /\ Goto(c, "loop")
  /\ UNCHANGED <<peerVars, listenVars, shutDown, fdTable, clientVars, feeds,
                 mainVars, acceptPc, clientFd, request, feedReady, bound,
                 workerVars, heard>>

\* Mutant: while (true).
HandlerContinuesAlways == TRUE

\* while (running_)
HandlerContinues == running

HandlerLoop(c) ==
  /\ pc[c] = "loop"
  /\ Goto(c, IF HandlerContinues THEN "read" ELSE "exit")
  /\ UNCHANGED <<peerVars, listenVars, socketVars, clientVars, feeds, mainVars,
                 acceptPc, clientFd, request, feedReady, bound, workerVars,
                 heard>>

\* recv binds to the connection now behind the descriptor and stays with it,
\* even if the descriptor is closed meanwhile; on a closed one it fails.
HandlerRead(c) ==
  /\ pc[c] = "read"
  /\ LET d == Behind(clientFd[c]) IN
     \/ /\ d # NoConn
        /\ bound' = [bound EXCEPT ![c] = d]
        /\ Goto(c, "recv")
     \/ /\ d = NoConn
        /\ Goto(c, "exit")
        /\ UNCHANGED bound
  /\ UNCHANGED <<peerVars, listenVars, socketVars, clientVars, feeds, mainVars,
                 acceptPc, clientFd, request, feedReady, workerVars, heard>>

\* Where the switch of handleClient (and isKnownSymbol) sends a request.
Dispatch(r) ==
  CASE r.type = "Subscribe" /\ r.symbol \in Symbols    -> "lookup"
    [] r.type = "Subscribe" /\ r.symbol \notin Symbols -> "error"
    [] r.type = "Unsubscribe" -> "unsubscribe"
    [] r.type = "Heartbeat"   -> "heartbeat"
    [] r.type = "BadMagic"    -> "exit"
    [] OTHER                  -> "loop"

HandlerReceive(c) ==
  /\ pc[c] = "recv"
  /\ inbox[bound[c]] # <<>>
  /\ LET r == Head(inbox[bound[c]]) IN
     /\ request' = [request EXCEPT ![c] = r.symbol]
     /\ Goto(c, Dispatch(r))
  /\ inbox' = [inbox EXCEPT ![bound[c]] = Tail(@)]
  /\ UNCHANGED <<peer, requestCount, listenVars, socketVars, clientVars, feeds,
                 mainVars, acceptPc, clientFd, feedReady, bound, workerVars,
                 heard>>

\* recv returns 0 or an error, before a request or in the middle of one.
HandlerReceiveFails(c) ==
  /\ pc[c] = "recv"
  /\ peer[bound[c]] = "gone" \/ bound[c] \in shutDown
  /\ Goto(c, "exit")
  /\ UNCHANGED <<peerVars, listenVars, socketVars, clientVars, feeds, mainVars,
                 acceptPc, clientFd, request, feedReady, bound, workerVars,
                 heard>>

\* subscribeClient, first critical section: the look at feeds_.
HandlerLookup(c) ==
  /\ pc[c] = "lookup"
  /\ feedReady' = [feedReady EXCEPT ![c] = request[c] \in feeds]
  /\ Goto(c, "subscribe")
  /\ UNCHANGED <<peerVars, listenVars, socketVars, clientVars, feeds, mainVars,
                 acceptPc, clientFd, request, bound, workerVars, heard>>

\* Mutant: the other of the two fields keeps its old symbol.
SetSymbolsHalf(k, active, deferred) ==
  /\ subscribed' = [subscribed EXCEPT ![k] = active]
  /\ pending' = IF deferred = NoSymbol THEN pending
                ELSE [pending EXCEPT ![k] = deferred]
  /\ heard' = [heard EXCEPT ![k] = -1]

SetSymbols(k, active, deferred) ==
  /\ subscribed' = [subscribed EXCEPT ![k] = active]
  /\ pending' = [pending EXCEPT ![k] = deferred]
  /\ heard' = [heard EXCEPT ![k] = -1]

\* subscribeClient, second critical section: it acts on what the first saw.
HandlerSubscribe(c) ==
  /\ pc[c] = "subscribe"
  /\ MutexFree
  /\ \/ \E k \in Matching(clientFd[c]) :
          /\ IF feedReady[c] THEN SetSymbols(k, request[c], NoSymbol)
                             ELSE SetSymbols(k, NoSymbol, request[c])
          /\ Goto(c, "loop")
     \/ /\ Matching(clientFd[c]) = {}
        /\ Goto(c, "error")
        /\ UNCHANGED <<subscribed, pending, heard>>
  /\ UNCHANGED <<peerVars, listenVars, socketVars, sessions, socketFd, feeds,
                 mainVars, acceptPc, clientFd, request, feedReady, bound,
                 workerVars>>

\* unsubscribeClient
HandlerUnsubscribe(c) ==
  /\ pc[c] = "unsubscribe"
  /\ MutexFree
  /\ \/ \E k \in Matching(clientFd[c]) : SetSymbols(k, NoSymbol, NoSymbol)
     \/ /\ Matching(clientFd[c]) = {}
        /\ UNCHANGED <<subscribed, pending, heard>>
  /\ Goto(c, "loop")
  /\ UNCHANGED <<peerVars, listenVars, socketVars, sessions, socketFd, feeds,
                 mainVars, acceptPc, clientFd, request, feedReady, bound,
                 workerVars>>

\* removeClient: close and erase every entry with this descriptor.
HandlerRemove(c) ==
  /\ pc[c] = "exit"
  /\ MutexFree
  /\ LET gone == Matching(clientFd[c]) IN
     /\ sessions' = sessions \ gone
     /\ fdTable' = IF gone = {} THEN fdTable ELSE Close(clientFd[c])
  /\ Goto(c, "done")
  /\ UNCHANGED <<peerVars, listenVars, outbox, shutDown, socketFd, subscribed,
                 pending, feeds, mainVars, acceptPc, clientFd, request,
                 feedReady, bound, workerVars, heard>>

Handler(c) ==
  \/ HandlerPush(c)
  \/ HandlerReply(c)
  \/ HandlerLoop(c)
  \/ HandlerRead(c)
  \/ HandlerReceive(c)
  \/ HandlerReceiveFails(c)
  \/ HandlerLookup(c)
  \/ HandlerSubscribe(c)
  \/ HandlerUnsubscribe(c)
  \/ HandlerRemove(c)

-----------------------------------------------------------------------------
(* The replay worker of feed s (runReplayLoop).  The sleep between two     *)
(* ticks is the time a worker may rest in "tick".                          *)

Advance(s, label) == workerPc' = [workerPc EXCEPT ![s] = label]

\* Mutant: a new pass without feed->reset().
WorkerResetForgotten(s) ==
  /\ workerPc[s] = "reset"
  /\ Advance(s, "check")
  /\ UNCHANGED <<peerVars, listenVars, socketVars, clientVars, feeds, mainVars,
                 acceptPc, handlerVars, clientsMutex, cursor, todo, heard>>

WorkerReset(s) ==
  /\ workerPc[s] = "reset"
  /\ cursor' = [cursor EXCEPT ![s] = 0]
  /\ Advance(s, "check")
  /\ UNCHANGED <<peerVars, listenVars, socketVars, clientVars, feeds, mainVars,
                 acceptPc, handlerVars, clientsMutex, todo, heard>>

\* Mutant: } while (loop_forever).
WorkerCheckForever(s) ==
  /\ workerPc[s] = "check"
  /\ Advance(s, IF running THEN "tick" ELSE IF LoopForever THEN "reset" ELSE "done")
  /\ UNCHANGED <<peerVars, listenVars, socketVars, clientVars, feeds, mainVars,
                 acceptPc, handlerVars, clientsMutex, cursor, todo, heard>>

\* while (running_); once it is FALSE the do-while ends too.
WorkerCheck(s) ==
  /\ workerPc[s] = "check"
  /\ Advance(s, IF running THEN "tick" ELSE "done")
  /\ UNCHANGED <<peerVars, listenVars, socketVars, clientVars, feeds, mainVars,
                 acceptPc, handlerVars, clientsMutex, cursor, todo, heard>>

\* Mutant: broadcast without the look at subscribed_symbol.
SubscribersAll(s) == sessions

\* The clients a loop over clients_ does not skip.
Subscribers(s) == {k \in sessions : subscribed[k] = s}

\* Mutant: the ReplayDone loop skips the subscribers and serves the others.
WorkerTickOthers(s) ==
  /\ workerPc[s] = "tick"
  /\ MutexFree
  /\ clientsMutex' = s
  /\ IF HasNext(s, cursor[s])
     THEN /\ cursor' = [cursor EXCEPT ![s] = @ + 1]
          /\ todo' = Subscribers(s)
          /\ Advance(s, "broadcast")
     ELSE /\ UNCHANGED cursor
          /\ todo' = sessions \ Subscribers(s)
          /\ Advance(s, "replayDone")
  /\ UNCHANGED <<peerVars, listenVars, socketVars, clientVars, feeds, mainVars,
                 acceptPc, handlerVars, heard>>

\* next(), then clients_mutex_: for broadcast, or for the ReplayDone loop.
WorkerTick(s) ==
  /\ workerPc[s] = "tick"
  /\ MutexFree
  /\ clientsMutex' = s
  /\ todo' = Subscribers(s)
  /\ IF HasNext(s, cursor[s])
     THEN /\ cursor' = [cursor EXCEPT ![s] = @ + 1]
          /\ Advance(s, "broadcast")
     ELSE /\ UNCHANGED cursor
          /\ Advance(s, "replayDone")
  /\ UNCHANGED <<peerVars, listenVars, socketVars, clientVars, feeds, mainVars,
                 acceptPc, handlerVars, heard>>

MarketUpdate(s) ==
  [type |-> "MarketUpdate", symbol |-> s, n |-> LastSequence(cursor[s])]
ReplayDone(s) ==
  [type |-> "ReplayDone", symbol |-> s, n |-> Size(s)]

\* A feed event is a tick by its sequence number, or the end by Rows[s].
FeedEvent(s) ==
  IF workerPc[s] = "broadcast" THEN LastSequence(cursor[s]) ELSE Rows[s]

\* One turn of the loop over clients_, with the mutex held.  A send blocks
\* while the peer's buffer is full.  To a peer that is gone it may succeed or
\* fail; only broadcast looks, and closes the descriptor.
WorkerSend(s, k) ==
  LET d      == Behind(socketFd[k])
      packet == IF workerPc[s] = "broadcast" THEN MarketUpdate(s)
                                             ELSE ReplayDone(s)
  IN
  /\ workerPc[s] \in {"broadcast", "replayDone"}
  /\ k \in todo
  /\ todo' = todo \ {k}
  /\ \/ /\ Sendable(d)
        /\ outbox' = [outbox EXCEPT ![d] = Append(@, packet)]
        /\ heard' = [heard EXCEPT ![k] = FeedEvent(s)]
        /\ UNCHANGED <<socketFd, fdTable>>
     \/ /\ SendFails(d)
        /\ d # NoConn \/ workerPc[s] = "replayDone"
        /\ UNCHANGED <<outbox, heard, socketFd, fdTable>>
     \/ /\ SendFails(d)
        /\ workerPc[s] = "broadcast"
        /\ socketFd' = [socketFd EXCEPT ![k] = NoFd]
        /\ fdTable' = Close(socketFd[k])
        /\ UNCHANGED <<outbox, heard>>
  /\ UNCHANGED <<peerVars, listenVars, shutDown, sessions, subscribed, pending,
                 feeds, mainVars, acceptPc, handlerVars, clientsMutex, workerPc,
                 cursor>>

\* broadcast erases the entries it closed; after ReplayDone the pass is over.
WorkerRelease(s) ==
  /\ workerPc[s] \in {"broadcast", "replayDone"}
  /\ todo = {}
  /\ clientsMutex' = NoSymbol
  /\ IF workerPc[s] = "broadcast"
     THEN /\ sessions' = sessions \ Matching(NoFd)
          /\ Advance(s, "check")
     ELSE /\ UNCHANGED sessions
          /\ Advance(s, IF LoopForever /\ running THEN "reset" ELSE "done")
  /\ UNCHANGED <<peerVars, listenVars, socketVars, socketFd, subscribed, pending,
                 feeds, mainVars, acceptPc, handlerVars, cursor, todo, heard>>

Worker(s) ==
  \/ WorkerReset(s)
  \/ WorkerCheck(s)
  \/ WorkerTick(s)
  \/ \E k \in Conns : WorkerSend(s, k)
  \/ WorkerRelease(s)

-----------------------------------------------------------------------------
(* The main thread (server/main.cpp).  The server listens before the CSVs  *)
(* are loaded; feeds are registered one by one once all of them are.       *)

\* registerFeed, first critical section: feeds_[symbol] = feed.
MainRegister(s) ==
  /\ mainPc = "register"
  /\ HasData(s)
  /\ s \notin feeds
  /\ feeds' = feeds \cup {s}
  /\ activating' = s
  /\ mainPc' = "activate"
  /\ UNCHANGED <<peerVars, listenVars, socketVars, clientVars, running, acceptPc,
                 handlerVars, workerVars, heard>>

\* Mutant: every client without an active symbol is activated.
WaitingIdle(s) == {k \in sessions : subscribed[k] = NoSymbol}

Waiting(s) == {k \in sessions : pending[k] = s}

\* activatePendingSubscriptions, registerFeed's second critical section.
MainActivate ==
  /\ mainPc = "activate"
  /\ MutexFree
  /\ LET woken == Waiting(activating) IN
     /\ subscribed' = [k \in Conns |-> IF k \in woken THEN activating
                                                      ELSE subscribed[k]]
     /\ pending' = [k \in Conns |-> IF k \in woken THEN NoSymbol
                                                   ELSE pending[k]]
     /\ heard' = [k \in Conns |-> IF k \in woken THEN -1 ELSE heard[k]]
  /\ activating' = NoSymbol
  /\ mainPc' = "register"
  /\ UNCHANGED <<peerVars, listenVars, socketVars, sessions, socketFd, feeds,
                 running, acceptPc, handlerVars, workerVars>>

Registered == {s \in Symbols : HasData(s)} \subseteq feeds

\* runReplayLoop: one worker for every feed that is registered.
MainReplay ==
  /\ mainPc = "register"
  /\ Registered
  /\ feeds # {}
  /\ workerPc' = [s \in Symbols |-> IF s \in feeds THEN "reset" ELSE "off"]
  /\ mainPc' = "serve"
  /\ UNCHANGED <<peerVars, listenVars, socketVars, clientVars, feeds, running,
                 activating, acceptPc, handlerVars, clientsMutex, cursor, todo,
                 heard>>

\* stop(), at a signal (noticed by the 200 ms poll) or when no CSV was usable.
MainStop ==
  /\ \/ mainPc = "serve"
     \/ mainPc = "register" /\ Registered /\ feeds = {}
  /\ running' = FALSE
  /\ mainPc' = "closeListener"
  /\ UNCHANGED <<peerVars, listenVars, socketVars, clientVars, feeds, activating,
                 acceptPc, handlerVars, workerVars, heard>>

\* Connections still in the queue are reset.
MainCloseListener ==
  /\ mainPc = "closeListener"
  /\ listening' = FALSE
  /\ backlog' = {}
  /\ peer' = [c \in Conns |-> IF c \in backlog THEN "gone" ELSE peer[c]]
  /\ mainPc' = "joinAccept"
  /\ UNCHANGED <<requestCount, inbox, socketVars, clientVars, feeds, running,
                 activating, acceptPc, handlerVars, workerVars, heard>>

MainJoin ==
  /\ \/ /\ mainPc = "joinAccept"
        /\ acceptPc = "done"
        /\ mainPc' = "joinReplay"
     \/ /\ mainPc = "joinReplay"
        /\ \A s \in Symbols : workerPc[s] \in {"off", "done"}
        /\ mainPc' = "closeClients"
  /\ UNCHANGED <<peerVars, listenVars, socketVars, clientVars, feeds, running,
                 activating, acceptPc, handlerVars, workerVars, heard>>

\* Shut down and close what is in clients_, then clear it.
MainCloseClients ==
  /\ mainPc = "closeClients"
  /\ MutexFree
  /\ LET closing == {socketFd[k] : k \in sessions} IN
     /\ shutDown' = shutDown \cup {c \in Conns :
                                    \E f \in Fds \cap closing : fdTable[f] = c}
     /\ fdTable' = [f \in Fds |-> IF f \in closing THEN NoConn ELSE fdTable[f]]
  /\ sessions' = {}
  /\ socketFd' = [k \in Conns |-> IF k \in sessions THEN NoFd ELSE socketFd[k]]
  /\ mainPc' = "stopped"
  /\ UNCHANGED <<peerVars, listenVars, outbox, subscribed, pending, feeds,
                 running, activating, acceptPc, handlerVars, workerVars, heard>>

Main ==
  \/ \E s \in Symbols : MainRegister(s)
  \/ MainActivate
  \/ MainReplay
  \/ MainCloseListener
  \/ MainJoin
  \/ MainCloseClients

\* Nothing is left to run: stop() has returned and no handler can move.
Terminated ==
  /\ mainPc = "stopped"
  /\ \A c \in Conns : pc[c] \in {"none", "done", "recv"}
  /\ UNCHANGED vars

Next ==
  \/ \E c \in Conns : \/ PeerConnect(c)
                      \/ \E r \in PeerRequests : PeerSend(c, r)
                      \/ PeerRead(c)
                      \/ PeerGone(c)
  \/ AcceptCheck
  \/ \E c \in Conns, f \in Fds : Accept(c, f)
  \/ AcceptFails
  \/ \E c \in Conns : Handler(c)
  \/ \E s \in Symbols : Worker(s)
  \/ Main
  \/ MainStop
  \/ Terminated

Spec == Init /\ [][Next]_vars

-----------------------------------------------------------------------------
(* Fairness: the operating system schedules every thread that can run, and *)
(* a peer that stays connected goes on reading (MarketClient::run does     *)
(* nothing else).  Nothing obliges a peer to connect, to ask or to leave,  *)
(* nor anybody to stop the server.                                         *)

Fairness ==
  /\ WF_vars(Main)
  /\ WF_vars(AcceptCheck)
  /\ WF_vars(\E c \in Conns, f \in Fds : Accept(c, f))
  /\ WF_vars(AcceptFails)
  /\ \A c \in Conns : WF_vars(Handler(c))
  /\ \A s \in Symbols : WF_vars(Worker(s))
  /\ \A c \in Conns : WF_vars(PeerRead(c))

FairSpec == Spec /\ Fairness

-----------------------------------------------------------------------------
HandlerLabels == {"none", "push", "welcome", "loop", "read", "recv", "lookup",
                  "subscribe", "unsubscribe", "heartbeat", "error", "exit",
                  "done"}
WorkerLabels == {"off", "reset", "check", "tick", "broadcast", "replayDone",
                 "done"}
MainLabels == {"register", "activate", "serve", "closeListener", "joinAccept",
               "joinReplay", "closeClients", "stopped"}
AnySymbol == Symbols \cup {UnknownSymbol, NoSymbol}

\* Every member, local and kernel object has a value of its type.
TypeOK ==
  /\ peer \in [Conns -> {"none", "up", "gone"}]
  /\ backlog \subseteq Conns
  /\ requestCount \in [Conns -> 0 .. MaxRequests]
  /\ inbox \in [Conns -> Seq(Request)]
  /\ outbox \in [Conns -> Seq(Packet)]
  /\ shutDown \subseteq Conns
  /\ fdTable \in [Fds -> Conns \cup {NoConn}]
  /\ listening \in BOOLEAN
  /\ running \in BOOLEAN
  /\ feeds \subseteq Symbols
  /\ clientsMutex \in Symbols \cup {NoSymbol}
  /\ sessions \subseteq Conns
  /\ socketFd \in [Conns -> Fds \cup {NoFd}]
  /\ subscribed \in [Conns -> Symbols \cup {NoSymbol}]
  /\ pending \in [Conns -> Symbols \cup {NoSymbol}]
  /\ mainPc \in MainLabels
  /\ activating \in Symbols \cup {NoSymbol}
  /\ acceptPc \in {"check", "accept", "done"}
  /\ pc \in [Conns -> HandlerLabels]
  /\ clientFd \in [Conns -> Fds \cup {NoFd}]
  /\ request \in [Conns -> AnySymbol]
  /\ feedReady \in [Conns -> BOOLEAN]
  /\ bound \in [Conns -> Conns \cup {NoConn}]
  /\ workerPc \in [Symbols -> WorkerLabels]
  /\ cursor \in [Symbols -> Nat]
  /\ \A s \in Symbols : cursor[s] \in Cursor(s)
  /\ todo \subseteq Conns
  /\ heard \in [Conns -> Int]

\* The descriptor in an entry of clients_ is open and leads to the connection
\* the entry was made for, although descriptors are closed by four different
\* functions and their numbers are handed out again at once.  So a broadcast
\* never writes to a stranger and close() never hits a stranger's socket.
SessionOwnsFd ==
  \A k \in sessions : socketFd[k] # NoFd => fdTable[socketFd[k]] = k

\* No descriptor leaks: an open one is in clients_, where removeClient,
\* broadcast or stop will find it, or its handler is about to put it there.
NoFdLeak ==
  \A f \in Fds : fdTable[f] # NoConn =>
    \/ pc[fdTable[f]] = "push"
    \/ fdTable[f] \in sessions /\ socketFd[fdTable[f]] = f

\* When stop() has returned, no registered handler waits for a request: what
\* entered clients_ after the final sweep belongs to a handler that is on its
\* way to removeClient.
StopIsComplete ==
  mainPc = "stopped" =>
    \A k \in sessions : pc[k] \in {"welcome", "loop", "exit"}

\* An active subscription names a feed that is registered, and one a worker
\* replays once replay has started, whatever the order of Subscribe,
\* registerFeed and runReplayLoop.
SubscribedHasFeed ==
  \A k \in sessions : subscribed[k] # NoSymbol =>
    /\ subscribed[k] \in feeds
    /\ pending[k] = NoSymbol
    /\ mainPc = "serve" => workerPc[subscribed[k]] # "off"

FeedPacketSent(c) ==
  /\ Len(outbox'[c]) = Len(outbox[c]) + 1
  /\ outbox'[c][Len(outbox'[c])].type \in {"MarketUpdate", "ReplayDone"}

\* What one subscription is sent is an unbroken piece of the replay: after
\* tick i comes tick i+1, after the last one ReplayDone, after that tick 0 of
\* the next pass and only if the server loops; all of the symbol subscribed.
StreamUnbroken ==
  [][\A c \in Conns : FeedPacketSent(c) =>
       LET s == subscribed[c] IN
       /\ outbox'[c][Len(outbox'[c])].symbol = s
       /\ heard[c] # -1 => /\ heard'[c] = (heard[c] + 1) % (Rows[s] + 1)
                           /\ heard[c] = Rows[s] => LoopForever]_vars

Service == INSTANCE ReplayService
             WITH Clients <- Conns, topic <- subscribed, last <- heard,
                  channel <- outbox

\* The whole server, whatever its threads do in whatever order, is to each of
\* its clients the replay service: what reaches a socket is a reply or the
\* next event of the client's own topic, and no step of a handler, a worker
\* or main on behalf of one client shows in another's stream.
ImplementsService == Service!Spec

\* stop() returns: it waits for the accept thread and the workers, and a
\* worker may be blocked in send() with clients_mutex_ held.
StopReturns == ~running ~> mainPc = "stopped"

\* A subscription is served: a client that stays is sent a tick, unless it
\* changes its subscription, its session ends or the server stops.
SubscriberHears ==
  \A c \in Conns, s \in Symbols :
    (c \in sessions /\ subscribed[c] = s)
      ~> \/ heard[c] \in 0 .. Rows[s] - 1
         \/ c \notin sessions
         \/ peer[c] = "gone"
         \/ subscribed[c] # s
         \/ ~running

\* A replay ends for whoever hears it: after a tick a client that stays is
\* sent ReplayDone, unless it changes its subscription or the server stops.
EndIsHeard ==
  \A c \in Conns, s \in Symbols :
    (c \in sessions /\ subscribed[c] = s /\ heard[c] \in 0 .. Rows[s] - 1)
      ~> \/ heard[c] = Rows[s]
         \/ c \notin sessions
         \/ peer[c] = "gone"
         \/ subscribed[c] # s
         \/ ~running

-----------------------------------------------------------------------------
(* What the comments and logs of the code say, and the code does not do.   *)

\* session_manager.cpp:37, "Clients may subscribe before CSV load finishes;
\* activate when feed registers": once registerFeed has returned nobody is
\* still pending on its symbol.
ActivatedOnRegister ==
  \A k \in sessions : pending[k] \in feeds => pending[k] = activating

\* session_manager.cpp:278, "Send one MarketUpdate to every client subscribed
\* to snapshot.symbol": when a broadcast is over, every client that is
\* connected, subscribed and waited on by its handler has been sent the tick.
EverySubscriberServed ==
  \A s \in Symbols : workerPc[s] = "broadcast" /\ todo = {} =>
    \A c \in Conns :
      (subscribed[c] = s /\ peer[c] = "up" /\ pc[c] = "recv" /\ bound[c] = c)
        => heard[c] = LastSequence(cursor[s])
=============================================================================
