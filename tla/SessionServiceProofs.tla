------------------------ MODULE SessionServiceProofs ------------------------
(***************************************************************************)
(* The replay server implements ReplayService, for any number of           *)
(* connections, descriptors, symbols and snapshots: what a client is sent  *)
(* are replies and an unbroken piece of the replay of its own topic.       *)
(***************************************************************************)
EXTENDS SessionManagerProofs

\* A client that send() can still reach; once lost, it stays lost.
Reachable(k) ==
  /\ k \in sessions
  /\ socketFd[k] # NoFd
  /\ peer[k] = "up"
  /\ k \notin shutDown

\* The event before event n of feed s, where 0 follows the end of a pass.
Preceding(s, n) == IF n = 0 THEN Rows[s] ELSE n - 1

\* The pass of feed s is over for client k, and may be the last one.
EndSent(s, k) == workerPc[s] = "replayDone" /\ k \notin todo

\* The event of feed s that client k is to be sent next: the worker moves the
\* cursor before the loop over clients_, and k is behind until its turn.
Due(s, k) ==
  IF workerPc[s] = "reset" \/ EndSent(s, k) THEN 0
  ELSE IF workerPc[s] = "broadcast" /\ k \in todo THEN cursor[s] - 1
  ELSE cursor[s]

\* Client k has heard the event before the one it is due from feed s, and the
\* end of a pass only if passes follow.
InStepWith(s, k) ==
  /\ workerPc[s] # "off"
  /\ workerPc[s] # "done" =>
       /\ heard[k] = Preceding(s, Due(s, k))
       /\ heard[k] = Rows[s] => LoopForever \/ EndSent(s, k)

\* A subscription that has heard anything is in step with its feed.
InStep ==
  \A k \in Conns : \A s \in Symbols :
    (Reachable(k) /\ subscribed[k] = s /\ heard[k] # -1) => InStepWith(s, k)

\* The loop under clients_mutex_ visits the subscribers of its feed.
LoopVisitsSubscribers ==
  clientsMutex # NoSymbol => \A k \in todo : subscribed[k] = clientsMutex

\* ReplayDone is sent when the cursor is at the end.
DoneAtEnd == \A s \in Symbols : workerPc[s] = "replayDone" => cursor[s] = Rows[s]

\* Nobody is subscribed before its handler has registered it.
FreshHasNoTopic ==
  \A k \in Conns : pc[k] \in {"none", "push"} => subscribed[k] = NoSymbol

StreamInv == InStep /\ LoopVisitsSubscribers /\ DoneAtEnd /\ FreshHasNoTopic

-----------------------------------------------------------------------------
(* Steps of the other threads.                                             *)

\* A client stays in step while no worker moves, if its subscription is left
\* alone or begins afresh.
LEMMA InStepKept ==
  ASSUME InStep, UNCHANGED <<workerPc, cursor, todo>>,
         \A k \in Conns :
           \/ heard'[k] = -1
           \/ subscribed'[k] = NoSymbol
           \/ /\ heard'[k] = heard[k]
              /\ subscribed'[k] = subscribed[k]
              /\ Reachable(k)' => Reachable(k)
  PROVE  InStep'
<1> SUFFICES ASSUME NEW k \in Conns, NEW s \in Symbols,
                    Reachable(k)', subscribed'[k] = s, heard'[k] # -1
             PROVE  InStepWith(s, k)'
  BY DEF InStep
<1>1. /\ heard'[k] = heard[k]
      /\ subscribed[k] = s
      /\ Reachable(k)
  BY SessionAssumption
<1>2. InStepWith(s, k)
  BY <1>1 DEF InStep
<1> QED
  BY <1>1, <1>2 DEF InStepWith, Due, EndSent

LEMMA StreamKept ==
  ASSUME StreamInv, UNCHANGED <<workerPc, cursor, todo, clientsMutex>>,
         \A k \in Conns :
           \/ heard'[k] = -1
           \/ subscribed'[k] = NoSymbol
           \/ /\ heard'[k] = heard[k]
              /\ subscribed'[k] = subscribed[k]
              /\ Reachable(k)' => Reachable(k),
         MutexFree \/ UNCHANGED subscribed,
         FreshHasNoTopic'
  PROVE  StreamInv'
<1>1. InStep'
  BY InStepKept DEF StreamInv
<1>2. LoopVisitsSubscribers'
  BY DEF StreamInv, LoopVisitsSubscribers, MutexFree
<1>3. DoneAtEnd'
  BY DEF StreamInv, DoneAtEnd
<1> QED
  BY <1>1, <1>2, <1>3 DEF StreamInv

\* A step that touches neither subscriptions nor workers, and after which no
\* client is reachable that was not.
LEMMA StreamStutter ==
  ASSUME StreamInv,
         UNCHANGED <<workerPc, cursor, todo, clientsMutex, subscribed, heard>>,
         \A k \in Conns : Reachable(k)' => Reachable(k),
         \A k \in Conns : pc'[k] \in {"none", "push"} => pc[k] \in {"none", "push"}
  PROVE  StreamInv'
<1>1. FreshHasNoTopic'
  BY DEF StreamInv, FreshHasNoTopic
<1> QED
  BY <1>1, StreamKept

LEMMA PeerStream ==
  ASSUME TypeInv, FdInv, StreamInv, NEW c \in Conns,
         PeerConnect(c) \/ (\E r \in PeerRequests : PeerSend(c, r))
           \/ PeerRead(c) \/ PeerGone(c)
  PROVE  StreamInv'
<1> USE DEF peerVars, listenVars, socketVars, clientVars, mainVars,
            handlerVars, workerVars
<1>1. CASE PeerConnect(c)
  <2>1. c \notin sessions
    BY <1>1 DEF PeerConnect, FdInv, AcceptedOnce
  <2>2. \A k \in Conns : Reachable(k)' => Reachable(k)
    BY <1>1, <2>1 DEF PeerConnect, Reachable, TypeInv, TypeOK
  <2> QED
    BY <1>1, <2>2, StreamStutter DEF PeerConnect
<1>2. CASE (\E r \in PeerRequests : PeerSend(c, r)) \/ PeerRead(c)
  BY <1>2, StreamStutter DEF PeerSend, PeerRead, Reachable
<1>3. CASE PeerGone(c)
  <2>1. \A k \in Conns : Reachable(k)' => Reachable(k)
    BY <1>3 DEF PeerGone, Reachable, TypeInv, TypeOK
  <2> QED
    BY <1>3, <2>1, StreamStutter DEF PeerGone
<1> QED
  BY <1>1, <1>2, <1>3

LEMMA AcceptStream ==
  ASSUME TypeInv, StreamInv,
         AcceptCheck \/ (\E c \in Conns, f \in Fds : Accept(c, f)) \/ AcceptFails,
         FdInv
  PROVE  StreamInv'
<1> USE DEF peerVars, listenVars, socketVars, clientVars, mainVars,
            handlerVars, workerVars
<1>1. CASE AcceptCheck \/ AcceptFails
  BY <1>1, StreamStutter DEF AcceptCheck, AcceptFails, Reachable
<1>2. ASSUME NEW c \in Conns, NEW f \in Fds, Accept(c, f) PROVE StreamInv'
  <2>1. pc[c] = "none"
    BY <1>2 DEF Accept, FdInv, AcceptedOnce
  <2> QED
    BY <1>2, <2>1, StreamStutter DEF Accept, Reachable, TypeInv, TypeOK
<1> QED
  BY <1>1, <1>2

\* A handler that only moves on between two calls.
LEMMA StreamMoveOn ==
  ASSUME TypeInv, StreamInv, NEW c \in Conns, NEW label,
         label \notin {"none", "push"},
         pc' = [pc EXCEPT ![c] = label],
         UNCHANGED <<workerPc, cursor, todo, clientsMutex, subscribed, heard>>,
         \A k \in Conns : Reachable(k)' => Reachable(k)
  PROVE  StreamInv'
BY StreamStutter DEF TypeInv, TypeOK

\* Another topic, or the same one afresh, with clients_mutex_ free.
LEMMA StreamSetSymbols ==
  ASSUME TypeInv, FdInv, StreamInv, NEW c \in Conns,
         NEW active \in Symbols \cup {NoSymbol}, NEW deferred,
         MutexFree, NEW k \in sessions, SetSymbols(k, active, deferred),
         pc' = [pc EXCEPT ![c] = "loop"],
         UNCHANGED <<workerPc, cursor, todo, clientsMutex, sessions, socketFd,
                     peer, shutDown>>
  PROVE  StreamInv'
<1>1. pc[k] \notin {"none", "push"}
  BY DEF TypeInv, TypeOK, FdInv, PushHoldsFd, AcceptedOnce
<1>2. FreshHasNoTopic'
  BY <1>1 DEF SetSymbols, StreamInv, FreshHasNoTopic, TypeInv, TypeOK
<1>3. \A x \in Conns : \/ heard'[x] = -1
                       \/ heard'[x] = heard[x] /\ subscribed'[x] = subscribed[x]
  BY DEF SetSymbols, TypeInv, TypeOK
<1>4. \A x \in Conns : Reachable(x)' => Reachable(x)
  BY DEF Reachable
<1> QED
  BY <1>2, <1>3, <1>4, StreamKept

LEMMA HandlerStream ==
  ASSUME TypeInv, FdInv, StreamInv, NEW c \in Conns, Handler(c)
  PROVE  StreamInv'
<1> USE DEF peerVars, listenVars, socketVars, clientVars, mainVars,
            handlerVars, workerVars
<1> USE DEF Goto
<1>1. CASE HandlerPush(c)
  <2>1. subscribed[c] = NoSymbol
    BY <1>1 DEF HandlerPush, StreamInv, FreshHasNoTopic
  <2>2. FreshHasNoTopic'
    BY <1>1 DEF HandlerPush, StreamInv, FreshHasNoTopic, TypeInv, TypeOK
  <2>3. \A k \in Conns : k # c => (Reachable(k)' => Reachable(k))
    BY <1>1 DEF HandlerPush, Reachable, TypeInv, TypeOK
  <2> QED
    BY <1>1, <2>1, <2>2, <2>3, StreamKept DEF HandlerPush
<1>2. CASE HandlerReply(c)
  BY <1>2, StreamMoveOn DEF HandlerReply, Reachable
<1>3. CASE HandlerLoop(c)
  BY <1>3, StreamMoveOn DEF HandlerLoop, Reachable
<1>10. CASE HandlerRead(c)
  BY <1>10, StreamMoveOn DEF HandlerRead, Reachable
<1>4. CASE HandlerReceive(c)
  <2>1. Dispatch(Head(inbox[bound[c]])) \notin {"none", "push"}
    BY DispatchLabel
  <2> QED
    BY <1>4, <2>1, StreamMoveOn DEF HandlerReceive, Reachable
<1>5. CASE HandlerReceiveFails(c)
  BY <1>5, StreamMoveOn DEF HandlerReceiveFails, Reachable
<1>6. CASE HandlerLookup(c)
  BY <1>6, StreamMoveOn DEF HandlerLookup, Reachable
<1>7. CASE HandlerSubscribe(c)
  <2>1. CASE /\ UNCHANGED <<subscribed, heard>>
             /\ pc' = [pc EXCEPT ![c] = "error"]
    BY <1>7, <2>1, StreamMoveOn DEF HandlerSubscribe, Reachable
  <2>2. ASSUME NEW k \in Matching(clientFd[c]),
               IF feedReady[c] THEN SetSymbols(k, request[c], NoSymbol)
                               ELSE SetSymbols(k, NoSymbol, request[c]),
               pc' = [pc EXCEPT ![c] = "loop"]
        PROVE  StreamInv'
    <3>1. request[c] \in Symbols /\ k \in sessions
      BY <1>7 DEF HandlerSubscribe, TypeInv, LocalsOK, Matching
    <3> QED
      BY <1>7, <2>2, <3>1, StreamSetSymbols DEF HandlerSubscribe
  <2> QED
    BY <1>7, <2>1, <2>2 DEF HandlerSubscribe
<1>8. CASE HandlerUnsubscribe(c)
  <2>1. CASE UNCHANGED <<subscribed, heard>>
    BY <1>8, <2>1, StreamMoveOn DEF HandlerUnsubscribe, Reachable
  <2>2. ASSUME NEW k \in Matching(clientFd[c]), SetSymbols(k, NoSymbol, NoSymbol)
        PROVE  StreamInv'
    <3>1. k \in sessions
      BY DEF Matching
    <3> QED
      BY <1>8, <2>2, <3>1, StreamSetSymbols DEF HandlerUnsubscribe
  <2> QED
    BY <1>8, <2>1, <2>2 DEF HandlerUnsubscribe
<1>9. CASE HandlerRemove(c)
  BY <1>9, StreamMoveOn DEF HandlerRemove, Reachable, Matching
<1> QED
  BY <1>1, <1>2, <1>3, <1>4, <1>5, <1>6, <1>7, <1>8, <1>9, <1>10 DEF Handler

LEMMA MainStream ==
  ASSUME TypeInv, FdInv, MainInv, StreamInv, Main \/ MainStop
  PROVE  StreamInv'
<1> USE DEF peerVars, listenVars, socketVars, clientVars, mainVars,
            handlerVars, workerVars
<1>1. CASE \/ \E s \in Symbols : MainRegister(s)
           \/ MainStop
           \/ MainJoin
  BY <1>1, StreamStutter DEF MainRegister, MainStop, MainJoin, Reachable
<1>2. CASE MainActivate
  <2> DEFINE woken == Waiting(activating)
  <2>1. \A k \in Conns :
          \/ /\ k \in sessions
             /\ heard'[k] = -1
          \/ /\ heard'[k] = heard[k]
             /\ subscribed'[k] = subscribed[k]
    BY <1>2 DEF MainActivate, Waiting
  <2>2. \A k \in sessions : k \in Conns /\ pc[k] \notin {"none", "push"}
    BY DEF TypeInv, TypeOK, FdInv, PushHoldsFd, AcceptedOnce
  <2>3. FreshHasNoTopic'
    BY <1>2, <2>1, <2>2 DEF MainActivate, StreamInv, FreshHasNoTopic
  <2>4. \A k \in Conns : Reachable(k)' => Reachable(k)
    BY <1>2 DEF MainActivate, Reachable
  <2> QED
    BY <1>2, <2>1, <2>3, <2>4, StreamKept DEF MainActivate
<1>3. CASE MainReplay
  <2>1. \A s \in Symbols : workerPc[s] = "off"
    BY <1>3 DEF MainReplay, MainInv
  <2>2. /\ UNCHANGED <<sessions, socketFd, peer, shutDown, subscribed, heard,
                       clientsMutex, todo, pc, cursor>>
        /\ \A s \in Symbols : workerPc'[s] # "replayDone"
    BY <1>3 DEF MainReplay
  <2>3. InStep'
    <3>1. \A k \in Conns : \A s \in Symbols :
            ~(Reachable(k) /\ subscribed[k] = s /\ heard[k] # -1)
      BY <2>1 DEF StreamInv, InStep, InStepWith
    <3> QED
      BY <2>2, <3>1 DEF InStep, Reachable
  <2> QED
    BY <2>2, <2>3 DEF StreamInv, LoopVisitsSubscribers, DoneAtEnd, FreshHasNoTopic
<1>4. CASE MainCloseListener
  <2>1. \A k \in Conns : Reachable(k)' => Reachable(k)
    BY <1>4 DEF MainCloseListener, Reachable
  <2> QED
    BY <1>4, <2>1, StreamStutter DEF MainCloseListener
<1>5. CASE MainCloseClients
  <2>1. \A k \in Conns : Reachable(k)' => Reachable(k)
    BY <1>5 DEF MainCloseClients, Reachable
  <2> QED
    BY <1>5, <2>1, StreamStutter DEF MainCloseClients
<1> QED
  BY <1>1, <1>2, <1>3, <1>4, <1>5 DEF Main
-----------------------------------------------------------------------------
(* Steps of the workers.                                                   *)

\* A worker that holds no mutex moves only the clients of its own feed.
LEMMA InStepOthers ==
  ASSUME TypeInv, FdInv, InStep, NEW s \in Symbols,
         \A x \in Symbols : x # s => /\ workerPc'[x] = workerPc[x]
                                     /\ cursor'[x] = cursor[x],
         \A x \in Symbols : x # s =>
           workerPc[x] \notin {"broadcast", "replayDone"},
         \A k \in Conns : /\ subscribed'[k] = subscribed[k]
                          /\ subscribed[k] # s => heard'[k] = heard[k]
                          /\ Reachable(k)' => Reachable(k),
         \A k \in Conns :
           (Reachable(k)' /\ subscribed[k] = s /\ heard'[k] # -1)
             => InStepWith(s, k)'
  PROVE  InStep'
<1> SUFFICES ASSUME NEW k \in Conns, NEW x \in Symbols, x # s,
                    Reachable(k)', subscribed[k] = x, heard'[k] # -1
             PROVE  InStepWith(x, k)'
  BY DEF InStep
<1>1. InStepWith(x, k) /\ heard'[k] = heard[k]
  BY DEF InStep
<1> QED
  BY <1>1 DEF InStepWith, Due, EndSent

\* While one worker loops over clients_, no other does.
LEMMA OneLoop ==
  ASSUME FdInv, NEW s \in Symbols,
         clientsMutex \in {NoSymbol, s}
  PROVE  \A x \in Symbols : x # s =>
           workerPc[x] \notin {"broadcast", "replayDone"}
BY SessionAssumption DEF FdInv, LoopsHoldMutex

\* In its turn of the loop, a client is sent over its own connection, or is
\* out of reach already.
LEMMA TurnOutcome ==
  ASSUME TypeInv, FdInv, NEW s \in Symbols, NEW k \in Conns, WorkerSend(s, k)
  PROVE  /\ k \in sessions
         /\ \/ /\ Reachable(k)
               /\ outbox' = [outbox EXCEPT ![k] =
                    Append(@, IF workerPc[s] = "broadcast" THEN MarketUpdate(s)
                                                           ELSE ReplayDone(s))]
               /\ heard' = [heard EXCEPT ![k] = FeedEvent(s)]
               /\ UNCHANGED <<socketFd, fdTable>>
            \/ /\ ~Reachable(k)
               /\ UNCHANGED <<outbox, heard>>
               /\ \A c \in Conns : Reachable(c)' => Reachable(c)
<1>1. k \in sessions
  BY SessionAssumption DEF WorkerSend, FdInv, LoopsHoldMutex
<1>2. Behind(socketFd[k]) \in {k, NoConn}
  BY <1>1 DEF FdInv, EntriesOwnFd, Behind
<1>3. Reachable(k) => Behind(socketFd[k]) = k
  BY DEF FdInv, EntriesOwnFd, Behind, Reachable
<1>4. CASE Sendable(Behind(socketFd[k])) /\ UNCHANGED <<socketFd, fdTable>>
  <2>1. Behind(socketFd[k]) = k /\ Reachable(k)
    BY <1>1, <1>2, <1>4 DEF Sendable, Behind, Reachable
  <2> QED
    BY <1>1, <1>4, <2>1 DEF WorkerSend, SendFails, Sendable
<1>5. CASE SendFails(Behind(socketFd[k])) /\ UNCHANGED <<outbox, heard>>
  <2>1. ~Reachable(k)
    BY <1>3, <1>5, SessionAssumption DEF SendFails, Reachable
  <2>2. \A c \in Conns : Reachable(c)' => Reachable(c)
    BY DEF WorkerSend, Reachable, peerVars, TypeInv, TypeOK
  <2> QED
    BY <1>1, <1>5, <2>1, <2>2
<1> QED
  BY <1>4, <1>5 DEF WorkerSend

LEMMA WorkerStream ==
  ASSUME TypeInv, FdInv, StreamInv, NEW s \in Symbols, Worker(s)
  PROVE  StreamInv'
<1> USE DEF peerVars, listenVars, socketVars, clientVars, mainVars,
            handlerVars, workerVars
<1>1. /\ FreshHasNoTopic'
      /\ UNCHANGED <<subscribed, pc>>
  BY DEF Worker, WorkerReset, WorkerCheck, WorkerTick, WorkerSend,
     WorkerRelease, StreamInv, FreshHasNoTopic
<1>2. cursor[s] \in Nat /\ cursor[s] <= Rows[s] /\ Rows[s] \in Nat
  BY FeedAssumption DEF TypeInv, TypeOK, Cursor
<1>3. CASE WorkerReset(s) \/ WorkerCheck(s)
  <2>1. /\ UNCHANGED <<heard, todo, clientsMutex>>
        /\ \A k \in Conns : Reachable(k)' => Reachable(k)
    BY <1>3 DEF WorkerReset, WorkerCheck, Reachable
  <2>2. \A x \in Symbols : x # s => /\ workerPc'[x] = workerPc[x]
                                    /\ cursor'[x] = cursor[x]
    BY <1>3 DEF WorkerReset, WorkerCheck, Advance, TypeInv, TypeOK
  <2>3. \/ workerPc[s] = "reset" /\ workerPc'[s] = "check" /\ cursor'[s] = 0
        \/ workerPc[s] = "check" /\ workerPc'[s] \in {"tick", "done"}
             /\ cursor'[s] = cursor[s]
    BY <1>3 DEF WorkerReset, WorkerCheck, Advance, TypeInv, TypeOK
  <2>4. InStep'
    <3> SUFFICES ASSUME NEW k \in Conns, NEW x \in Symbols,
                        Reachable(k)', subscribed'[k] = x, heard'[k] # -1
                 PROVE  InStepWith(x, k)'
      BY DEF InStep
    <3>1. InStepWith(x, k)
      BY <1>1, <2>1 DEF StreamInv, InStep
    <3> QED
      BY <2>1, <2>2, <2>3, <3>1 DEF InStepWith, Due, EndSent
  <2>5. LoopVisitsSubscribers'
    BY <1>1, <2>1 DEF StreamInv, LoopVisitsSubscribers
  <2>6. DoneAtEnd'
    BY <2>2, <2>3 DEF StreamInv, DoneAtEnd
  <2> QED
    BY <1>1, <2>4, <2>5, <2>6 DEF StreamInv
<1>4. CASE WorkerTick(s)
  <2>1. /\ MutexFree
        /\ workerPc[s] = "tick"
        /\ clientsMutex' = s
        /\ todo' = Subscribers(s)
        /\ UNCHANGED heard
        /\ \A k \in Conns : Reachable(k)' => Reachable(k)
    BY <1>4 DEF WorkerTick, Reachable
  <2>2. \A x \in Symbols : x # s => /\ workerPc'[x] = workerPc[x]
                                    /\ cursor'[x] = cursor[x]
    BY <1>4 DEF WorkerTick, Advance, TypeInv, TypeOK
  <2>3. \/ workerPc'[s] = "broadcast" /\ cursor'[s] = cursor[s] + 1
        \/ /\ workerPc'[s] = "replayDone"
           /\ cursor'[s] = cursor[s]
           /\ cursor[s] = Rows[s]
    BY <1>2, <1>4 DEF WorkerTick, Advance, HasNext, TypeInv, TypeOK
  <2>4. ASSUME NEW k \in Conns, Reachable(k)', subscribed[k] = s, heard'[k] # -1
        PROVE  InStepWith(s, k)'
    <3>1. k \in todo'
      BY <2>1, <2>4 DEF Subscribers, Reachable
    <3>2. InStepWith(s, k)
      BY <2>1, <2>4 DEF StreamInv, InStep
    <3>3. heard[k] = Preceding(s, cursor[s]) /\ (heard[k] = Rows[s] => LoopForever)
      BY <2>1, <3>2 DEF InStepWith, Due, EndSent
    <3>4. Due(s, k)' = cursor[s] /\ ~EndSent(s, k)'
      BY <1>2, <2>3, <3>1 DEF Due, EndSent
    <3> QED
      BY <2>1, <2>3, <3>3, <3>4 DEF InStepWith, Preceding
  <2>5. InStep'
    BY <1>1, <2>1, <2>2, <2>4, OneLoop, InStepOthers DEF MutexFree, StreamInv
  <2>6. LoopVisitsSubscribers'
    BY <1>1, <2>1 DEF LoopVisitsSubscribers, Subscribers
  <2>7. DoneAtEnd'
    BY <2>2, <2>3 DEF StreamInv, DoneAtEnd
  <2> QED
    BY <1>1, <2>5, <2>6, <2>7 DEF StreamInv
<1>5. ASSUME NEW c \in Conns, WorkerSend(s, c) PROVE StreamInv'
  <2>1. /\ workerPc[s] \in {"broadcast", "replayDone"}
        /\ c \in todo
        /\ todo' = todo \ {c}
        /\ UNCHANGED <<workerPc, cursor, clientsMutex>>
    BY <1>5 DEF WorkerSend
  <2>2. clientsMutex = s /\ \A k \in todo : subscribed[k] = s
    BY <2>1, SessionAssumption
       DEF FdInv, LoopsHoldMutex, StreamInv, LoopVisitsSubscribers
  <2>3. \A k \in Conns : Reachable(k)' => Reachable(k)
    BY <1>5, TurnOutcome DEF WorkerSend, Reachable
  <2>4. \A k \in Conns \ {c} : heard'[k] = heard[k]
    <3>1. \/ heard' = [heard EXCEPT ![c] = FeedEvent(s)]
          \/ heard' = heard
      BY <1>5 DEF WorkerSend
    <3> QED
      BY <3>1 DEF TypeInv, TypeOK
  <2>5. ASSUME NEW k \in Conns, Reachable(k)', subscribed[k] = s, heard'[k] # -1
        PROVE  InStepWith(s, k)'
    <3>1. CASE k = c
      <4>1. heard'[c] = FeedEvent(s)
        BY <1>5, <2>3, <2>5, <3>1, TurnOutcome DEF TypeInv, TypeOK
      <4>2. CASE workerPc[s] = "broadcast"
        <5>1. cursor[s] > 0
          BY <4>2 DEF TypeInv, LocalsOK
        <5> QED
          BY <1>2, <2>1, <3>1, <4>1, <4>2, <5>1
             DEF InStepWith, Due, EndSent, Preceding, FeedEvent, LastSequence
      <4>3. CASE workerPc[s] = "replayDone"
        BY <2>1, <3>1, <4>1, <4>3
           DEF InStepWith, Due, EndSent, Preceding, FeedEvent
      <4> QED
        BY <2>1, <4>2, <4>3
    <3>2. CASE k # c
      <4>1. InStepWith(s, k)
        BY <2>3, <2>4, <2>5, <3>2 DEF StreamInv, InStep
      <4>2. k \in todo' <=> k \in todo
        BY <2>1, <3>2
      <4> QED
        BY <2>1, <2>4, <3>2, <4>1, <4>2 DEF InStepWith, Due, EndSent, Preceding
    <3> QED
      BY <3>1, <3>2
  <2>6. InStep'
    <3>1. \A k \in Conns : subscribed[k] # s => heard'[k] = heard[k]
      BY <2>1, <2>2, <2>4
    <3> QED
      BY <1>1, <2>1, <2>2, <2>3, <2>5, <3>1, OneLoop, InStepOthers DEF StreamInv
  <2>7. LoopVisitsSubscribers' /\ DoneAtEnd'
    BY <1>1, <2>1 DEF StreamInv, LoopVisitsSubscribers, DoneAtEnd
  <2> QED
    BY <1>1, <2>6, <2>7 DEF StreamInv
<1>6. CASE WorkerRelease(s)
  <2>1. /\ workerPc[s] \in {"broadcast", "replayDone"}
        /\ todo = {}
        /\ clientsMutex' = NoSymbol
        /\ UNCHANGED <<todo, cursor, heard>>
        /\ \A k \in Conns : Reachable(k)' => Reachable(k)
    BY <1>6 DEF WorkerRelease, Reachable, Matching
  <2>2. \A x \in Symbols : x # s => /\ workerPc'[x] = workerPc[x]
                                    /\ cursor'[x] = cursor[x]
    BY <1>6 DEF WorkerRelease, Advance, TypeInv, TypeOK
  <2>3. \/ workerPc[s] = "broadcast" /\ workerPc'[s] = "check"
        \/ workerPc[s] = "replayDone" /\ workerPc'[s] = "reset" /\ LoopForever
        \/ workerPc[s] = "replayDone" /\ workerPc'[s] = "done"
    BY <1>6 DEF WorkerRelease, Advance, TypeInv, TypeOK
  <2>4. ASSUME NEW k \in Conns, Reachable(k)', subscribed[k] = s, heard'[k] # -1
        PROVE  InStepWith(s, k)'
    <3>1. InStepWith(s, k)
      BY <2>1, <2>4 DEF StreamInv, InStep
    <3> QED
      BY <2>1, <2>3, <3>1 DEF InStepWith, Due, EndSent, Preceding
  <2>5. clientsMutex = s
    BY <2>1 DEF FdInv, LoopsHoldMutex
  <2>6. InStep'
    BY <1>1, <2>1, <2>2, <2>4, <2>5, OneLoop, InStepOthers DEF StreamInv
  <2>7. LoopVisitsSubscribers'
    BY <2>1 DEF LoopVisitsSubscribers
  <2>8. DoneAtEnd'
    BY <2>1, <2>2, <2>3 DEF StreamInv, DoneAtEnd
  <2> QED
    BY <1>1, <2>6, <2>7, <2>8 DEF StreamInv
<1> QED
  BY <1>3, <1>4, <1>5, <1>6 DEF Worker

-----------------------------------------------------------------------------
LEMMA StreamInit == Init => StreamInv
BY SessionAssumption
   DEF Init, StreamInv, InStep, LoopVisitsSubscribers, DoneAtEnd,
       FreshHasNoTopic

LEMMA StreamNext == IInv /\ StreamInv /\ [Next]_vars => StreamInv'
<1> SUFFICES ASSUME IInv, StreamInv, [Next]_vars PROVE StreamInv'
  OBVIOUS
<1>1. CASE UNCHANGED vars
  BY <1>1, StreamStutter
     DEF vars, peerVars, listenVars, socketVars, clientVars, mainVars,
         handlerVars, workerVars, Reachable
<1>2. CASE Next
  BY <1>1, <1>2, PeerStream, AcceptStream, HandlerStream, WorkerStream, MainStream
     DEF IInv, Next, Terminated
<1> QED
  BY <1>1, <1>2

\* Whatever the threads do, a client the server can still reach has heard its
\* feed up to the event before the one it is due.
THEOREM StreamInvariance == Spec => []StreamInv
BY StreamInit, StreamNext, Invariance, PTL DEF Spec
-----------------------------------------------------------------------------
(* Every step of the server is a step of the service, or none.  The steps  *)
(* that show: a peer reads or leaves, a handler replies or changes a       *)
(* subscription, registerFeed activates one, a worker sends.               *)

\* What the service says of one client at a step.
ServiceStep(c) ==
  Service!Step(c) \/ UNCHANGED <<subscribed[c], heard[c], outbox[c]>>

serviceVars == <<subscribed, heard, outbox>>

\* Sending one packet appends it to one channel.
LEMMA AppendShows ==
  ASSUME TypeOK, NEW d \in Conns, NEW p,
         outbox' = [outbox EXCEPT ![d] = Append(@, p)]
  PROVE  /\ Service!Appends(d)
         /\ Service!Sent(d) = p
         /\ \A c \in Conns \ {d} : outbox'[c] = outbox[c]
<1>1. outbox[d] \in Seq(Packet) /\ outbox'[d] = Append(outbox[d], p)
  BY DEF TypeOK
<1>2. \A q \in Seq(Packet) : \A x :
        /\ Len(Append(q, x)) = Len(q) + 1
        /\ Append(q, x)[Len(Append(q, x))] = x
  OBVIOUS
<1> QED
  BY <1>1, <1>2 DEF Service!Appends, Service!Sent, TypeOK

\* Another subscription is a Choose of the one client it is for.
LEMMA SetSymbolsShows ==
  ASSUME TypeOK, NEW k \in Conns, NEW active \in Symbols \cup {NoSymbol},
         NEW deferred, SetSymbols(k, active, deferred), UNCHANGED outbox
  PROVE  \A c \in Conns : ServiceStep(c)
<1>1. subscribed'[k] = active /\ heard'[k] = -1 /\ outbox'[k] = outbox[k]
  BY DEF SetSymbols, TypeOK
<1>2. Service!Choose(k)
  BY <1>1 DEF Service!Choose
<1>3. \A c \in Conns \ {k} : subscribed'[c] = subscribed[c] /\ heard'[c] = heard[c]
  BY DEF SetSymbols, TypeOK
<1> QED
  BY <1>2, <1>3 DEF ServiceStep, Service!Step

LEMMA PeerShows ==
  ASSUME TypeInv, NEW c \in Conns,
         PeerConnect(c) \/ (\E r \in PeerRequests : PeerSend(c, r))
           \/ PeerRead(c) \/ PeerGone(c)
  PROVE  \A k \in Conns : ServiceStep(k)
<1> USE DEF peerVars, listenVars, socketVars, clientVars, mainVars,
            handlerVars, workerVars
<1>1. CASE PeerConnect(c) \/ (\E r \in PeerRequests : PeerSend(c, r))
  BY <1>1 DEF PeerConnect, PeerSend, ServiceStep
<1>2. CASE PeerRead(c) \/ PeerGone(c)
  <2>1. /\ UNCHANGED <<subscribed, heard>>
        /\ \A k \in Conns \ {c} : outbox'[k] = outbox[k]
        /\ outbox'[c] \in {Tail(outbox[c]), <<>>}
    BY <1>2 DEF PeerRead, PeerGone, TypeInv, TypeOK
  <2>2. CASE outbox[c] = <<>>
    <3>1. outbox'[c] = outbox[c]
      BY <1>2, <2>2 DEF PeerRead, PeerGone, TypeInv, TypeOK
    <3> QED
      BY <2>1, <3>1 DEF ServiceStep
  <2>3. CASE outbox[c] # <<>>
    <3>1. Service!Take(c)
      BY <2>1, <2>3 DEF Service!Take
    <3> QED
      BY <2>1, <3>1 DEF ServiceStep, Service!Step
  <2> QED
    BY <2>2, <2>3
<1> QED
  BY <1>1, <1>2

LEMMA HandlerShows ==
  ASSUME TypeInv, NEW c \in Conns, Handler(c)
  PROVE  \A k \in Conns : ServiceStep(k)
<1> USE DEF peerVars, listenVars, socketVars, clientVars, mainVars,
            handlerVars, workerVars
<1>1. CASE \/ HandlerPush(c) \/ HandlerLoop(c) \/ HandlerRead(c)
           \/ HandlerReceive(c) \/ HandlerReceiveFails(c) \/ HandlerLookup(c)
           \/ HandlerRemove(c)
  <2>1. UNCHANGED serviceVars
    BY <1>1 DEF HandlerPush, HandlerLoop, HandlerRead, HandlerReceive,
       HandlerReceiveFails, HandlerLookup, HandlerRemove, serviceVars
  <2> QED
    BY <2>1 DEF ServiceStep, serviceVars
<1>2. CASE HandlerReply(c)
  <2>1. PICK type \in {"Welcome", "Heartbeat", "Error"} :
          SendPacket(clientFd[c], Plain(type))
    BY <1>2 DEF HandlerReply
  <2> DEFINE d == Behind(clientFd[c])
  <2>2. UNCHANGED <<subscribed, heard>>
    BY <1>2 DEF HandlerReply
  <2>3. CASE UNCHANGED outbox
    BY <2>2, <2>3 DEF ServiceStep
  <2>4. CASE Sendable(d) /\ outbox' = [outbox EXCEPT ![d] = Append(@, Plain(type))]
    <3>1. d \in Conns
      BY <2>4, BehindType DEF Sendable, TypeInv, TypeOK
    <3>2. /\ Service!Appends(d)
          /\ Service!Sent(d) = Plain(type)
          /\ \A k \in Conns \ {d} : outbox'[k] = outbox[k]
      BY <2>4, <3>1, AppendShows DEF TypeInv
    <3>3. Plain(type).type = type
      BY DEF Plain
    <3>4. Service!Reply(d)
      BY <2>2, <3>2, <3>3 DEF Service!Reply
    <3> QED
      BY <2>2, <3>2, <3>4 DEF ServiceStep, Service!Step
  <2> QED
    BY <2>1, <2>3, <2>4 DEF SendPacket
<1>3. CASE HandlerSubscribe(c)
  <2>1. request[c] \in Symbols
    BY <1>3 DEF HandlerSubscribe, TypeInv, LocalsOK
  <2>2. CASE UNCHANGED serviceVars
    BY <2>2 DEF ServiceStep, serviceVars
  <2>3. ASSUME NEW k \in Matching(clientFd[c]),
               IF feedReady[c] THEN SetSymbols(k, request[c], NoSymbol)
                               ELSE SetSymbols(k, NoSymbol, request[c])
        PROVE  \A x \in Conns : ServiceStep(x)
    <3>1. k \in Conns
      BY DEF Matching, TypeInv, TypeOK
    <3> QED
      BY <1>3, <2>1, <2>3, <3>1, SetSymbolsShows DEF HandlerSubscribe, TypeInv
  <2> QED
    BY <1>3, <2>2, <2>3 DEF HandlerSubscribe, serviceVars
<1>4. CASE HandlerUnsubscribe(c)
  <2>1. CASE UNCHANGED serviceVars
    BY <2>1 DEF ServiceStep, serviceVars
  <2>2. ASSUME NEW k \in Matching(clientFd[c]), SetSymbols(k, NoSymbol, NoSymbol)
        PROVE  \A x \in Conns : ServiceStep(x)
    <3>1. k \in Conns
      BY DEF Matching, TypeInv, TypeOK
    <3> QED
      BY <1>4, <2>2, <3>1, SetSymbolsShows DEF HandlerUnsubscribe, TypeInv
  <2> QED
    BY <1>4, <2>1, <2>2 DEF HandlerUnsubscribe, serviceVars
<1> QED
  BY <1>1, <1>2, <1>3, <1>4 DEF Handler

\* The event after the one a client in step has heard is the one it is sent.
LEMMA WorkerShows ==
  ASSUME TypeInv, FdInv, StreamInv, NEW s \in Symbols, Worker(s)
  PROVE  \A k \in Conns : ServiceStep(k)
<1> USE DEF peerVars, listenVars, socketVars, clientVars, mainVars,
            handlerVars, workerVars
<1>1. CASE WorkerReset(s) \/ WorkerCheck(s) \/ WorkerTick(s) \/ WorkerRelease(s)
  <2>1. UNCHANGED serviceVars
    BY <1>1 DEF WorkerReset, WorkerCheck, WorkerTick, WorkerRelease, serviceVars
  <2> QED
    BY <2>1 DEF ServiceStep, serviceVars
<1>2. ASSUME NEW c \in Conns, WorkerSend(s, c)
      PROVE  \A k \in Conns : ServiceStep(k)
  <2> DEFINE p == IF workerPc[s] = "broadcast" THEN MarketUpdate(s)
                                               ELSE ReplayDone(s)
             e == FeedEvent(s)
  <2>1. /\ workerPc[s] \in {"broadcast", "replayDone"}
        /\ c \in todo
        /\ UNCHANGED subscribed
    BY <1>2 DEF WorkerSend
  <2>2. subscribed[c] = s /\ s # NoSymbol
    BY <2>1, SessionAssumption
       DEF FdInv, LoopsHoldMutex, StreamInv, LoopVisitsSubscribers
  <2>3. CASE UNCHANGED <<outbox, heard>>
    BY <2>1, <2>3 DEF ServiceStep
  <2>4. CASE /\ outbox' = [outbox EXCEPT ![c] = Append(@, p)]
             /\ heard' = [heard EXCEPT ![c] = e]
             /\ Reachable(c)
    <3>1. /\ cursor[s] \in Nat /\ Rows[s] \in Nat /\ cursor[s] <= Rows[s]
          /\ workerPc[s] = "broadcast" => cursor[s] > 0
          /\ workerPc[s] = "replayDone" => cursor[s] = Rows[s]
      BY FeedAssumption
         DEF TypeInv, TypeOK, LocalsOK, Cursor, StreamInv, DoneAtEnd
    <3>2. heard[c] # -1 =>
            /\ heard[c] = Preceding(s, Due(s, c))
            /\ heard[c] = Rows[s] => LoopForever
      BY <2>1, <2>2, <2>4 DEF StreamInv, InStep, InStepWith, EndSent
    <3>3. e = Due(s, c) /\ e \in 0 .. Rows[s]
      BY <2>1, <3>1 DEF FeedEvent, Due, EndSent, LastSequence
    <3>4. Service!Follows(heard[c], s, e)
      <4>1. CASE heard[c] = -1
        BY <3>1, <3>3, <4>1 DEF Service!Follows
      <4>2. CASE heard[c] # -1 /\ e = 0
        <5>1. heard[c] = Rows[s]
          BY <3>2, <3>3, <4>2 DEF Preceding
        <5>2. (Rows[s] + 1) % (Rows[s] + 1) = 0
          BY <3>1
        <5> QED
          BY <3>2, <3>3, <4>2, <5>1, <5>2 DEF Service!Follows
      <4>3. CASE heard[c] # -1 /\ e # 0
        <5>1. heard[c] = e - 1
          BY <3>2, <3>3, <4>3 DEF Preceding
        <5>2. e % (Rows[s] + 1) = e
          BY <3>1, <3>3
        <5>3. (heard[c] + 1) % (Rows[s] + 1) = e
          BY <3>3, <5>1, <5>2
        <5> QED
          BY <3>2, <3>3, <4>3, <5>3 DEF Service!Follows
      <4> QED
        BY <4>1, <4>2, <4>3
    <3>5. Service!Announces(p, s, e)
      <4>1. CASE workerPc[s] = "broadcast"
        <5>1. e # Rows[s]
          BY <3>1, <4>1 DEF FeedEvent, LastSequence
        <5> QED
          BY <4>1, <5>1 DEF Service!Announces, MarketUpdate, FeedEvent
      <4>2. CASE workerPc[s] = "replayDone"
        BY <4>2 DEF Service!Announces, ReplayDone, FeedEvent
      <4> QED
        BY <2>1, <4>1, <4>2
    <3>6. /\ Service!Appends(c)
          /\ Service!Sent(c) = p
          /\ \A k \in Conns \ {c} : outbox'[k] = outbox[k]
      BY <2>4, AppendShows DEF TypeInv
    <3>7. heard'[c] = e /\ \A k \in Conns \ {c} : heard'[k] = heard[k]
      BY <2>4 DEF TypeInv, TypeOK
    <3>8. Service!Deliver(c)
      BY <2>1, <2>2, <3>4, <3>5, <3>6, <3>7 DEF Service!Deliver
    <3> QED
      BY <2>1, <3>6, <3>7, <3>8 DEF ServiceStep, Service!Step
  <2> QED
    BY <1>2, <2>3, <2>4, TurnOutcome
<1> QED
  BY <1>1, <1>2 DEF Worker

LEMMA MainShows ==
  ASSUME TypeInv, MainInv, FeedInv, Main \/ MainStop
  PROVE  \A k \in Conns : ServiceStep(k)
<1> USE DEF peerVars, listenVars, socketVars, clientVars, mainVars,
            handlerVars, workerVars
<1>1. CASE MainActivate
  <2> SUFFICES ASSUME NEW k \in Conns PROVE ServiceStep(k)
    OBVIOUS
  <2>1. CASE k \in Waiting(activating)
    <3>1. Service!Choose(k)
      BY <1>1, <2>1 DEF MainActivate, Service!Choose, TypeInv, TypeOK
    <3> QED
      BY <3>1 DEF ServiceStep, Service!Step
  <2>2. CASE k \notin Waiting(activating)
    BY <1>1, <2>2 DEF MainActivate, ServiceStep
  <2> QED
    BY <2>1, <2>2
<1>2. CASE ~MainActivate
  <2>1. UNCHANGED serviceVars
    BY <1>2 DEF Main, MainRegister, MainReplay, MainStop, MainCloseListener,
       MainJoin, MainCloseClients, serviceVars
  <2> QED
    BY <2>1 DEF ServiceStep, serviceVars
<1> QED
  BY <1>1, <1>2

LEMMA NextShows ==
  ASSUME IInv, StreamInv, [Next]_vars
  PROVE  \A k \in Conns : ServiceStep(k)
<1>1. CASE \/ AcceptCheck
           \/ \E c \in Conns, f \in Fds : Accept(c, f)
           \/ AcceptFails
           \/ Terminated
           \/ UNCHANGED vars
  <2>1. UNCHANGED serviceVars
    BY <1>1 DEF AcceptCheck, Accept, AcceptFails, Terminated, vars, serviceVars,
       socketVars, clientVars
  <2> QED
    BY <2>1 DEF ServiceStep, serviceVars
<1> QED
  BY <1>1, PeerShows, HandlerShows, WorkerShows, MainShows DEF IInv, Next

-----------------------------------------------------------------------------
\* The server refines the service: seen from any client, the interleaving of
\* handlers, workers and main is one server that sends it replies and the
\* next event of its own topic.
THEOREM ServerImplementsService == Spec => ImplementsService
<1>1. Init => Service!Init
  BY DEF Init, Service!Init
<1>2. IInv /\ IInv' /\ StreamInv /\ [Next]_vars
        => [Service!Next]_<<subscribed, heard, outbox>>
  <2> SUFFICES ASSUME IInv, IInv', StreamInv, [Next]_vars PROVE Service!Next
    OBVIOUS
  <2>1. \A k \in Conns : ServiceStep(k)
    BY NextShows
  <2>2. /\ Service!PerClient(subscribed')
        /\ Service!PerClient(heard')
        /\ Service!PerClient(outbox')
    BY DEF IInv, TypeInv, TypeOK, Service!PerClient
  <2> QED
    BY <2>1, <2>2 DEF Service!Next, ServiceStep
<1> QED
  BY <1>1, <1>2, Invariance, StreamInvariance, PTL
     DEF Spec, ImplementsService, Service!Spec

\* No tick of a subscription is lost, repeated or out of order: a packet of a
\* feed that a client is sent is of the symbol it is subscribed to and is the
\* event after the last it heard, the first of a pass only if passes follow.
THEOREM StreamsUnbroken == Spec => StreamUnbroken
<1>1. IInv /\ StreamInv /\ [Next]_vars =>
        [\A c \in Conns : FeedPacketSent(c) =>
           LET s == subscribed[c] IN
           /\ outbox'[c][Len(outbox'[c])].symbol = s
           /\ heard[c] # -1 => /\ heard'[c] = (heard[c] + 1) % (Rows[s] + 1)
                               /\ heard[c] = Rows[s] => LoopForever]_vars
  <2> SUFFICES ASSUME IInv, StreamInv, [Next]_vars,
                      NEW c \in Conns, FeedPacketSent(c)
               PROVE  /\ outbox'[c][Len(outbox'[c])].symbol = subscribed[c]
                      /\ heard[c] # -1 =>
                           /\ heard'[c] = (heard[c] + 1) % (Rows[subscribed[c]] + 1)
                           /\ heard[c] = Rows[subscribed[c]] => LoopForever
    OBVIOUS
  <2>1. ServiceStep(c)
    BY NextShows
  <2>2. outbox[c] \in Seq(Packet)
    BY DEF IInv, TypeInv, TypeOK
  <2>3. outbox'[c] # outbox[c]
    BY <2>2 DEF FeedPacketSent
  <2>4. outbox'[c] \notin {Tail(outbox[c]), <<>>} \/ outbox[c] = <<>>
    BY <2>2 DEF FeedPacketSent
  <2>5. ~Service!Reply(c)
    BY DEF FeedPacketSent, Service!Reply, Service!Sent
  <2>6. Service!Deliver(c)
    BY <2>1, <2>3, <2>4, <2>5
       DEF ServiceStep, Service!Step, Service!Choose, Service!Take
  <2> QED
    BY <2>6 DEF Service!Deliver, Service!Follows, Service!Announces, Service!Sent
<1> QED
  BY <1>1, Invariance, StreamInvariance, PTL DEF Spec, StreamUnbroken
=============================================================================
