---------------------------- MODULE ReplaySystem ----------------------------
(***************************************************************************)
(* The whole program: the replay server, and at the other end of each      *)
(* connection a client process (client/market_client.cpp), which reads     *)
(* packets, hands them to its TradeProcessor, asks for its symbol once,    *)
(* after Welcome, and leaves when it is stopped or the server hangs up.    *)
(* Packets are whole here: MarketClient and Wire show that this client     *)
(* and the server's writers keep them so.                                  *)
(***************************************************************************)
EXTENDS SessionManager

VARIABLES
  chosen,      \* the UDS_SYMBOL of client c, for good
  stage,       \* of client c: "waiting" for Welcome, "subscribe", "running", "exited"
  tickCount,   \* stats_.tick_count
  reported,    \* history: clients that have printed an end-of-replay report
  mistaken     \* history: clients another's handler has served for itself

systemClientVars == <<chosen, stage, tickCount, reported>>
systemVars == <<vars, systemClientVars, mistaken>>

Ask(c) == [type |-> "Subscribe", symbol |-> chosen[c]]

\* To the server a client is a peer.
ASSUME SystemAssumption ==
  [type : {"Subscribe"}, symbol : Symbols \cup {UnknownSymbol}] \subseteq PeerRequests

SystemInit ==
  /\ Init
  /\ chosen \in [Conns -> Symbols \cup {UnknownSymbol}]
  /\ stage = [c \in Conns |-> "waiting"]
  /\ tickCount = [c \in Conns |-> 0]
  /\ reported = {}
  /\ mistaken = {}

\* onConnected: resetSession, then on to subscribe.
HandleWelcome(c) ==
  /\ Head(outbox[c]).type = "Welcome"
  /\ stage' = [stage EXCEPT ![c] = "subscribe"]
  /\ tickCount' = [tickCount EXCEPT ![c] = 0]
  /\ UNCHANGED <<chosen, reported>>

\* onMarketUpdate
HandleUpdate(c) ==
  /\ Head(outbox[c]).type = "MarketUpdate"
  /\ tickCount' = [tickCount EXCEPT ![c] = @ + 1]
  /\ UNCHANGED <<chosen, stage, reported>>

\* Mutant: tick_count goes on into the next replay.
HandleReplayDoneCountKept(c) ==
  /\ Head(outbox[c]).type = "ReplayDone"
  /\ reported' = reported \cup {c}
  /\ UNCHANGED <<chosen, stage, tickCount>>

\* onReplayDone prints the report and starts a new count.
HandleReplayDone(c) ==
  /\ Head(outbox[c]).type = "ReplayDone"
  /\ reported' = reported \cup {c}
  /\ tickCount' = [tickCount EXCEPT ![c] = 0]
  /\ UNCHANGED <<chosen, stage>>

\* onError only logs.
HandleError(c) ==
  /\ Head(outbox[c]).type = "Error"
  /\ UNCHANGED systemClientVars

ClientHandle(c) ==
  /\ stage[c] # "subscribe"
  /\ PeerRead(c)
  /\ HandleWelcome(c) \/ HandleUpdate(c) \/ HandleReplayDone(c) \/ HandleError(c)

ClientSubscribe(c) ==
  /\ stage[c] = "subscribe"
  /\ PeerSend(c, Ask(c))
  /\ stage' = [stage EXCEPT ![c] = "running"]
  /\ UNCHANGED <<chosen, tickCount, reported>>

\* stop() from a signal, or the end of the stream.
ClientExit(c) ==
  /\ PeerGone(c)
  /\ stage' = [stage EXCEPT ![c] = "exited"]
  /\ tickCount' = [tickCount EXCEPT ![c] = 0]
  /\ UNCHANGED <<chosen, reported>>

Client(c) ==
  \/ PeerConnect(c) /\ UNCHANGED systemClientVars
  \/ ClientHandle(c)
  \/ ClientSubscribe(c)
  \/ ClientExit(c)

ServerStep ==
  \/ AcceptCheck
  \/ \E c \in Conns, f \in Fds : Accept(c, f)
  \/ AcceptFails
  \/ \E c \in Conns : Handler(c)
  \/ \E s \in Symbols : Worker(s)
  \/ Main
  \/ MainStop
  \/ Terminated

\* The handler of another connection answers or subscribes c, on a request
\* that was not c's: it has outlived its descriptor, whose number is now c's.
ServedByOther(c) ==
  /\ \E h \in Conns \ {c} : pc'[h] # pc[h] /\ bound[h] # c
  /\ <<outbox[c], subscribed[c], pending[c], heard[c]>>'
       # <<outbox[c], subscribed[c], pending[c], heard[c]>>

SystemNext ==
  \/ /\ \E c \in Conns : Client(c)
     /\ UNCHANGED mistaken
  \/ /\ ServerStep
     /\ mistaken' = mistaken \cup {c \in Conns : ServedByOther(c)}
     /\ UNCHANGED systemClientVars

SystemSpec == SystemInit /\ [][SystemNext]_systemVars

-----------------------------------------------------------------------------
\* Every client variable has a value of its type, and no more ticks are counted
\* than a pass of the chosen feed has.
SystemTypeOK ==
  /\ chosen \in [Conns -> Symbols \cup {UnknownSymbol}]
  /\ stage \in [Conns -> {"waiting", "subscribe", "running", "exited"}]
  /\ tickCount \in [Conns -> Nat]
  /\ \A c \in Conns \ mistaken : tickCount[c] > 0 =>
       chosen[c] \in Symbols /\ tickCount[c] <= Rows[chosen[c]]
  /\ reported \cup mistaken \subseteq Conns

Handles(c, types) ==
  /\ outbox[c] # <<>> /\ outbox'[c] = Tail(outbox[c])
  /\ stage'[c] # "exited"
  /\ Head(outbox[c]).type \in types

\* onConnected is a client's first callback, as the reset of the TradeProcessor
\* in it requires, unless a handler took the client's connection for its own:
\* with three connections, one that is to send an Error may find its descriptor
\* closed by a second one and given to a third.
ConnectedFirst ==
  [][\A c \in Conns \ mistaken :
       Handles(c, {"MarketUpdate", "ReplayDone", "Error"}) => stage[c] # "waiting"]_systemVars

\* The reports a client prints are of whole passes: the first one of the part
\* it heard, at most a pass, each later one of exactly Rows ticks, counted at
\* the client after whatever the buffers held back; with the same exception,
\* since such a handler subscribes the client to what its own had asked for.
ReportsWholePasses ==
  [][\A c \in Conns \ mistaken :
       Handles(c, {"ReplayDone"}) =>
         /\ tickCount[c] <= Rows[chosen[c]]
         /\ c \in reported => tickCount[c] = Rows[chosen[c]]]_systemVars
=============================================================================
