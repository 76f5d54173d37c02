--------------------------- MODULE ReplayService ---------------------------
(***************************************************************************)
(* What the replay server promises each of its clients, without threads,   *)
(* locks, descriptors or sessions: a client has at most one topic, the     *)
(* feed it is subscribed to, and what it is sent of the topic is an        *)
(* unbroken piece of the replay, from any event on: tick after tick, then  *)
(* ReplayDone, then tick 0 of the next pass if the server loops.  Replies  *)
(* to its requests may come in between, and a connection may be lost.      *)
(*                                                                         *)
(* An event of feed s is a tick by its number or, as Rows[s], the end of   *)
(* the pass.  The clients do not wait for each other: a step of the        *)
(* service is a step of any number of them.                                *)
(***************************************************************************)
EXTENDS MarketDataFeed, Sequences

CONSTANTS
  Clients,       \* the clients of the service
  NoSymbol,      \* no topic
  LoopForever    \* a pass over a feed is followed by the next one

VARIABLES
  topic,         \* the feed a client is subscribed to, or NoSymbol
  last,          \* the last event sent under this topic, or -1
  channel        \* packets sent to a client and not yet read

Init ==
  /\ topic = [c \in Clients |-> NoSymbol]
  /\ last = [c \in Clients |-> -1]
  /\ channel = [c \in Clients |-> <<>>]

\* A client gets another topic, or the same one afresh.
Choose(c) ==
  /\ topic'[c] \in Symbols \cup {NoSymbol}
  /\ last'[c] = -1
  /\ channel'[c] = channel[c]

\* The packet that tells event e of feed s; what a ReplayDone counts is open.
Announces(packet, s, e) ==
  /\ packet.symbol = s
  /\ IF e = Rows[s] THEN packet.type = "ReplayDone"
     ELSE packet.type = "MarketUpdate" /\ packet.n = e

Follows(e, s, f) ==
  /\ f \in 0 .. Rows[s]
  /\ e # -1 => f = (e + 1) % (Rows[s] + 1)
  /\ e = Rows[s] => LoopForever

Sent(c) == channel'[c][Len(channel'[c])]

Appends(c) == /\ Len(channel'[c]) = Len(channel[c]) + 1
              /\ channel'[c] = Append(channel[c], Sent(c))

Deliver(c) ==
  /\ topic[c] # NoSymbol
  /\ Appends(c)
  /\ Follows(last[c], topic[c], last'[c])
  /\ Announces(Sent(c), topic[c], last'[c])
  /\ topic'[c] = topic[c]

Reply(c) ==
  /\ Appends(c)
  /\ Sent(c).type \in {"Welcome", "Heartbeat", "Error"}
  /\ topic'[c] = topic[c]
  /\ last'[c] = last[c]

\* The client reads the oldest packet, or the connection ends with what it held.
Take(c) ==
  /\ channel[c] # <<>>
  /\ channel'[c] \in {Tail(channel[c]), <<>>}
  /\ topic'[c] = topic[c]
  /\ last'[c] = last[c]

Step(c) == Choose(c) \/ Deliver(c) \/ Reply(c) \/ Take(c)

PerClient(f) == f = [c \in Clients |-> f[c]]

Next ==
  /\ PerClient(topic') /\ PerClient(last') /\ PerClient(channel')
  /\ \A c \in Clients :
       Step(c) \/ UNCHANGED <<topic[c], last[c], channel[c]>>

Spec == Init /\ [][Next]_<<topic, last, channel>>
=============================================================================
