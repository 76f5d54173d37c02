-------------------------------- MODULE Wire --------------------------------
(***************************************************************************)
(* The server's end of one TCP connection (common/protocol.hpp, writeAll   *)
(* and readExact of server/session_manager.cpp), in pieces of packets.     *)
(* Two threads write to the socket: the connection's handler, which sends  *)
(* Welcome and its replies without a lock, and the replay worker of the    *)
(* feed, which sends with clients_mutex_ held.  A send() takes as much as  *)
(* the kernel buffers, and writeAll goes on with the rest.                 *)
(*                                                                         *)
(* One piece stands for any number of bytes; a header has HeaderUnits of   *)
(* them.  The client's requests are smaller than any buffer and written by *)
(* one thread, so they travel whole.  Connections do not share a stream:   *)
(* one is enough.                                                          *)
(***************************************************************************)
EXTENDS Naturals, Sequences

CONSTANTS
  HeaderUnits,    \* pieces of a PacketHeader
  PayloadUnits,   \* pieces of the payload of each type
  Buffer,         \* pieces the kernel buffers towards the client
  Requests,       \* what the client may ask
  MaxRequests,    \* bound: requests of the client
  MaxPackets      \* bound: packets sent to the client

Types == {"Welcome", "Heartbeat", "Error", "MarketUpdate", "ReplayDone"}
Writers == {"handler", "worker"}

ASSUME WireAssumption ==
  /\ HeaderUnits \in Nat \ {0}
  /\ PayloadUnits \in [Types -> Nat]
  /\ Buffer \in Nat \ {0}
  /\ Requests \subseteq {"Subscribe", "SubscribeUnknown", "Unsubscribe",
                         "Heartbeat"}
  /\ MaxRequests \in Nat /\ MaxPackets \in Nat

VARIABLES
  peerUp,      \* the client holds its end open
  open,        \* the server holds its end open
  stream,      \* the pieces in flight to the client
  unsent,      \* what each writer has left of its packet
  handlerPc,   \* "accept", then "welcome", then "loop"
  subscribed,  \* the session has an active symbol
  pending,     \* the session waits for the feed of its symbol
  uplink,      \* the requests in flight to the server
  asked,       \* history: requests the client has sent
  sent         \* history: packets begun, in the order of their first byte

sessionVars == <<subscribed, pending>>
serverVars == <<open, unsent, handlerPc, sessionVars, sent>>
wireVars == <<peerUp, stream, uplink, asked, serverVars>>

WireInit ==
  /\ peerUp = FALSE
  /\ open = FALSE
  /\ stream = <<>>
  /\ unsent = [w \in Writers |-> <<>>]
  /\ handlerPc = "accept"
  /\ subscribed = FALSE
  /\ pending = FALSE
  /\ uplink = <<>>
  /\ asked = 0
  /\ sent = <<>>

\* encodePacket: the header, then the payload.
Units(p) ==
  [i \in 1 .. HeaderUnits + PayloadUnits[p.type] |-> [packet |-> p, part |-> i]]

Idle(w) == unsent[w] = <<>>

\* writeAll is entered with a packet.
Begin(w, type) ==
  LET p == [type |-> type, n |-> Len(sent) + 1] IN
  /\ Idle(w)
  /\ Len(sent) < MaxPackets
  /\ unsent' = [unsent EXCEPT ![w] = Units(p)]
  /\ sent' = Append(sent, p)

\* Mutant: the next send() starts at the head of the buffer again.
RestFromStart(units, n) == SubSeq(units, 1, Len(units) - n)

\* What writeAll has left after a send() of n pieces.
Rest(units, n) == SubSeq(units, n + 1, Len(units))

WriterSends(w) ==
  /\ open /\ peerUp
  /\ \E n \in 1 .. Len(unsent[w]) :
       /\ Len(stream) + n <= Buffer
       /\ stream' = stream \o SubSeq(unsent[w], 1, n)
       /\ unsent' = [unsent EXCEPT ![w] = Rest(@, n)]
  /\ UNCHANGED <<peerUp, open, handlerPc, sessionVars, uplink, asked, sent>>

\* send() fails.  broadcast then closes the socket and drops the session, the
\* others ignore it.
WriterFails(w) ==
  /\ ~Idle(w)
  /\ ~(open /\ peerUp)
  /\ unsent' = [unsent EXCEPT ![w] = <<>>]
  /\ LET drops == unsent[w][1].packet.type = "MarketUpdate" IN
     /\ open' = (open /\ ~drops)
     /\ subscribed' = (subscribed /\ ~drops)
     /\ pending' = (pending /\ ~drops)
  /\ UNCHANGED <<peerUp, stream, handlerPc, uplink, asked, sent>>

HandlerWelcome ==
  /\ handlerPc = "welcome"
  /\ Begin("handler", "Welcome")
  /\ handlerPc' = "loop"
  /\ UNCHANGED <<peerUp, open, stream, sessionVars, uplink, asked>>

\* Mutant: an unknown symbol is not answered.
AnswerHeartbeat == [Heartbeat |-> "Heartbeat"]

\* What the handler sends back.
Answer == [SubscribeUnknown |-> "Error", Heartbeat |-> "Heartbeat"]

\* subscribeClient and unsubscribeClient change the session under
\* clients_mutex_, which the worker holds while it sends.  A known symbol is
\* pending while its feed is not registered, and nothing is answered.
SetSession(request) ==
  /\ Idle("worker")
  /\ \/ /\ request = "Subscribe"
        /\ \E ready \in BOOLEAN : subscribed' = ready /\ pending' = ~ready
     \/ /\ request = "Unsubscribe"
        /\ subscribed' = FALSE /\ pending' = FALSE

HandlerReceive ==
  /\ handlerPc = "loop" /\ Idle("handler")
  /\ open
  /\ uplink # <<>>
  /\ \/ SetSession(Head(uplink)) /\ UNCHANGED <<unsent, sent>>
     \/ /\ Head(uplink) \in DOMAIN Answer
        /\ Begin("handler", Answer[Head(uplink)])
        /\ UNCHANGED sessionVars
  /\ uplink' = Tail(uplink)
  /\ UNCHANGED <<peerUp, open, stream, handlerPc, asked>>

\* activatePendingSubscriptions, when the feed is registered, if it ever is.
Activate ==
  /\ pending
  /\ Idle("worker")
  /\ subscribed' = TRUE
  /\ pending' = FALSE
  /\ UNCHANGED <<peerUp, open, stream, unsent, handlerPc, uplink, asked, sent>>

\* broadcast or the ReplayDone loop comes to this client.
WorkerSends ==
  /\ open /\ subscribed
  /\ \E type \in {"MarketUpdate", "ReplayDone"} : Begin("worker", type)
  /\ UNCHANGED <<peerUp, open, stream, handlerPc, sessionVars, uplink, asked>>

\* stop or removeClient closes the socket, under clients_mutex_.  The kernel
\* may drop what the client has not received yet.
ServerCloses ==
  /\ open
  /\ Idle("worker")
  /\ open' = FALSE
  /\ subscribed' = FALSE
  /\ pending' = FALSE
  /\ \E n \in 0 .. Len(stream) : stream' = SubSeq(stream, 1, n)
  /\ UNCHANGED <<peerUp, unsent, handlerPc, uplink, asked, sent>>

Writing == \E w \in Writers : WriterSends(w) \/ WriterFails(w)

Server == Writing \/ HandlerWelcome \/ HandlerReceive \/ Activate
       \/ WorkerSends

-----------------------------------------------------------------------------
(* A client, as the network sees it.                                       *)

PeerConnects ==
  /\ handlerPc = "accept"
  /\ peerUp' = TRUE
  /\ open' = TRUE
  /\ handlerPc' = "welcome"
  /\ UNCHANGED <<stream, unsent, sessionVars, uplink, asked, sent>>

PeerSends(r) ==
  /\ peerUp
  /\ asked' = asked + 1
  /\ uplink' = IF open THEN Append(uplink, r) ELSE uplink
  /\ UNCHANGED <<peerUp, stream, serverVars>>

\* shutdown and close: what was in flight is lost.
PeerCloses ==
  /\ peerUp' = FALSE
  /\ stream' = <<>>
  /\ UNCHANGED <<uplink, asked, serverVars>>

PeerReads(n) ==
  /\ peerUp
  /\ n \in 1 .. Len(stream)
  /\ stream' = SubSeq(stream, n + 1, Len(stream))
  /\ UNCHANGED <<peerUp, uplink, asked, serverVars>>

\* Any program that speaks the protocol and asks once it is welcome.
AnyPeer ==
  \/ PeerConnects
  \/ handlerPc = "loop" /\ asked < MaxRequests /\ \E r \in Requests : PeerSends(r)
  \/ peerUp /\ PeerCloses
  \/ \E n \in 1 .. Buffer : PeerReads(n)

\* The connection is over.
Over == ~peerUp /\ ~open /\ UNCHANGED wireVars

WireNext == Server \/ ServerCloses \/ AnyPeer \/ Over

WireSpec == WireInit /\ [][WireNext]_wireVars

-----------------------------------------------------------------------------
Follows(u, v) ==
  IF u.part = HeaderUnits + PayloadUnits[u.packet.type]
  THEN v.part = 1
  ELSE v = [packet |-> u.packet, part |-> u.part + 1]

\* protocol.hpp:18, "Message types on the TCP stream (header + payload)": in
\* the stream a packet's pieces follow each other and the next packet begins
\* where one ends, although two threads write and each in several sends.
FramesWhole ==
  \A i \in 1 .. Len(stream) - 1 : Follows(stream[i], stream[i + 1])
=============================================================================
