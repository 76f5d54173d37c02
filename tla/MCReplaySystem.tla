--------------------------- MODULE MCReplaySystem ---------------------------
(* Instances of ReplaySystem for TLC. *)
EXTENDS ReplaySystem, MCSessionManager

MCAsks == MCSubscribe \cup {[type |-> "Subscribe", symbol |-> xyz]}

\* A local that has gone out of scope and a field of an erased entry are never
\* read again: states that differ only in them are one.
Kept(f, S, default) == [c \in Conns |-> IF c \in S THEN f[c] ELSE default]
At(labels) == {c \in Conns : pc[c] \in labels}
Answering == {"lookup", "subscribe", "unsubscribe", "heartbeat", "error"}

MCView ==
  <<peerVars, listenVars, socketVars, feeds, mainVars, acceptPc, workerVars,
    systemClientVars, mistaken, pc, sessions,
    Kept(request, At({"lookup", "subscribe"}), NoSymbol),
    Kept(feedReady, At({"subscribe"}), FALSE),
    Kept(bound, At(Answering \cup {"recv"}), NoConn),
    Kept(clientFd, Conns \ At({"done"}), NoFd),
    Kept(socketFd, sessions, NoFd), Kept(subscribed, sessions, NoSymbol),
    Kept(pending, sessions, NoSymbol), Kept(heard, sessions, -1)>>
=============================================================================
