# UDS-OB-HFT in TLA+

A verification development of the C++ program in `src/`: a server that replays
order-book snapshots from CSV files over TCP, and a client that trades on them
on paper. The modules below model the server, the feed it loads, the wire
between the two, the client, the strategy, the two processes under the script
that starts them, and the server with its clients as a whole. TLC checks them on
small instances, and TLAPS proves for every value of the constants the safety
properties of the server with the service it implements, of the server with
its clients, of the strategy, of the client's connection, of the feed and of the
script.

## The system

| Component | Code | State | Operations | What makes it correct |
|---|---|---|---|---|
| SessionManager | `server/session_manager.{cpp,hpp}`, `server/main.cpp` | `clients_` (descriptor, active and pending symbol), `feeds_`, `running_`, `listen_fd_`, two mutexes | start, stop, registerFeed, runReplayLoop; threads: accept loop, one detached handler per connection, one worker per feed | a session uses its own descriptor, none leaks, subscriptions name feeds, each subscriber gets an unbroken stream, stop ends everything |
| MarketDataFeed | `server/market_data_feed.{cpp,hpp}` | snapshots, cursor | loadFromCsv, next, reset, peekNextDelayMicros, size | every row once and in order per pass |
| Wire protocol | `common/protocol.hpp` | none (layout) | encode, decode | packets stay whole and in order |
| MarketClient | `client/market_client.{cpp,hpp}`, `client/main.cpp` | socket, `running_` | connect, run, subscribe, stop (from a signal handler) | callbacks in packet order, onDisconnected once and last |
| TradeProcessor | `client/trade_processor.{cpp,hpp}` | account and position, ring of mid prices, latest snapshot, session statistics | onConnected, onMarketUpdate, onReplayDone, onError, onDisconnected | books balance, no credit, entries only on agreeing signals, minimum hold, report matches the account |
| Types, configuration, utilities | `common/*.hpp`, `client/include/client_config.hpp` | none | parsing, getenv, logging | |
| Launcher | `run.sh` | PID of the server | build, start, wait for the port, cleanup | the server does not outlive the client |
| Data download, build | `data_fetcher.py`, `CMakeLists.txt` | none | | |

Interactions. `main` starts listening, loads the three CSVs, registers the
usable ones and starts the workers, so clients may connect and subscribe
before any feed exists. A peer connects, the accept thread starts a handler, the
handler registers a session, sends Welcome, then serves Subscribe, Unsubscribe
and Heartbeat. Workers write MarketUpdate and ReplayDone straight to the
subscribers' sockets with `clients_mutex_` held, while handlers write their
replies to the same sockets without it. `MarketClient::run` reads packets and
calls the TradeProcessor, on one thread.

What is hard. Descriptors are closed by `removeClient`, `broadcast`, `stop` and
by nobody else, but their numbers are kept by detached threads and handed out
again by the kernel. The two mutexes are never held together, so a decision
made under one is acted on under the other. A send blocks with the mutex
held. The strategy is sequential, but its rules shadow one another and its
account is updated in several places over long sequences of ticks.
`PROJECT.json` lists each hazard at its line.

## The modules

| Module | Models |
|---|---|
| `MarketDataFeed` | what the server needs of a feed: number of rows, `next`, `reset`, `size` |
| `FeedLoad`, `MCFeedLoad` | the class itself, from the file to the paced ticks |
| `FeedLoadProofs` | its invariant and theorems |
| `ReplayService` | abstract specification: what each client is promised |
| `SessionManager`, `MCSessionManager` | the server, its threads, the kernel's descriptors and buffers, any peers; implements `ReplayService` |
| `SessionManagerProofs` | its inductive invariant and theorems |
| `SessionServiceProofs` | what the server sends is what `ReplayService` promises |
| `Wire`, `MCWire` | one connection in pieces of packets, the server's two writers |
| `MarketClient`, `MCMarketClient` | the client process at the other end of `Wire`, with its signal handler |
| `MarketClientProofs` | the invariant of the two ends and what is between them, and its theorems |
| `ReplaySystem`, `MCReplaySystem` | `SessionManager` with client programs as its peers, counting and reporting |
| `ReplaySystemProofs` | the invariant of clients, packets and server, and its theorems |
| `MidRing` | the ring of prices, as operators |
| `MidRingProofs` | where a push leaves the prices, for any window |
| `TradeProcessor`, `MCTradeProcessor` | the client's strategy, account and reports (extends `MidRing`) |
| `TradeProcessorProofs` | its invariant and theorems |
| `Launcher` | `run.sh`, the server and client processes, the user's signals |
| `LauncherProofs` | its invariant and theorems |

How they fit. `SessionManager` takes packets for whole and peers for
arbitrary; `Wire` takes one connection of it apart, and `MarketClient` puts the
real client there and shows that with this client packets do stay whole and
callbacks follow them. On that ground `ReplaySystem` uses whole packets again,
with several clients and the whole server. `FeedLoad` shows what
`MarketDataFeed` states of a loaded feed; `TradeProcessor` is called as
`MarketClient` calls its callbacks.

### SessionManager

One program counter per thread: `mainPc` (main, then stop), `acceptPc`,
`pc[c]` (the handler of connection `c`), `workerPc[s]` (the worker of feed `s`).
A critical section that cannot block is one action, enabled when
`clientsMutex` is free; the two that send with the mutex held are split into
`WorkerTick` (acquire), `WorkerSend` (one client) and `WorkerRelease`.
`feeds_mutex_` never covers a blocking call and is not a variable: the three
sections under it (`MainRegister`, `HandlerLookup`, the start of the replay
thread in `MainReplay`) are atomic.

| Code | Actions |
|---|---|
| `acceptLoop` | `AcceptCheck`, `Accept`, `AcceptFails` |
| `handleClient` and what it calls | `HandlerPush`, `HandlerReply`, `HandlerLoop`, `HandlerRead`, `HandlerReceive`, `HandlerReceiveFails`, `HandlerLookup`, `HandlerSubscribe`, `HandlerUnsubscribe`, `HandlerRemove` |
| `runReplayLoop`, `broadcast` | `WorkerReset`, `WorkerCheck`, `WorkerTick`, `WorkerSend`, `WorkerRelease` |
| `registerFeed`, `activatePendingSubscriptions`, `main` | `MainRegister`, `MainActivate`, `MainReplay` |
| `stop` | `MainStop`, `MainCloseListener`, `MainJoin`, `MainCloseClients` |
| other programs | `PeerConnect`, `PeerSend`, `PeerRead`, `PeerGone` |

Sockets are modelled from how the code uses them. `fdTable` maps a descriptor
to the connection it leads to; every call goes where the table points at that
moment, and `accept` may return any free number (the kernel returns the
lowest, one of these choices). The look at `running_` (`HandlerLoop`) and the
descriptor lookup of `recv` (`HandlerRead`) are two steps, and a blocked `recv`
stays bound to its connection. A send succeeds, fails, or blocks while the peer's buffer is full.
An entry of `clients_` is named by the connection it was made for, which the
code does not store: the code finds entries by descriptor, as `Matching` does.

`ReplayService` knows no threads, descriptors or sessions: a client has a
topic, the last event sent under it, and a channel. The refinement maps the
topic to `subscribed`, the last event to the history `heard` and the channel to
`outbox`. One step of the server may be a step of several clients, as when
`registerFeed` activates all that were waiting.

Abstractions: a request or a packet is sent and received whole; a payload is
its type, symbol and number; the sleep between ticks is the time a worker may
rest in `tick`; failures of `start` leave nothing running and are left out; a
request with too short a payload or an unknown type is `Ignored`; `heard` is a
history of the last feed event sent under the current subscription; the fields
of erased entries keep their last values, which no guard reads.

### MidRing, TradeProcessor

`trading` is a record with the fields of `TradingState`; each helper of the
code is an operator on it, and each callback one action. `DesiredSide` keeps
the rules of `computeDesiredSide` in their order. The ring of prices is the
record of `MidRing`, for any window; the history `mids` is what it should hold.

Doubles become fixed point: integer prices, money in units of the price over
`FeeScale` so that a fee is exact, ratios in 1/10000 rounded down. What
floating point rounds is therefore not covered. The order-book and flow
imbalances are inputs. The trade counts and the drawdown are state; signal
ticks, ranges, times and the symbol, which are only printed, are left out.
`received`, `reported`, `entryTick` and `mids` are history, and so is the `peak`
kept with a report, which the code does not print. `MinHold` is the cast of the
64-bit setting to an `int` of `IntBits` bits.

### FeedLoad

A file is a sequence of lines, a line the sequence of its fields, a field the
number at its head or `Unreadable`. `ColumnMap`, `ParseRow` and the three
parsers are operators, with the wrap of a minus sign and the cast to 32 bits
(`TimeWord` and `CountWord` are the number of values of the two words);
`ReadHeader`, `ReadLine`, `EndOfFile` are `loadFromCsv`, and `Reset`, `Sleep`,
`NextSnapshot` the worker's use of the feed. The 40 book columns are parsed as
the others and are left out.

A delay goes through a `double`, a division and back to 64 bits
(`session_manager.cpp:332`), then through a signed count of microseconds.
`Quotients` is exact for a delay of at most `DoubleExact` (2^53: such a delay is
a `double`, and its rounded quotient by a whole number does not reach the next
integer), any value within the two roundings above it, and any
word where the quotient does not fit one. `Slept` sleeps nothing for a
negative count. `clock` is the time since the first tick of the pass: the
sleeps and, at each tick, one of `Delays` for all that the worker does beside
sleeping, waiting for `clients_mutex_` and sending, which the code never makes
up. So `NoTickEarly` is a lower bound only; a tick may be late by any amount.

### Wire and MarketClient

A packet is a sequence of pieces, the header's first; one `send` puts any
number of them in the stream, as many as fit, and one `recv` takes any number.
`unsent[w]` is what `writeAll` has left of the handler's or the worker's packet.
`MarketClient` adds the program counter of the client's one thread, `running_`,
the descriptor and what `readExact` has got. `Signal` runs `stop()` between any
two of its steps, as fine as the reads and writes of the two members it
touches. `ServerCloses` may lose any tail of what is in flight. A Subscribe of a
known symbol makes the session `subscribed` or, while its feed is not
registered, `pending`, without an answer; `Activate` ends that if the feed ever
comes, and nothing makes it come. Hence what `SubscribeTakesEffect` promises:
on a connection that lasts, the client's Subscribe is refused with an Error or
has its session subscribed or pending, and no more than that
(`ActivatedOnRegister` shows a client pending for ever). A heartbeat and an unsubscription are requests
no client of this repository sends; `Wire` answers them for other programs.

### ReplaySystem

The peers of `SessionManager` become clients with a `stage` (waiting for
Welcome, about to subscribe, running, exited), the symbol each has chosen and
the `tick_count` of its reports. A client's step is the peer's action of
`SessionManager` with the callback in the same step. The history `mistaken`
collects the clients that the handler of another connection has answered or
subscribed on a request that was not theirs; the three properties except
them (see below).

### Launcher

`pc` is the command `run.sh` is at, from the start of the server on;
`cleaning` where `cleanup` is; the two processes have a few stages each, those
in which a signal kills them, is lost or is heard. A trap runs between
commands, as bash does, and the script goes on after it. `Setups` are the mode
and whether another server already has the port; `ServerRuns` and `ClientRuns`
take what the other modules show of the processes (a server told to stop
exits, a client told to stop exits with 0).

## The runs

| Run | Checks | Instance |
|---|---|---|
| session_safety | `SessionOwnsFd`, `NoFdLeak`, `StopIsComplete`, `ImplementsService` | 2 connections, 2 descriptors, 1 looping feed of 1 row |
| session_requests | `TypeOK`, `SubscribedHasFeed`, `StreamUnbroken`, `ImplementsService` | 1 connection, every kind of request, 2 feeds of 1 and 2 rows |
| session_liveness | `StopReturns`, `SubscriberHears`, `EndIsHeard` | 1 connection, 1 looping feed of 2 rows, fair |
| session_activation | `ActivatedOnRegister`, violated | 1 connection, 1 feed |
| session_served | `EverySubscriberServed`, violated | as session_safety |
| trade_markets | `TypeOK`, `NeverQueued`, `BooksBalance`, `Solvent`, `ReportReconciles`, `EveryTickReported`, `DrawdownCoversLoss`, `RingHoldsLatest`, `EntriesAgree`, `FlipViaFlat`, `MinimumHold`, `HaltIsFinal` | three markets of 4 to 8 different ticks, 10 to 13 ticks long, an error |
| momentum_span | `MomentumSpansLookback`, violated | as trade_markets |
| client_stream | `TypeOK`, `FramesWhole`, `CallbacksFollowStream`, `ConnectionEnds`, `PacketsHandled`, `SubscribeTakesEffect` | headers and payloads of 2 pieces, a buffer of 5, 5 packets, 2 signals, fair |
| wire_mixed | `FramesWhole`, violated | any client, Subscribe and Heartbeat |
| feed_files | `TypeOK`, `SnapshotsAreLines`, `SleepWithinSpan`, `NoTickEarly` | files of up to 4 rows, words of 32 and 16 values, a double exact to 15, speed 2, delays of 0, 1 and 5 |
| system_reports | `SystemTypeOK`, `ConnectedFirst`, `ReportsWholePasses` | 2 clients, 2 descriptors, 1 looping feed of 1 row |
| launcher | `TypeOK`, `NoOrphan`, `CtrlCEndsAll` | three modes, port free or taken, 2 probes, 2 signals, fair |

Bounds and why they are enough. `Conns` with two members is the least in which
a descriptor is reused while its first handler still runs, and TLC finds that
with two no client is ever `mistaken`. It takes a third for that, and what
three or more connections add is left to the theorems. The two connections are
interchangeable, hence the symmetry in session_safety and system_reports (no
liveness is checked there). The view of system_reports, `MCView`, leaves out
only the locals of a handler that have gone out of scope and the fields of
erased entries: no action and none of the run's properties reads them again.
`Rows` of 1 and 2 give the first, the middle and the end of a pass; looping
gives the next pass. `SendBuffer = 1` lets every send block. `MaxRequests` of 2
lets a request follow a subscription. In trade_markets, `Window = 5` with
lookbacks 2 and 4 fills the ring, wraps it twice and holds a position for
several ticks; `MCSpec` chooses one of the three markets for good, each with
the number of ticks that reaches what it is for: both sides, stop losses, take
profits and resets; the filters; a halt with a position open and its closing.
`MinHoldTicks = 2` makes an early exit possible and wrong.
In client_stream a buffer of 5 is neither a multiple of a packet nor of a part
of one, so every cut of a packet by a send, a read and a close occurs, and five
packets are Welcome, an answer and ticks of which the buffer cannot hold two. In
feed_files four rows give first, inner and last differences in every order; the
words are small enough for times that wrap and are cut, and differences come on
both sides of what a double holds. In launcher, two
signals are the least that interrupt a trap, and two probes make the last one
differ from the first.

Fairness, in the `FairSpec` of each module. Each thread is weakly fair: the operating system
schedules what can run. `PeerRead` is weakly fair: `MarketClient::run` does
nothing but read. Nothing obliges a peer to connect, send or leave, nor anyone
to stop the server. Without a peer that reads, neither property holds: a
worker blocks in `send` with `clients_mutex_` held, and `stop` joins the
workers before it shuts any socket down. A `std::mutex` is not fair, and weak
fairness of a handler or worker does not give it the mutex while others pass
it round; the liveness instance has one feed and one connection, so that
nobody is overtaken for ever, and says nothing about starvation between feeds.
In `MarketClient` the client's thread and the two writers are fair, the signal,
new ticks and the server's close are not. In `Launcher` the three processes are
fair, nobody has to send a signal, and a server that was told to stop does
exit, which is `StopReturns`.

## What the code does against its own words

Four runs end in a counterexample, each against a sentence of the repository:

1. `ActivatedOnRegister`: a Subscribe between the two halves of
   `registerFeed` stays pending for ever (`session_manager.cpp:37`).
2. `EverySubscriberServed`: an old handler removes the session of the client
   that got its descriptor number (`session_manager.cpp:278`).
3. `FramesWhole` for a client that sends Heartbeat while subscribed: the answer
   lands inside a MarketUpdate that a full buffer has cut
   (`session_manager.cpp:264`). The client of this repository sends no
   Heartbeat, and client_stream shows its packets whole.
4. `MomentumSpansLookback`: a momentum over L ticks compares the newest price
   with the one L-1 ticks before it (`trade_processor.cpp:71`), so the 5 s and
   30 s of `README.md:164` are 4 s and 29 s. `RingHoldsLatest` says
   which price each index reads.

Others are in the model as the code has them, and are where a property is
weaker than the words of the repository:

- A handler whose session another one has removed goes on with its descriptor
  number (`session_manager.cpp:254`). If a third connection has got the number, the
  handler sends its Error there, perhaps before the Welcome, or subscribes that
  client to the symbol its own had asked for. So `ConnectedFirst`,
  `ReportsWholePasses` and `SystemTypeOK` except the clients in `mistaken`;
  without the exception none holds with three connections and one
  descriptor (a client with an unknown symbol then counts ticks and reports). The cause is that of `EverySubscriberServed`. `Wire` and
  `MarketClient` have one handler per connection and do not cover it either.
- `size()` is one less than the number of snapshots (`market_data_feed.hpp:21`),
  so ReplayDone counts one update too few; `Size` says the same and
  `ReplayService` leaves the count open.
- The deferred flip of `trade_processor.cpp:355` never happens: `NeverQueued`.
- A minimum hold of 2^31 or more may become negative
  (`trade_processor.cpp:98`); `MinimumHold` is checked below that.
- A winning trade may have lost money: its result leaves out the opening fee
  (`trade_processor.cpp:277`).
- Rows are replayed in the order of the file, which the header calls time order
  (`market_data_feed.hpp:3`); `NoTickEarly` supposes rising times.
- A client that exits with 0 leaves the server running (`run.sh:156` empties
  its PID before the EXIT trap, against `run.sh:18`, "Stops the server when the
  client exits"); hence the exception in `NoOrphan`, which no property covers.
- One unreadable time is a 0 among microseconds of this century, and the delay
  to the row after it decades: within the span of the file, as `SleepWithinSpan`
  says, and `stop` waits for the sleep to end (`session_manager.cpp:333`). The
  liveness properties suppose that it does.
- Another server on the port answers the script's probe, which then calls its
  own server ready (`run.sh:55`); a Ctrl+C before `SERVER_PID` is set finds
  nothing to clean up. `CtrlCEndsAll` leaves both out.

## The proofs

Assumptions: those of the modules, `FeedAssumption`, `SessionAssumption`,
`WindowAssumption` and `TradeAssumption`, that is the types of the constants and
`NoFd`, `NoConn`, `NoSymbol` and `UnknownSymbol` being none of the real ones.

`SessionManagerProofs`, for any connections, descriptors, feeds and rows.
The inductive invariant `IInv` has five parts:

- `TypeInv`: `TypeOK`, with what a program counter says of its locals (a
  handler in `recv` is bound to a connection, a worker in `broadcast` has
  moved its cursor past 0). Without the second part the types of the packets
  sent do not follow.
- `FdInv`: `SessionOwnsFd` and `NoFdLeak` support each other, and need that a
  connection is accepted once, that a handler before `push` holds the only
  copy of its open descriptor, that a closed entry lasts only while the
  broadcast that closed it holds the mutex, and that the mutex is held by
  whoever is in one of the two loops.
- `MainInv`: no worker runs before the last feed is registered, and
  `running_` is clear from `stop` on.
- `StopIsComplete`, from the second half of `MainInv`: a handler that
  registers late finds `running_` clear.
- `FeedInv`: a symbol reaches `subscribed` only through `feeds_`, seen by the
  handler or registered by main.

`SessionServiceProofs`, on `IInv`: `ImplementsService`, that is the initial
states and every step of the server are those of `ReplayService` or a stutter,
and from it `StreamUnbroken`. What the code keeps nowhere is that the last
event a client heard and the worker's cursor agree. `InStep` says so with `Due`, the
event a subscriber is to be sent next: while the loop over `clients_` is under
way the cursor has moved on for the clients already served and not yet for
those in `todo`, and a client whose socket no send reaches any more is out of step for
good. The invariant holds because a subscription can only begin or change
while no worker holds `clients_mutex_`.

`TradeProcessorProofs`, for every market, fee rate, size, window and
threshold. `Account` (typed, position equal to side times size, books
balanced, no credit) is kept by each leg and so by each tick; `TradeInv` adds
the queue, the reports and the tick counts. `NeverQueued` comes from
`OppositeNeedsRegime`: an entry against the position needs the momentum on
which the regime rule has already closed it. `FlipViaFlat`, `HaltIsFinal` and
`EntriesAgree` are action properties that follow from what a tick does in a
state of the invariant. `DrawdownCoversLoss` needs `Covered`: the cash of a flat
account, which is its equity, has been seen by `updateDrawdown` at the present
peak. It says nothing of an open position, whose equity a halted session no
longer looks at until it closes. `RingHoldsLatest` is `RingOf(trading.ring, mids)`:
a tick pushes its price or leaves both as they are (`RunStrategyTick`), and `PushRing`
follows slot by slot from `PushShifts` of `MidRingProofs`, where the index
`(head + window - k) % window` of the code is worked out for every window. `MinimumHold` needs `AgeInv`:
`ticksInPosition` is at most the number of updates since the entry, a history
the code does not have (an update without a price does not age a position).
`IntBits` is any positive number, so the other
theorems hold for every cast of the minimum hold; `MinimumHoldKept` assumes
that the cast keeps the setting, without which the code does not keep its word
(see above), and `MinimumHoldInt32` derives that for 32 bits and a setting
below 2^31. The provers know no power of 2 with a symbolic exponent.

`MarketClientProofs`, for any size of header and payload, any buffer and any
number of packets, ticks and signals. The pieces in order, what `readExact` has got,
what is in flight and what `writeAll` has left, are the Flow; a send and a receive
move pieces within it, and a close cuts its end. `ClientInv` says that the
Flow is chained: each piece is followed by the rest of its packet and that by
the first piece of the next. It stays so because of `OneWriter`: before the one
Subscribe (`AsksOnce`) only the handler writes, and after its answer only the
worker. So the check of magic and version never fails, a callback is given the
packet after the last one, and no packets mix. Without `AsksOnce` it is
false, as wire_mixed shows.

`FeedLoadProofs`, for any files, speed and widths of the words. While lines are
read, `unread` is the end of the file and the snapshots are the non-empty lines
before it; `LinesOf` carries the witness from line to line. `NoTickEarly` is not
inductive, since it speaks of the moment after a tick only: `PaceInv` adds that
between the sleep and the tick the same holds of the tick to come. `SleepExact`
says that up to `DoubleExact` the sleep is the whole quotient, and
`SleepRounds` that the division then loses less than a microsecond.

`LauncherProofs`, for any number of probes and signals. `ServerKnown` says that
from the command after the fork on `SERVER_PID` leads cleanup to a server that
still runs, unless the client exited with 0; `ClientOnce` that an exit with 0 is
of the one client started, and `CleanupFirst` that the script ends only after
the EXIT trap has sent its signal.

`ReplaySystemProofs`, for any number of clients, descriptors and feeds and any
buffer. `SystemIsOfPeers` first: the clients are peers of `SessionManager`, so
`IInv`, `StreamInv` and the service it implements hold of the whole program.
`SystemInv` adds what is known of a client that is not `mistaken`:

- `AskedOnce`: it asks once, after its Welcome, and at most one handler acts on
  the request; before that it has no topic. `BoundInv` (a handler reads from its own
  connection as long as that has its descriptor) and `RefusalLost` (a handler
  that refuses a known symbol has lost the connection) keep strangers away.
- `PacketsFit`: the packets that wait for it suit what it has done: a Welcome
  while it waits for one, an Error only for an unknown symbol, a feed only once
  subscribed. `ConnectedFirst` follows.
- `Counts`: `Ahead` is the sequence of events before the client, first those in its
  packets and then the one the server will send next; each is the one after the
  last in the cycle of a pass, and the count is the number of the first, or less
  during the first pass. `ReportsWholePasses` follows.

`ServerEffect` is the lemma they rest on: all a step of the server can do to such
a client is to welcome, refuse, enrol, wake or tick it.

Only model-checked. Liveness (`StopReturns`, `SubscriberHears`, `EndIsHeard`,
`ConnectionEnds`, `PacketsHandled`, `SubscribeTakesEffect`, `CtrlCEndsAll`) is beyond
the prover. Every invariant and action property of a passing run, and its refinement, is a
theorem.

## Not modelled

- `splitCsvLine`: a line of `FeedLoad` is the sequence of fields it returns.
- The sums behind the two imbalances, and the wraparound of `buys + sells` in 32
  bits (`trade_processor.cpp:143`): the imbalances are inputs, and the
  theorems hold for every value of them. A replay speed that is not a natural
  number.
- The lifetime of the `SessionManager` object after `main` returns, under
  detached handlers.
- Magic, version and size checks of a header on the server's side beyond the
  request kinds `BadMagic` and `Ignored`.
- In `run.sh`, the options, the build and the download. Logging, `getenv`,
  report wording, `data_fetcher.py`, `CMakeLists.txt`: no state of their own.

## Plan

What is left: the clients of `ReplaySystem` have whole packets, on the ground
of `MarketClient`; a theorem that its connection implements a queue of packets
would join the two modules formally, as `ServerImplementsService` joins the
server and the service.
