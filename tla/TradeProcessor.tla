--------------------------- MODULE TradeProcessor ---------------------------
(***************************************************************************)
(* The paper-trading client (client/trade_processor.cpp), called by        *)
(* MarketClient for each packet of the connection, in order, by a single   *)
(* thread: onConnected once, then updates, ends of replay and errors in    *)
(* any order, and onDisconnected once.                                     *)
(*                                                                         *)
(* Doubles are fixed point: prices are integers, money is counted in       *)
(* 1/FeeScale of the price's unit so that a fee is exact, spreads in       *)
(* hundredths, ratios (imbalances, momenta, returns, scores) in 1/Scale.   *)
(* The book and flow imbalances are inputs: the sums over the levels and   *)
(* the counts they come from are data.  Of the counters that are only      *)
(* printed, the ticks with a signal and the ranges are left out.           *)
(***************************************************************************)
EXTENDS MidRing, Sequences

CONSTANTS
  FastTicks, SlowTicks,   \* kFastMomentumTicks, kSlowMomentumTicks
  InitialCash,            \* UDS_INITIAL_CASH
  PositionSize,           \* UDS_POSITION_SIZE
  SignalThreshold,        \* UDS_SIGNAL_THRESHOLD
  FeeRate, FeeScale,      \* UDS_FEE_RATE is FeeRate / FeeScale
  MaxSpread,              \* UDS_MAX_SPREAD
  MinHoldTicks,           \* UDS_MIN_HOLD_TICKS, a 64-bit number
  IntBits,                \* bits of an int
  Snapshots,              \* the updates the server may send
  NoSnapshot,             \* latest_ without a value
  MaxTicks,               \* bound: updates of one connection
  MaxErrors               \* bound: errors of one connection

Snapshot == [mid : Int, spread : Int, book : Int, flow : Int]

ASSUME TradeAssumption ==
  /\ FastTicks \in 1 .. Window /\ SlowTicks \in 1 .. Window
  /\ InitialCash \in Nat \ {0}
  /\ PositionSize \in Nat \ {0}
  /\ SignalThreshold \in Nat
  /\ FeeRate \in Nat /\ FeeScale \in Nat \ {0}
  /\ MaxSpread \in Nat
  /\ MinHoldTicks \in Nat /\ IntBits \in Nat \ {0}
  /\ Snapshots \subseteq Snapshot
  /\ NoSnapshot \notin Snapshot
  /\ MaxTicks \in Nat /\ MaxErrors \in Nat

\* namespace strategy; scores are in 1/(100 * Scale).
kExitScore           == 200 * 100
kMinBookImb          == 1500
kMinFlowImb          == 1500
kStopLossPct         == 15
kTakeProfitPct       == 30
kMaxEntrySpread      == 5
kSlowMomLongRegime   == 5
kSlowMomShortRegime  == -5
kEntryScore          == SignalThreshold * 100

Abs(x) == IF x < 0 THEN -x ELSE x

-----------------------------------------------------------------------------
(* Signals.  t is the TradingState, snap the MarketSnapshot.               *)

MomFast(t) == Momentum(t.ring, FastTicks)
MomSlow(t) == Momentum(t.ring, SlowTicks)

\* 0.40 * (0.6 fast + 0.4 slow) + 0.35 * book + 0.25 * flow
CompositeScore(t, snap) ==
  24 * MomFast(t) + 16 * MomSlow(t) + 35 * snap.book + 25 * snap.flow

UnrealizedReturnPct(t, mid) ==
  IF t.side = 0 \/ t.entryMid <= 0 THEN 0
  ELSE IF t.side > 0 THEN Change(mid, t.entryMid)
                     ELSE ((t.entryMid - mid) * Scale) \div t.entryMid

EntryLongOk(t, snap) ==
  /\ CompositeScore(t, snap) > kEntryScore
  /\ MomFast(t) > 0
  /\ MomSlow(t) > kSlowMomLongRegime
  /\ snap.book > kMinBookImb
  /\ snap.flow > kMinFlowImb

EntryShortOk(t, snap) ==
  /\ CompositeScore(t, snap) < -kEntryScore
  /\ MomFast(t) < 0
  /\ MomSlow(t) < kSlowMomShortRegime
  /\ snap.book < -kMinBookImb
  /\ snap.flow < -kMinFlowImb

\* Mutant: the regime rule is gone.
RegimeIgnored(t) == FALSE

\* The slow momentum has turned against the position: the first exit rule.
RegimeAgainst(t) ==
  \/ t.side = 1  /\ MomSlow(t) < kSlowMomShortRegime
  \/ t.side = -1 /\ MomSlow(t) > kSlowMomLongRegime

StopOrTarget(t, snap) ==
  LET ur == UnrealizedReturnPct(t, snap.mid)
  IN  ur <= -kStopLossPct \/ ur >= kTakeProfitPct

Fading(t, snap) ==
  \/ t.side = 1  /\ \/ CompositeScore(t, snap) < kExitScore
                    \/ MomSlow(t) < 0
                    \/ snap.book < 0
  \/ t.side = -1 /\ \/ CompositeScore(t, snap) > -kExitScore
                    \/ MomSlow(t) > 0
                    \/ snap.book > 0

\* The side a flat account would take.
EntrySide(t, snap) ==
  IF EntryLongOk(t, snap) THEN 1 ELSE IF EntryShortOk(t, snap) THEN -1 ELSE 0

\* An entry signal opposite to the position.
Opposite(t, snap) ==
  \/ t.side = 1  /\ EntryShortOk(t, snap)
  \/ t.side = -1 /\ EntryLongOk(t, snap)

\* computeDesiredSide, its rules in the order of the code.
DesiredSide(t, snap) ==
  IF t.side = 0
  THEN IF snap.spread > kMaxEntrySpread THEN 0 ELSE EntrySide(t, snap)
  ELSE IF RegimeAgainst(t) \/ StopOrTarget(t, snap) THEN 0
  ELSE IF Opposite(t, snap) THEN -t.side
  ELSE IF Fading(t, snap) THEN 0
  ELSE t.side

-----------------------------------------------------------------------------
(* The account.                                                            *)

Value(amount) == amount * FeeScale
Fee(notional) == Abs(notional) * FeeRate

\* Mutant: the fee leaves the cash and is not counted.
ChargeFeeUncounted(t, notional) == [t EXCEPT !.cash = @ - Fee(notional)]

ChargeFee(t, notional) ==
  [t EXCEPT !.cash = @ - Fee(notional), !.totalFees = @ + Fee(notional)]

\* Mutant: a long is affordable if its price is, fee apart.
CanAffordLegFeeForgotten(t, mid, side) ==
  LET notional == Abs(side * PositionSize * mid) IN
  \/ side = 0
  \/ side > 0 /\ t.cash >= Value(notional)
  \/ side < 0 /\ t.cash + Value(notional) >= Fee(notional)

CanAffordLeg(t, mid, side) ==
  LET notional == Abs(side * PositionSize * mid) IN
  \/ side = 0
  \/ side > 0 /\ t.cash >= Value(notional) + Fee(notional)
  \/ side < 0 /\ t.cash + Value(notional) >= Fee(notional)

\* min_hold_ticks: static_cast<int> of the setting.
MinHold ==
  LET low == MinHoldTicks % 2^IntBits
  IN  IF low < 2^(IntBits - 1) THEN low ELSE low - 2^IntBits

\* Mutant: a tick too early.
CanChangePositionEarly(t) == t.side = 0 \/ t.ticksInPosition + 1 >= MinHold

CanChangePosition(t) == t.side = 0 \/ t.ticksInPosition >= MinHold

MarkEquity(t, mid) == t.cash + Value(t.position * mid)

\* In percent, as it is printed, rounded down.
Drawdown(peak, equity) == ((peak - equity) * 100) \div peak

\* Mutant: only a new peak is recorded.
UpdateDrawdownPeakOnly(t, equity) ==
  [t EXCEPT !.peak = IF equity > @ THEN equity ELSE @]

UpdateDrawdown(t, equity) ==
  LET peak == IF equity > t.peak THEN equity ELSE t.peak IN
  [t EXCEPT !.peak = peak,
            !.maxDrawdown = IF peak > 0 /\ Drawdown(peak, equity) > @
                            THEN Drawdown(peak, equity) ELSE @]

\* last_trade_pnl > 0: the profit of the price less the fee of the closing leg.
Wins(t, mid) ==
  Value(t.position * (mid - t.entryMid)) - Fee(t.position * mid) > 0

\* Mutant: the quantity stays when the side is cleared.
ClosePositionHalf(t, mid) ==
  [ChargeFee([t EXCEPT !.cash = @ + Value(t.position * mid)], t.position * mid)
     EXCEPT !.side = 0,
            !.realizedPnl = @ + Value(t.position * (mid - t.entryMid))]

\* setPosition, the leg that closes ...
ClosePosition(t, mid) ==
  [ChargeFee([t EXCEPT !.cash = @ + Value(t.position * mid)], t.position * mid)
     EXCEPT !.position = 0,
            !.side = 0,
            !.realizedPnl = @ + Value(t.position * (mid - t.entryMid)),
            !.trades = @ + 1,
            !.winningTrades = @ + (IF Wins(t, mid) THEN 1 ELSE 0)]

\* ... the leg that opens ...
OpenPosition(t, side, mid) ==
  LET qty == side * PositionSize IN
  [ChargeFee([t EXCEPT !.cash = @ - Value(qty * mid)], qty * mid)
     EXCEPT !.position = qty,
            !.side = side,
            !.entryMid = mid,
            !.ticksInPosition = 0]

\* ... and the check that ends it.
CheckHalt(t, mid) ==
  IF MarkEquity(t, mid) <= 0 THEN [t EXCEPT !.halted = TRUE] ELSE t

SetPosition(t, target, mid) ==
  IF target = t.side THEN t
  ELSE LET closed == IF t.side # 0 THEN ClosePosition(t, mid) ELSE t
           opened == IF target # 0 THEN OpenPosition(closed, target, mid)
                                   ELSE closed
       IN  CheckHalt(UpdateDrawdown(opened, MarkEquity(opened, mid)), mid)

FinalizePosition(t, mid) == IF t.side # 0 THEN SetPosition(t, 0, mid) ELSE t

-----------------------------------------------------------------------------
(* runStrategy                                                             *)

\* Close as soon as the position may be changed.
CloseIfAllowed(t, mid) ==
  IF CanChangePosition(t) THEN SetPosition(t, 0, mid) ELSE t

Hold(t) == IF t.side # 0 THEN [t EXCEPT !.ticksInPosition = @ + 1] ELSE t

EnterQueued(t, snap) ==
  IF t.side = 0 /\ t.queued # 0
  THEN [(IF snap.spread <= kMaxEntrySpread /\ CanAffordLeg(t, snap.mid, t.queued)
         THEN SetPosition(t, t.queued, snap.mid) ELSE t) EXCEPT !.queued = 0]
  ELSE t

\* "Opposite signal: close first, enter on next tick (queued_side)".
Flip(t, desired, mid) ==
  IF CanChangePosition(t)
  THEN [SetPosition(t, 0, mid) EXCEPT !.queued = desired] ELSE t

\* Mutant: entry signals go first, and an opposite one flips the position.
ActEntryFirst(t, snap) ==
  LET desired == IF EntrySide(t, snap) # 0 THEN EntrySide(t, snap)
                                           ELSE DesiredSide(t, snap)
  IN  IF CanChangePosition(t) /\ CanAffordLeg(t, snap.mid, desired)
      THEN SetPosition(t, desired, snap.mid) ELSE t

Act(t, snap) ==
  LET desired == DesiredSide(t, snap) IN
  IF desired = 0 THEN CloseIfAllowed([t EXCEPT !.queued = 0], snap.mid)
  ELSE IF desired = t.side THEN [t EXCEPT !.queued = 0]
  ELSE IF t.side # 0 THEN Flip(t, desired, snap.mid)
  ELSE IF CanAffordLeg(t, snap.mid, desired)
       THEN [SetPosition(t, desired, snap.mid) EXCEPT !.queued = 0]
  ELSE t

Trade(t, snap) ==
  LET seen == UpdateDrawdown([t EXCEPT !.ring = PushMid(@, snap.mid)],
                             MarkEquity(t, snap.mid))
  IN
  IF snap.spread > MaxSpread THEN seen ELSE Act(EnterQueued(seen, snap), snap)

\* Mutant: the halt flag is set and never read.
RunStrategyUnhalted(t, snap) ==
  IF snap.mid <= 0 THEN t ELSE Trade(Hold(t), snap)

RunStrategy(t, snap) ==
  IF snap.mid <= 0 THEN t
  ELSE IF t.halted THEN IF t.side # 0 THEN CloseIfAllowed(Hold(t), snap.mid) ELSE t
  ELSE Trade(Hold(t), snap)

-----------------------------------------------------------------------------
VARIABLES
  phase,        \* of the connection: "connecting", "connected", "closed"
  trading,      \* trading_
  latest,       \* latest_
  tickCount,    \* stats_.tick_count
  errorCount,   \* stats_.error_count
  report,       \* the figures of the last printTradingReport
  received,     \* history: updates received
  reported,     \* history: sum of the tick counts of the reports
  entryTick,    \* history: received when the open position was entered
  mids          \* history: the last mids of this replay, as many as the ring has

vars == <<phase, trading, latest, tickCount, errorCount, report, received,
          reported, entryTick, mids>>

\* resetTrading: trading_ = TradingState{}, then loadConfig.
FreshTrading ==
  [cash |-> Value(InitialCash), position |-> 0, side |-> 0, entryMid |-> 0,
   ticksInPosition |-> 0, queued |-> 0, halted |-> FALSE, realizedPnl |-> 0,
   totalFees |-> 0, peak |-> Value(InitialCash), maxDrawdown |-> 0,
   trades |-> 0, winningTrades |-> 0, ring |-> EmptyRing]

\* Net PnL, the line "Net PnL (gross-fees)", the open position, trades, maximum
\* drawdown and ticks; the peak is not printed, it is kept as history.
Report(t, mid) ==
  [netPnl |-> MarkEquity(t, mid) - Value(InitialCash),
   grossMinusFees |-> t.realizedPnl - t.totalFees,
   side |-> t.side,
   trades |-> t.trades,
   winningTrades |-> t.winningTrades,
   peak |-> t.peak,
   maxDrawdown |-> t.maxDrawdown,
   ticks |-> tickCount]

NoReport ==
  [netPnl |-> 0, grossMinusFees |-> 0, side |-> 0, trades |-> 0,
   winningTrades |-> 0, peak |-> Value(InitialCash), maxDrawdown |-> 0, ticks |-> 0]

Init ==
  /\ phase = "connecting"
  /\ trading = FreshTrading
  /\ latest = NoSnapshot
  /\ tickCount = 0
  /\ errorCount = 0
  /\ report = NoReport
  /\ received = 0
  /\ reported = 0
  /\ entryTick = 0
  /\ mids = <<>>

\* resetSession
OnConnected ==
  /\ phase = "connecting"
  /\ phase' = "connected"
  /\ trading' = FreshTrading
  /\ latest' = NoSnapshot
  /\ tickCount' = 0
  /\ errorCount' = 0
  /\ mids' = <<>>
  /\ UNCHANGED <<report, received, reported, entryTick>>

\* The newest prices of s, as many as the ring holds.
Latest(s) == IF Len(s) > Window THEN Tail(s) ELSE s

OnMarketUpdate(snap) ==
  /\ phase = "connected"
  /\ received < MaxTicks
  /\ latest' = snap
  /\ tickCount' = tickCount + 1
  /\ trading' = RunStrategy(trading, snap)
  /\ received' = received + 1
  /\ entryTick' = IF trading.side = 0 /\ trading'.side # 0 THEN received'
                  ELSE entryTick
  /\ mids' = IF snap.mid > 0 /\ ~trading.halted THEN Latest(Append(mids, snap.mid))
             ELSE mids
  /\ UNCHANGED <<phase, errorCount, report, reported>>

\* Mutant: the report is printed before the position is closed.
FinalTradingOpen == trading

\* finalizePosition(latest_->midpoint) if there is a latest_.
FinalTrading ==
  IF latest = NoSnapshot THEN trading ELSE FinalizePosition(trading, latest.mid)

LatestMid == IF latest = NoSnapshot THEN 0 ELSE latest.mid

\* Mutant: tick_count goes on into the next replay.
OnReplayDoneCountKept ==
  /\ phase = "connected"
  /\ report' = Report(FinalTrading, LatestMid)
  /\ reported' = reported + tickCount
  /\ trading' = FreshTrading
  /\ entryTick' = 0
  /\ mids' = <<>>
  /\ UNCHANGED <<phase, latest, tickCount, errorCount, received>>

OnReplayDone ==
  /\ phase = "connected"
  /\ report' = Report(FinalTrading, LatestMid)
  /\ reported' = reported + tickCount
  /\ tickCount' = 0
  /\ trading' = FreshTrading
  /\ entryTick' = 0
  /\ mids' = <<>>
  /\ UNCHANGED <<phase, latest, errorCount, received>>

OnError ==
  /\ phase # "closed"
  /\ errorCount < MaxErrors
  /\ errorCount' = errorCount + 1
  /\ UNCHANGED <<phase, trading, latest, tickCount, report, received, reported,
                 entryTick, mids>>

\* At the end of MarketClient::run, whatever ended it.
OnDisconnected ==
  /\ phase # "closed"
  /\ phase' = "closed"
  /\ trading' = FinalTrading
  /\ IF tickCount > 0
     THEN /\ report' = Report(FinalTrading, LatestMid)
          /\ reported' = reported + tickCount
     ELSE UNCHANGED <<report, reported>>
  /\ UNCHANGED <<latest, tickCount, errorCount, received, entryTick, mids>>

\* main() returns after run().
Terminated == phase = "closed" /\ UNCHANGED vars

Next ==
  \/ OnConnected
  \/ \E snap \in Snapshots : OnMarketUpdate(snap)
  \/ OnReplayDone
  \/ OnError
  \/ OnDisconnected
  \/ Terminated

Spec == Init /\ [][Next]_vars

-----------------------------------------------------------------------------
Sides == {-1, 0, 1}

Rings == [slot : [Slots -> Nat], head : Slots, count : 0 .. Window]

TradingState ==
  [cash : Int, position : Int, side : Sides, entryMid : Nat,
   ticksInPosition : Nat, queued : Sides, halted : BOOLEAN, realizedPnl : Int,
   totalFees : Nat, peak : Int, maxDrawdown : Int, trades : Nat,
   winningTrades : Nat, ring : Rings]

Reports ==
  [netPnl : Int, grossMinusFees : Int, side : Sides, trades : Nat,
   winningTrades : Nat, peak : Int, maxDrawdown : Int, ticks : Nat]

\* Every member has a value of its type, and the position is the one the side
\* stands for.
TypeOK ==
  /\ phase \in {"connecting", "connected", "closed"}
  /\ trading \in TradingState
  /\ trading.position = trading.side * PositionSize
  /\ latest \in Snapshots \cup {NoSnapshot}
  /\ tickCount \in Nat
  /\ errorCount \in 0 .. MaxErrors
  /\ report \in Reports
  /\ received \in 0 .. MaxTicks
  /\ reported \in Nat
  /\ entryTick \in Nat
  /\ mids \in Seq(Nat) /\ Len(mids) <= Window

\* The books balance at every tick, through any sequence of legs: the cash and
\* the open position at its entry price are worth the initial cash plus the
\* gross result of the trades closed, less every fee charged.
BooksBalance ==
  trading.cash + Value(trading.position * trading.entryMid)
    = Value(InitialCash) + trading.realizedPnl - trading.totalFees

\* The account never borrows: an open position was paid for in full, fees
\* included, and an account that is flat and still trading has money left.
Solvent ==
  /\ trading.side # 0 => trading.cash >= 0
  /\ trading.side = 0 /\ ~trading.halted => trading.cash > 0

\* The report is of a closed account, and its two lines for the net result,
\* one from the equity and one from the trades less the fees, agree: README
\* 180 and 182, fees on each leg, PnL at the end of each replay.
ReportReconciles ==
  report.side = 0 /\ report.netPnl = report.grossMinusFees

\* The maximum drawdown of a report covers the loss it reports, measured from
\* the highest equity of its replay: every path that changes the equity, through
\* a halt or a last forced close too, is seen by updateDrawdown.
DrawdownCoversLoss ==
  report.maxDrawdown >= Drawdown(report.peak, Value(InitialCash) + report.netPnl)

\* The price pushed k pushes ago, 1 for the newest.
Ago(k) == mids[Len(mids) + 1 - k]

\* However often the ring has wrapped and been reset, its k-th slot behind the
\* head holds the price pushed k pushes ago, for as many prices as there have
\* been in this replay, and it knows how many that are.
RingHoldsLatest ==
  /\ trading.ring.count = Len(mids)
  /\ \A k \in 1 .. Len(mids) : MidAt(trading.ring, k) = Ago(k)

\* README 160 and 164, one row per second, momenta of 5s and 30s: a momentum of
\* L ticks compares the newest price with the one L ticks before it.
MomentumSpansLookback ==
  \A lookback \in {FastTicks, SlowTicks} :
    Len(mids) > lookback =>
      Momentum(trading.ring, lookback) = Change(Ago(1), Ago(lookback + 1))

\* Every update is in the report of exactly one replay, whether the replay
\* ended or the connection did.
EveryTickReported ==
  received = IF phase = "closed" THEN reported ELSE reported + tickCount

\* README 170, 172, 173: a position is entered only on a tick whose own
\* signals all agree with its direction, spread and regime included, whether
\* it is entered at once or from the queue.
EntriesAgree ==
  [][trading.side = 0 /\ trading'.side # 0 =>
       /\ latest'.spread <= kMaxEntrySpread
       /\ trading'.side = EntrySide(trading', latest')]_vars

\* README 179: a flip between long and short has a flat tick in between.
FlipViaFlat ==
  [][trading.side # 0 => trading'.side \in {trading.side, 0}]_vars

\* README 150: no rule, stop loss included, ends a position before it is
\* MinHoldTicks old; only the end of the replay or of the connection does.
MinimumHold ==
  [][trading.side # 0 /\ trading'.side = 0 /\ received' # received =>
       received' - entryTick >= MinHoldTicks]_vars

\* Once the equity is gone the session enters nothing any more, however the
\* market recovers.
HaltIsFinal ==
  [][trading.halted /\ received' # received =>
       trading'.halted /\ trading'.side \in {trading.side, 0}]_vars

\* The flip rule of computeDesiredSide comes after the regime rule, and an
\* opposite entry signal needs the regime that rule closes on: nothing is
\* ever queued.
NeverQueued == trading.queued = 0
=============================================================================
