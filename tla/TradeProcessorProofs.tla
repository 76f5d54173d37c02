------------------------ MODULE TradeProcessorProofs ------------------------
(***************************************************************************)
(* Proofs about the paper-trading account of TradeProcessor, for every     *)
(* market, fee rate, position size, window and setting of the strategy.    *)
(***************************************************************************)
EXTENDS TradeProcessor, MidRingProofs, TLAPS

Balanced(t) ==
  t.cash + Value(t.position * t.entryMid)
    = Value(InitialCash) + t.realizedPnl - t.totalFees

Funded(t) ==
  /\ t.side # 0 => t.cash >= 0
  /\ t.side = 0 /\ ~t.halted => t.cash > 0

\* What every operation on the account keeps.
Account(t) ==
  /\ t \in TradingState
  /\ t.position = t.side * PositionSize
  /\ Balanced(t)
  /\ Funded(t)

-----------------------------------------------------------------------------
(* Arithmetic.                                                             *)

LEMMA AmountType ==
  ASSUME NEW n \in Int
  PROVE  Value(n) \in Int /\ Fee(n) \in Nat
<1>1. Abs(n) \in Nat
  BY DEF Abs
<1> QED
  BY <1>1, TradeAssumption DEF Value, Fee

LEMMA ValueSplits ==
  ASSUME NEW a \in Int, NEW b \in Int, NEW c \in Int
  PROVE  Value(a * (b - c)) = Value(a * b) - Value(a * c)
<1>1. a * (b - c) = a * b - a * c /\ a * b \in Int /\ a * c \in Int
  OBVIOUS
<1>2. \A x, y \in Int : (x - y) * FeeScale = x * FeeScale - y * FeeScale
  BY TradeAssumption
<1> QED
  BY <1>1, <1>2 DEF Value

LEMMA ValueNegates ==
  ASSUME NEW n \in Nat
  PROVE  Value(-n) = -Value(n) /\ Value(n) \in Nat /\ Abs(-n) = n /\ Abs(n) = n
BY TradeAssumption DEF Value, Abs

LEMMA ValueZero == Value(0) = 0
BY TradeAssumption DEF Value

-----------------------------------------------------------------------------
(* The operations on the account.                                          *)

\* Closing at any price, even a worthless one, keeps the books.
LEMMA CloseAccount ==
  ASSUME NEW t, Account(t), NEW mid \in Int
  PROVE  LET u == ClosePosition(t, mid) IN
         /\ u \in TradingState
         /\ u.side = 0 /\ u.position = 0
         /\ Balanced(u)
         /\ u.halted = t.halted /\ u.queued = t.queued /\ u.ring = t.ring
<1> DEFINE N == t.position * mid
           E == t.position * t.entryMid
           W == t.winningTrades + (IF Wins(t, mid) THEN 1 ELSE 0)
           u == ClosePosition(t, mid)
<1>1. /\ t \in TradingState
      /\ t.position \in Int /\ t.entryMid \in Nat /\ t.cash \in Int
      /\ t.realizedPnl \in Int /\ t.totalFees \in Nat
      /\ t.trades \in Nat /\ t.winningTrades \in Nat
  BY DEF Account, TradingState
<1>2. N \in Int /\ E \in Int
  BY <1>1
<1>3. Value(N) \in Int /\ Fee(N) \in Nat /\ Value(E) \in Int
  BY <1>2, AmountType
<1>4. Value(t.position * (mid - t.entryMid)) = Value(N) - Value(E)
  BY <1>1, ValueSplits
<1>a. t.position * mid = N
  OBVIOUS
<1>b. W \in Nat
  BY <1>1
<1> HIDE DEF N, E
<1>5. u = [t EXCEPT !.cash = (t.cash + Value(N)) - Fee(N),
                    !.totalFees = t.totalFees + Fee(N),
                    !.position = 0,
                    !.side = 0,
                    !.realizedPnl = t.realizedPnl + (Value(N) - Value(E)),
                    !.trades = t.trades + 1,
                    !.winningTrades = W]
  <2> DEFINE win == IF Wins(t, mid) THEN 1 ELSE 0
  <2>1. u = [ChargeFee([t EXCEPT !.cash = @ + Value(N)], N)
               EXCEPT !.position = 0,
                      !.side = 0,
                      !.realizedPnl = @ + (Value(N) - Value(E)),
                      !.trades = @ + 1,
                      !.winningTrades = @ + win]
    BY <1>4, <1>a DEF ClosePosition
  <2>2. ChargeFee([t EXCEPT !.cash = @ + Value(N)], N)
          = [t EXCEPT !.cash = (t.cash + Value(N)) - Fee(N),
                      !.totalFees = t.totalFees + Fee(N)]
    BY <1>1 DEF ChargeFee, TradingState
  <2>3. W = t.winningTrades + win
    OBVIOUS
  <2> HIDE DEF win, W
  <2> QED
    BY <1>1, <2>1, <2>2, <2>3 DEF TradingState
<1> HIDE DEF W
<1>6. u \in TradingState
  <2>1. /\ (t.cash + Value(N)) - Fee(N) \in Int
        /\ t.totalFees + Fee(N) \in Nat
        /\ t.realizedPnl + (Value(N) - Value(E)) \in Int
        /\ t.trades + 1 \in Nat /\ W \in Nat
        /\ 0 \in Sides /\ 0 \in Int
    BY <1>1, <1>3, <1>b DEF Sides
  <2> QED
    BY <1>1, <1>5, <2>1 DEF TradingState
<1>7. /\ u.cash = (t.cash + Value(N)) - Fee(N)
      /\ u.totalFees = t.totalFees + Fee(N)
      /\ u.realizedPnl = t.realizedPnl + (Value(N) - Value(E))
      /\ u.side = 0 /\ u.position = 0 /\ u.entryMid = t.entryMid
      /\ u.halted = t.halted /\ u.queued = t.queued /\ u.ring = t.ring
  BY <1>1, <1>5 DEF TradingState
<1>8. t.cash + Value(E) = Value(InitialCash) + t.realizedPnl - t.totalFees
  BY DEF Account, Balanced, E
<1>9. Value(InitialCash) \in Int
  BY AmountType, TradeAssumption
<1> HIDE DEF u
<1>10. u.cash + 0 = Value(InitialCash) + u.realizedPnl - u.totalFees
  BY <1>1, <1>3, <1>7, <1>8, <1>9
<1>11. Value(u.position * u.entryMid) = 0
  BY <1>1, <1>7, ValueZero
<1>12. Balanced(u)
  BY <1>10, <1>11 DEF Balanced
<1> QED
  BY <1>6, <1>7, <1>12 DEF u

\* A leg that canAffordLeg has let through is paid for, fee included.
LEMMA OpenAccount ==
  ASSUME NEW t, Account(t), t.side = 0, NEW side \in {-1, 1},
         NEW mid \in Nat \ {0}, CanAffordLeg(t, mid, side)
  PROVE  LET u == OpenPosition(t, side, mid) IN
         /\ u \in TradingState
         /\ u.side = side /\ u.position = side * PositionSize
         /\ Balanced(u)
         /\ u.cash >= 0
         /\ u.halted = t.halted /\ u.queued = t.queued /\ u.ring = t.ring
<1> DEFINE N == side * PositionSize * mid
           M == PositionSize * mid
           u == OpenPosition(t, side, mid)
<1>1. /\ t \in TradingState
      /\ t.cash \in Int /\ t.realizedPnl \in Int /\ t.totalFees \in Nat
      /\ t.position = 0 /\ t.entryMid \in Nat
  BY TradeAssumption DEF Account, TradingState
<1>2. M \in Nat /\ (side = 1 => N = M) /\ (side = -1 => N = -M)
  BY TradeAssumption
<1>3. N \in Int
  BY <1>2
<1>4. Value(N) \in Int /\ Fee(N) \in Nat
  BY <1>3, AmountType
<1> HIDE DEF M
<1>5. t.cash - Value(N) - Fee(N) >= 0
  <2>1. Value(M) \in Nat /\ Value(-M) = -Value(M) /\ Abs(-M) = M /\ Abs(M) = M
    BY <1>2, ValueNegates
  <2>2. CASE side = 1
    BY <2>1, <2>2, <1>1, <1>2, <1>4 DEF CanAffordLeg, Fee
  <2>3. CASE side = -1
    BY <2>1, <2>3, <1>1, <1>2, <1>4 DEF CanAffordLeg, Fee
  <2> QED
    BY <2>2, <2>3
<1>6. (side * PositionSize) * mid = N /\ side * PositionSize \in Int
  BY TradeAssumption
<1> HIDE DEF N
<1>7. u = [t EXCEPT !.cash = t.cash - Value(N) - Fee(N),
                    !.totalFees = t.totalFees + Fee(N),
                    !.position = side * PositionSize,
                    !.side = side,
                    !.entryMid = mid,
                    !.ticksInPosition = 0]
  BY <1>1, <1>6 DEF OpenPosition, ChargeFee, TradingState
<1>8. u \in TradingState
  <2>1. /\ t.cash - Value(N) - Fee(N) \in Int
        /\ t.totalFees + Fee(N) \in Nat
        /\ side \in Sides /\ mid \in Nat /\ 0 \in Nat
    BY <1>1, <1>4 DEF Sides
  <2> QED
    BY <1>1, <1>6, <1>7, <2>1 DEF TradingState
<1>9. /\ u.cash = t.cash - Value(N) - Fee(N)
      /\ u.totalFees = t.totalFees + Fee(N)
      /\ u.realizedPnl = t.realizedPnl
      /\ u.side = side /\ u.position = side * PositionSize /\ u.entryMid = mid
      /\ u.halted = t.halted /\ u.queued = t.queued /\ u.ring = t.ring
  BY <1>1, <1>7 DEF TradingState
<1>10. t.cash = Value(InitialCash) + t.realizedPnl - t.totalFees
  <2>1. Value(t.position * t.entryMid) = 0
    BY <1>1, ValueZero
  <2> QED
    BY <2>1, <1>1 DEF Account, Balanced
<1>11. Value(InitialCash) \in Int
  BY AmountType, TradeAssumption
<1>12. u.cash + Value(N) = Value(InitialCash) + u.realizedPnl - u.totalFees
  BY <1>1, <1>4, <1>9, <1>10, <1>11
<1> HIDE DEF u
<1>13. Balanced(u)
  BY <1>6, <1>9, <1>12 DEF Balanced
<1> QED
  BY <1>5, <1>8, <1>9, <1>13 DEF u

\* updateDrawdown keeps statistics and leaves the account alone.
LEMMA UpdateDrawdownAccount ==
  ASSUME NEW t \in TradingState, NEW equity \in Int
  PROVE  LET u == UpdateDrawdown(t, equity) IN
         /\ u \in TradingState
         /\ u.cash = t.cash /\ u.position = t.position /\ u.side = t.side
         /\ u.entryMid = t.entryMid /\ u.halted = t.halted
         /\ u.realizedPnl = t.realizedPnl /\ u.totalFees = t.totalFees
         /\ u.queued = t.queued /\ u.ring = t.ring
<1> DEFINE peak == IF equity > t.peak THEN equity ELSE t.peak
           worst == IF peak > 0 /\ Drawdown(peak, equity) > t.maxDrawdown
                    THEN Drawdown(peak, equity) ELSE t.maxDrawdown
<1>1. t.peak \in Int /\ t.maxDrawdown \in Int
  BY DEF TradingState
<1>2. peak \in Int
  BY <1>1
<1>3. ASSUME NEW d \in Int, d > 0 PROVE Drawdown(d, equity) \in Int
  BY <1>3 DEF Drawdown
<1>4. UpdateDrawdown(t, equity) = [t EXCEPT !.peak = peak, !.maxDrawdown = worst]
  BY DEF UpdateDrawdown, TradingState
<1> HIDE DEF peak
<1>5. worst \in Int
  BY <1>1, <1>2, <1>3
<1> HIDE DEF worst
<1> QED
  BY <1>2, <1>4, <1>5 DEF TradingState

LEMMA MarkEquityType ==
  ASSUME NEW t \in TradingState, NEW mid \in Int
  PROVE  MarkEquity(t, mid) \in Int
<1>1. t.cash \in Int /\ t.position * mid \in Int
  BY DEF TradingState
<1> QED
  BY <1>1, AmountType DEF MarkEquity

\* The halt check makes good what a leg may have broken: an account left flat
\* without money is halted.
LEMMA CheckHaltAccount ==
  ASSUME NEW t \in TradingState, t.position = t.side * PositionSize, Balanced(t),
         t.side # 0 => t.cash >= 0, NEW mid \in Int
  PROVE  LET u == CheckHalt(t, mid) IN
         /\ Account(u)
         /\ u.side = t.side /\ u.queued = t.queued /\ u.ring = t.ring
         /\ t.halted => u.halted
<1> DEFINE u == CheckHalt(t, mid)
<1>1. /\ t.cash \in Int /\ t.position \in Int /\ t.halted \in BOOLEAN
      /\ t.side = 0 => t.position = 0
  BY TradeAssumption DEF TradingState
<1>2. CASE MarkEquity(t, mid) <= 0
  <2>1. u = [t EXCEPT !.halted = TRUE]
    BY <1>2 DEF CheckHalt
  <2>2. /\ u \in TradingState
        /\ u.halted = TRUE
        /\ u.cash = t.cash /\ u.side = t.side /\ u.position = t.position
        /\ u.entryMid = t.entryMid /\ u.realizedPnl = t.realizedPnl
        /\ u.totalFees = t.totalFees /\ u.queued = t.queued /\ u.ring = t.ring
    BY <2>1 DEF TradingState
  <2> HIDE DEF u
  <2>3. Account(u)
    BY <2>2 DEF Account, Balanced, Funded
  <2> QED
    BY <2>2, <2>3 DEF u
<1>3. CASE ~(MarkEquity(t, mid) <= 0)
  <2>1. u = t
    BY <1>3 DEF CheckHalt
  <2>2. t.side = 0 => t.cash > 0
    <3>1. SUFFICES ASSUME t.side = 0 PROVE t.cash > 0
      OBVIOUS
    <3>2. t.position * mid = 0
      BY <1>1, <3>1
    <3>3. MarkEquity(t, mid) = t.cash + 0
      BY <3>2, ValueZero DEF MarkEquity
    <3> QED
      BY <1>1, <1>3, <3>3
  <2>3. Account(t)
    BY <2>2 DEF Account, Funded
  <2> QED
    BY <2>1, <2>3
<1> QED
  BY <1>2, <1>3

LEMMA CloseSetPosition ==
  ASSUME NEW t, Account(t), NEW mid \in Int
  PROVE  LET u == SetPosition(t, 0, mid) IN
         /\ Account(u)
         /\ u.side = 0 /\ u.queued = t.queued /\ u.ring = t.ring
         /\ t.halted => u.halted
<1>1. CASE t.side = 0
  BY <1>1 DEF SetPosition
<1>2. CASE t.side # 0
  <2> DEFINE c == ClosePosition(t, mid)
           d == UpdateDrawdown(c, MarkEquity(c, mid))
  <2>1. SetPosition(t, 0, mid) = CheckHalt(d, mid)
    BY <1>2 DEF SetPosition
  <2>2. /\ c \in TradingState
        /\ c.side = 0 /\ c.position = 0
        /\ Balanced(c)
        /\ c.halted = t.halted /\ c.queued = t.queued /\ c.ring = t.ring
    BY CloseAccount
  <2> HIDE DEF c
  <2>3. /\ d \in TradingState
        /\ d.side = 0 /\ d.position = 0
        /\ d.halted = t.halted /\ d.queued = t.queued /\ d.ring = t.ring
        /\ d.cash = c.cash /\ d.entryMid = c.entryMid
        /\ d.realizedPnl = c.realizedPnl /\ d.totalFees = c.totalFees
    <3>1. c \in TradingState
      BY <2>2
    <3>2. MarkEquity(c, mid) \in Int
      BY <3>1, MarkEquityType
    <3>3. /\ d \in TradingState
          /\ d.cash = c.cash /\ d.position = c.position /\ d.side = c.side
          /\ d.entryMid = c.entryMid /\ d.halted = c.halted
          /\ d.realizedPnl = c.realizedPnl /\ d.totalFees = c.totalFees
          /\ d.queued = c.queued /\ d.ring = c.ring
      BY <3>1, <3>2, UpdateDrawdownAccount
    <3> HIDE DEF d
    <3> QED
      BY <2>2, <3>3
  <2> HIDE DEF d
  <2>4. d.position = d.side * PositionSize
    BY <2>3, TradeAssumption
  <2>5. Balanced(d)
    BY <2>2, <2>3 DEF Balanced
  <2> QED
    BY <2>1, <2>3, <2>4, <2>5, CheckHaltAccount
<1> QED
  BY <1>1, <1>2

LEMMA OpenSetPosition ==
  ASSUME NEW t, Account(t), t.side = 0, NEW side \in {-1, 1},
         NEW mid \in Nat \ {0}, CanAffordLeg(t, mid, side)
  PROVE  LET u == SetPosition(t, side, mid) IN
         /\ Account(u)
         /\ u.side = side /\ u.queued = t.queued /\ u.ring = t.ring
         /\ t.halted => u.halted
<1> DEFINE o == OpenPosition(t, side, mid)
           d == UpdateDrawdown(o, MarkEquity(o, mid))
<1>1. SetPosition(t, side, mid) = CheckHalt(d, mid)
  BY DEF SetPosition
<1>2. /\ o \in TradingState
      /\ o.side = side /\ o.position = side * PositionSize
      /\ Balanced(o)
      /\ o.cash >= 0
      /\ o.halted = t.halted /\ o.queued = t.queued /\ o.ring = t.ring
  BY OpenAccount
<1> HIDE DEF o
<1>3. /\ d \in TradingState
      /\ d.side = side /\ d.position = side * PositionSize
      /\ d.cash >= 0
      /\ d.halted = t.halted /\ d.queued = t.queued /\ d.ring = t.ring
      /\ d.cash = o.cash /\ d.entryMid = o.entryMid
      /\ d.realizedPnl = o.realizedPnl /\ d.totalFees = o.totalFees
  <2>1. o \in TradingState
    BY <1>2
  <2>2. mid \in Int
    OBVIOUS
  <2>3. MarkEquity(o, mid) \in Int
    BY <2>1, <2>2, MarkEquityType
  <2>4. /\ d \in TradingState
        /\ d.cash = o.cash /\ d.position = o.position /\ d.side = o.side
        /\ d.entryMid = o.entryMid /\ d.halted = o.halted
        /\ d.realizedPnl = o.realizedPnl /\ d.totalFees = o.totalFees
        /\ d.queued = o.queued /\ d.ring = o.ring
    BY <2>1, <2>3, UpdateDrawdownAccount
  <2> HIDE DEF d
  <2> QED
    BY <1>2, <2>4
<1> HIDE DEF d
<1>4. Balanced(d)
  BY <1>2, <1>3 DEF Balanced
<1> QED
  BY <1>1, <1>3, <1>4, CheckHaltAccount

\* Members that are not part of the account may change under it.
LEMMA AccountFrame ==
  ASSUME NEW t, Account(t), NEW u \in TradingState,
         u.cash = t.cash, u.position = t.position, u.side = t.side,
         u.entryMid = t.entryMid, u.halted = t.halted,
         u.realizedPnl = t.realizedPnl, u.totalFees = t.totalFees
  PROVE  Account(u)
BY DEF Account, Balanced, Funded

LEMMA PushMidType ==
  ASSUME NEW r \in Rings, NEW mid \in Nat
  PROVE  PushMid(r, mid) \in Rings
<1>1. /\ r.head \in Slots /\ r.count \in 0 .. Window
      /\ r.slot \in [Slots -> Nat]
      /\ Window \in Nat \ {0}
  BY WindowAssumption DEF Rings
<1>2. (r.head + 1) % Window \in Slots
  BY <1>1 DEF Slots
<1>3. (IF r.count < Window THEN r.count + 1 ELSE Window) \in 0 .. Window
  BY <1>1
<1>4. [r.slot EXCEPT ![r.head] = mid] \in [Slots -> Nat]
  BY <1>1
<1> QED
  BY <1>2, <1>3, <1>4 DEF PushMid, Rings

-----------------------------------------------------------------------------
(* The strategy.                                                           *)

\* The flip is unreachable: an opposite entry signal needs the slow momentum
\* beyond the very threshold that has already closed the position.
LEMMA OppositeNeedsRegime ==
  ASSUME NEW t, NEW snap, Opposite(t, snap)
  PROVE  RegimeAgainst(t)
BY DEF Opposite, RegimeAgainst, EntryLongOk, EntryShortOk

LEMMA DesiredSideHeld ==
  ASSUME NEW t, NEW snap, t.side \in {-1, 1}
  PROVE  DesiredSide(t, snap) \in {0, t.side}
BY OppositeNeedsRegime DEF DesiredSide

LEMMA DesiredSideFlat ==
  ASSUME NEW t, NEW snap, t.side = 0
  PROVE  /\ DesiredSide(t, snap) \in {-1, 0, 1}
         /\ DesiredSide(t, snap) # 0 =>
              /\ DesiredSide(t, snap) = EntrySide(t, snap)
              /\ ~(snap.spread > kMaxEntrySpread)
BY DEF DesiredSide, EntrySide

\* Entry signals read the ring and the snapshot, nothing else.
LEMMA EntrySideOfRing ==
  ASSUME NEW t, NEW u, NEW snap, t.ring = u.ring
  PROVE  EntrySide(t, snap) = EntrySide(u, snap)
BY DEF EntrySide, EntryLongOk, EntryShortOk, CompositeScore, MomFast, MomSlow

\* What one tick may do to an account with nothing queued.
TickOK(t, u, snap) ==
  /\ Account(u)
  /\ u.queued = 0
  /\ t.side # 0 => u.side \in {t.side, 0}
  /\ t.halted => u.halted /\ u.side \in {t.side, 0}
  /\ t.side = 0 /\ u.side # 0 =>
       /\ snap.spread <= kMaxEntrySpread
       /\ u.side = EntrySide(u, snap)

LEMMA HoldAccount ==
  ASSUME NEW t, Account(t)
  PROVE  /\ Account(Hold(t))
         /\ Hold(t).side = t.side /\ Hold(t).halted = t.halted
         /\ Hold(t).queued = t.queued /\ Hold(t).ring = t.ring
<1>1. CASE t.side = 0
  BY <1>1 DEF Hold
<1>2. CASE t.side # 0
  <2> DEFINE u == [t EXCEPT !.ticksInPosition = @ + 1]
  <2>1. /\ Hold(t) = u
        /\ u \in TradingState
        /\ u.cash = t.cash /\ u.position = t.position /\ u.side = t.side
        /\ u.entryMid = t.entryMid /\ u.halted = t.halted
        /\ u.realizedPnl = t.realizedPnl /\ u.totalFees = t.totalFees
        /\ u.queued = t.queued /\ u.ring = t.ring
    BY <1>2 DEF Hold, Account, TradingState
  <2> HIDE DEF u
  <2> QED
    BY <2>1, AccountFrame
<1> QED
  BY <1>1, <1>2

LEMMA CloseIfAllowedAccount ==
  ASSUME NEW t, Account(t), NEW mid \in Int
  PROVE  LET u == CloseIfAllowed(t, mid) IN
         /\ Account(u)
         /\ u.side \in {t.side, 0} /\ u.queued = t.queued /\ u.ring = t.ring
         /\ t.halted => u.halted
BY CloseSetPosition DEF CloseIfAllowed

LEMMA ClearQueue ==
  ASSUME NEW t, Account(t), NEW side \in Sides
  PROVE  LET u == [t EXCEPT !.queued = side] IN
         /\ Account(u)
         /\ u.side = t.side /\ u.halted = t.halted /\ u.ring = t.ring
         /\ u.queued = side
<1> DEFINE u == [t EXCEPT !.queued = side]
<1>1. /\ u \in TradingState
      /\ u.cash = t.cash /\ u.position = t.position /\ u.side = t.side
      /\ u.entryMid = t.entryMid /\ u.halted = t.halted
      /\ u.realizedPnl = t.realizedPnl /\ u.totalFees = t.totalFees
      /\ u.queued = side /\ u.ring = t.ring
  BY DEF Account, TradingState
<1> HIDE DEF u
<1>2. Account(u)
  BY <1>1, AccountFrame
<1> QED
  BY <1>1, <1>2 DEF u

LEMMA ActTick ==
  ASSUME NEW t, Account(t), t.queued = 0, ~t.halted,
         NEW snap \in Snapshot, snap.mid > 0
  PROVE  TickOK(t, Act(t, snap), snap) /\ Act(t, snap).ring = t.ring
<1> DEFINE desired == DesiredSide(t, snap)
           z == [t EXCEPT !.queued = 0]
<1>1. snap.mid \in Nat \ {0} /\ snap.spread \in Int /\ kMaxEntrySpread \in Int
  BY DEF Snapshot, kMaxEntrySpread
<1>2. t.side \in {-1, 0, 1} /\ t.halted \in BOOLEAN
  BY DEF Account, TradingState, Sides
<1>3. /\ Account(z) /\ z.side = t.side /\ z.halted = t.halted /\ z.queued = 0
      /\ z.ring = t.ring
  BY ClearQueue DEF Sides
<1>4. /\ t.side # 0 => desired \in {0, t.side}
      /\ t.side = 0 => desired \in {-1, 0, 1}
      /\ t.side = 0 /\ desired # 0 =>
           desired = EntrySide(t, snap) /\ snap.spread <= kMaxEntrySpread
  BY <1>1, <1>2, DesiredSideHeld, DesiredSideFlat
<1> HIDE DEF desired, z
<1>5. CASE desired = 0
  <2>1. Act(t, snap) = CloseIfAllowed(z, snap.mid)
    BY <1>5 DEF Act, desired, z
  <2> DEFINE u == CloseIfAllowed(z, snap.mid)
  <2>2. Account(u) /\ u.side \in {t.side, 0} /\ u.queued = 0 /\ u.ring = t.ring
    BY <1>1, <1>3, CloseIfAllowedAccount
  <2> HIDE DEF u
  <2>3. TickOK(t, u, snap)
    BY <2>2 DEF TickOK
  <2> QED
    BY <2>1, <2>2, <2>3 DEF u
<1>6. CASE desired # 0 /\ desired = t.side
  <2>1. Act(t, snap) = z
    BY <1>6 DEF Act, desired, z
  <2> QED
    BY <1>3, <1>6, <2>1 DEF TickOK
<1>7. CASE desired # 0 /\ desired # t.side
  <2>1. t.side = 0 /\ desired \in {-1, 1}
    BY <1>4, <1>7
  <2>2. CASE CanAffordLeg(t, snap.mid, desired)
    <3> DEFINE s == SetPosition(t, desired, snap.mid)
               u == [s EXCEPT !.queued = 0]
    <3>1. Act(t, snap) = u
      BY <1>7, <2>1, <2>2 DEF Act, desired
    <3>2. Account(s) /\ s.side = desired /\ s.ring = t.ring
      BY <1>1, <2>1, <2>2, OpenSetPosition
    <3> HIDE DEF s
    <3>3. Account(u) /\ u.side = desired /\ u.ring = t.ring /\ u.queued = 0
      BY <3>2, ClearQueue DEF Sides
    <3> HIDE DEF u
    <3>4. u.side = EntrySide(u, snap)
      BY <1>4, <1>7, <2>1, <3>3, EntrySideOfRing
    <3> QED
      BY <1>4, <1>7, <2>1, <3>1, <3>3, <3>4 DEF TickOK
  <2>3. CASE ~CanAffordLeg(t, snap.mid, desired)
    <3>1. Act(t, snap) = t
      BY <1>7, <2>1, <2>3 DEF Act, desired
    <3> QED
      BY <2>1, <3>1 DEF TickOK
  <2> QED
    BY <2>2, <2>3
<1> QED
  BY <1>5, <1>6, <1>7

\* runStrategy keeps the account, leaves the queue empty, flips nothing, enters
\* only on signals that agree, and pushes the price unless it is halted.
LEMMA RunStrategyTick ==
  ASSUME NEW t, Account(t), t.queued = 0, NEW snap \in Snapshot
  PROVE  /\ TickOK(t, RunStrategy(t, snap), snap)
         /\ RunStrategy(t, snap).ring =
              IF snap.mid > 0 /\ ~t.halted THEN PushMid(t.ring, snap.mid) ELSE t.ring
<1> DEFINE h == Hold(t)
           q == [h EXCEPT !.ring = PushMid(@, snap.mid)]
           p == UpdateDrawdown(q, MarkEquity(h, snap.mid))
<1>1. snap.mid \in Int /\ snap.spread \in Int
  BY DEF Snapshot
<1>2. CASE snap.mid <= 0
  BY <1>1, <1>2 DEF RunStrategy, TickOK
<1>3. /\ Account(h) /\ h.side = t.side /\ h.halted = t.halted /\ h.queued = 0
      /\ h.ring = t.ring
  BY HoldAccount
<1> HIDE DEF h
<1>4. CASE snap.mid > 0 /\ t.halted
  <2>1. CASE t.side = 0
    <3>1. RunStrategy(t, snap) = t
      BY <1>1, <1>4, <2>1 DEF RunStrategy
    <3> QED
      BY <1>4, <2>1, <3>1 DEF TickOK
  <2>2. CASE t.side # 0
    <3>1. RunStrategy(t, snap) = CloseIfAllowed(h, snap.mid)
      BY <1>1, <1>4, <2>2 DEF RunStrategy, h
    <3> DEFINE u == CloseIfAllowed(h, snap.mid)
    <3>2. /\ Account(u) /\ u.side \in {t.side, 0} /\ u.queued = 0
          /\ u.halted /\ u.ring = t.ring
      BY <1>1, <1>3, <1>4, CloseIfAllowedAccount
    <3> HIDE DEF u
    <3>3. TickOK(t, u, snap)
      BY <2>2, <3>2 DEF TickOK
    <3> QED
      BY <1>4, <3>1, <3>2, <3>3 DEF u
  <2> QED
    BY <2>1, <2>2
<1>5. CASE snap.mid > 0 /\ ~t.halted
  <2>1. RunStrategy(t, snap) = Trade(h, snap)
    BY <1>1, <1>5 DEF RunStrategy, h
  <2>2. /\ p \in TradingState
        /\ p.cash = h.cash /\ p.position = h.position /\ p.side = h.side
        /\ p.entryMid = h.entryMid /\ p.halted = h.halted
        /\ p.realizedPnl = h.realizedPnl /\ p.totalFees = h.totalFees
        /\ p.queued = h.queued
        /\ p.ring = PushMid(t.ring, snap.mid)
    <3>1. h \in TradingState /\ h.ring \in Rings
      BY <1>3 DEF Account, TradingState
    <3>2. PushMid(h.ring, snap.mid) \in Rings
      BY <1>1, <1>5, <3>1, PushMidType
    <3>3. /\ q \in TradingState
          /\ q.cash = h.cash /\ q.position = h.position /\ q.side = h.side
          /\ q.entryMid = h.entryMid /\ q.halted = h.halted
          /\ q.realizedPnl = h.realizedPnl /\ q.totalFees = h.totalFees
          /\ q.queued = h.queued
          /\ q.ring = PushMid(h.ring, snap.mid)
      BY <3>1, <3>2 DEF TradingState
    <3>4. MarkEquity(h, snap.mid) \in Int
      BY <1>1, <3>1, MarkEquityType
    <3> HIDE DEF q
    <3> QED
      BY <1>3, <3>3, <3>4, UpdateDrawdownAccount
  <2>3. Trade(h, snap) = IF snap.spread > MaxSpread THEN p
                         ELSE Act(EnterQueued(p, snap), snap)
    BY DEF Trade
  <2> HIDE DEF p
  <2>4. Account(p)
    BY <1>3, <2>2, AccountFrame
  <2>5. CASE snap.spread > MaxSpread
    BY <1>3, <1>5, <2>1, <2>2, <2>3, <2>4, <2>5 DEF TickOK
  <2>6. CASE ~(snap.spread > MaxSpread)
    <3>1. EnterQueued(p, snap) = p
      BY <1>3, <2>2 DEF EnterQueued
    <3>2. TickOK(p, Act(p, snap), snap) /\ Act(p, snap).ring = p.ring
      BY <1>3, <1>5, <2>2, <2>4, ActTick
    <3> QED
      BY <1>3, <1>5, <2>1, <2>2, <2>3, <2>6, <3>1, <3>2 DEF TickOK
  <2> QED
    BY <2>5, <2>6
<1> QED
  BY <1>1, <1>2, <1>4, <1>5

LEMMA FinalizeAccount ==
  ASSUME NEW t, Account(t), NEW mid \in Int
  PROVE  LET u == FinalizePosition(t, mid) IN
         Account(u) /\ u.side = 0 /\ u.queued = t.queued
BY CloseSetPosition DEF FinalizePosition

LEMMA FreshAccount == Account(FreshTrading) /\ FreshTrading.side = 0 /\ FreshTrading.queued = 0
<1>1. EmptyRing \in Rings
  BY WindowAssumption DEF EmptyRing, Rings, Slots
<1>2. Value(InitialCash) \in Int /\ Value(InitialCash) > 0
  BY TradeAssumption DEF Value
<1>3. FreshTrading \in TradingState
  BY <1>1, <1>2 DEF FreshTrading, TradingState, Sides
<1>4. /\ FreshTrading.cash = Value(InitialCash)
      /\ FreshTrading.position = 0 /\ FreshTrading.side = 0
      /\ FreshTrading.entryMid = 0 /\ FreshTrading.realizedPnl = 0
      /\ FreshTrading.totalFees = 0 /\ FreshTrading.queued = 0
  BY DEF FreshTrading
<1>5. FreshTrading.position = FreshTrading.side * PositionSize
  BY <1>4, TradeAssumption
<1>6. Balanced(FreshTrading)
  BY <1>2, <1>4, ValueZero DEF Balanced
<1> QED
  BY <1>2, <1>3, <1>4, <1>5, <1>6 DEF Account, Funded

-----------------------------------------------------------------------------
(* The invariant of the client.                                            *)

TradeInv ==
  /\ TypeOK
  /\ Account(trading)
  /\ NeverQueued
  /\ ReportReconciles
  /\ EveryTickReported
  /\ phase = "connecting" => tickCount = 0

LEMMA NoMids == <<>> \in Seq(Nat) /\ Len(<<>>) <= Window
BY WindowAssumption

LEMMA TradeInit == Init => TradeInv
<1>1. NoReport \in Reports
  BY AmountType, TradeAssumption DEF NoReport, Reports, Sides
<1>2. NoReport.side = 0 /\ NoReport.netPnl = NoReport.grossMinusFees
  BY DEF NoReport
<1> QED
  BY <1>1, <1>2, NoMids, FreshAccount, TradeAssumption
     DEF Init, TradeInv, TypeOK, Account, NeverQueued, ReportReconciles,
         EveryTickReported

\* Latest never keeps more than the ring.
LEMMA LatestType ==
  ASSUME NEW s \in Seq(Nat), Len(s) <= Window, NEW mid \in Nat
  PROVE  /\ Latest(Append(s, mid)) \in Seq(Nat)
         /\ Len(Latest(Append(s, mid))) =
              IF Len(s) < Window THEN Len(s) + 1 ELSE Window
         /\ \A k \in 1 .. Len(Latest(Append(s, mid))) :
              Latest(Append(s, mid))[Len(Latest(Append(s, mid))) + 1 - k] =
                IF k = 1 THEN mid ELSE s[Len(s) + 1 - (k - 1)]
<1> DEFINE a == Append(s, mid)
           u == Latest(a)
<1>1. Window \in Nat \ {0} /\ Len(s) \in Nat
  BY WindowAssumption
<1>2. /\ a \in Seq(Nat) /\ Len(a) = Len(s) + 1
      /\ \A i \in 1 .. Len(a) : a[i] = IF i = Len(a) THEN mid ELSE s[i]
  BY <1>1
<1> HIDE DEF a
<1>3. CASE Len(s) < Window
  <2>1. u = a
    BY <1>1, <1>2, <1>3 DEF Latest
  <2>2. ASSUME NEW k \in 1 .. Len(a)
        PROVE  a[Len(a) + 1 - k] = IF k = 1 THEN mid ELSE s[Len(s) + 1 - (k - 1)]
    <3> DEFINE i == Len(a) + 1 - k
    <3>1. /\ i \in 1 .. Len(a) /\ (i = Len(a) <=> k = 1)
          /\ i = Len(s) + 1 - (k - 1)
      BY <1>1, <1>2
    <3> HIDE DEF i
    <3> QED
      BY <1>2, <3>1 DEF i
  <2> HIDE DEF u
  <2> QED
    BY <1>1, <1>2, <1>3, <2>1, <2>2 DEF u, a
<1>4. CASE Len(s) = Window
  <2>1. u = Tail(a)
    BY <1>1, <1>2, <1>4 DEF Latest
  <2>2. /\ u \in Seq(Nat) /\ Len(u) = Window
        /\ \A i \in 1 .. Len(u) : u[i] = a[i + 1]
    BY <1>1, <1>2, <1>4, <2>1
  <2> HIDE DEF u
  <2>3. ASSUME NEW k \in 1 .. Len(u)
        PROVE  u[Len(u) + 1 - k] = IF k = 1 THEN mid ELSE s[Len(s) + 1 - (k - 1)]
    <3> DEFINE i == Len(u) + 1 - k
    <3>1. /\ i \in 1 .. Len(u) /\ i + 1 \in 1 .. Len(a)
          /\ (i + 1 = Len(a) <=> k = 1)
          /\ i + 1 = Len(s) + 1 - (k - 1)
      BY <1>1, <1>2, <1>4, <2>2
    <3> HIDE DEF i
    <3> QED
      BY <1>2, <2>2, <3>1 DEF i
  <2> QED
    BY <1>1, <1>4, <2>2, <2>3 DEF u, a
<1> QED
  BY <1>1, <1>3, <1>4

LEMMA FinalPrice == TradeInv => latest = NoSnapshot \/ latest.mid \in Int
BY TradeAssumption DEF TradeInv, TypeOK, Snapshot

\* The last price, of whatever sign, closes the account; the report that
\* follows reconciles.
LEMMA FinalReport ==
  ASSUME TradeInv
  PROVE  /\ Account(FinalTrading) /\ FinalTrading.queued = 0
         /\ latest = NoSnapshot \/ FinalTrading.side = 0
         /\ LatestMid \in Int
<1>1. latest = NoSnapshot \/ latest.mid \in Int
  BY FinalPrice
<1> QED
  BY <1>1, FinalizeAccount DEF FinalTrading, LatestMid, TradeInv, NeverQueued

\* Before the first update there is nothing to close.
NothingOpen == latest = NoSnapshot => trading.side = 0

LEMMA ReportOfFlat ==
  ASSUME NEW t, Account(t), t.side = 0, NEW mid \in Int, tickCount \in Nat
  PROVE  LET r == Report(t, mid) IN
         /\ r \in Reports
         /\ r.side = 0 /\ r.netPnl = r.grossMinusFees
<1>1. /\ t.cash \in Int /\ t.realizedPnl \in Int /\ t.totalFees \in Nat
      /\ t.position = 0 /\ t.entryMid \in Nat
  BY TradeAssumption DEF Account, TradingState
<1>2. Value(InitialCash) \in Int
  BY AmountType, TradeAssumption
<1>3. Value(t.position * mid) = 0 /\ Value(t.position * t.entryMid) = 0
  BY <1>1, ValueZero
<1>4. t.cash = Value(InitialCash) + t.realizedPnl - t.totalFees
  BY <1>1, <1>2, <1>3 DEF Account, Balanced
<1>5. MarkEquity(t, mid) = t.cash
  BY <1>1, <1>3 DEF MarkEquity
<1>6. /\ t.trades \in Nat /\ t.winningTrades \in Nat
      /\ t.peak \in Int /\ t.maxDrawdown \in Int
  BY DEF Account, TradingState
<1> QED
  BY <1>1, <1>2, <1>4, <1>5, <1>6 DEF Report, Sides, Reports

LEMMA TradeNext == TradeInv /\ NothingOpen /\ [Next]_vars => (TradeInv /\ NothingOpen)'
<1> SUFFICES ASSUME TradeInv, NothingOpen, [Next]_vars
             PROVE  TradeInv' /\ NothingOpen'
  OBVIOUS
<1> USE DEF NothingOpen
<1>1. trading.side \in Sides
  BY DEF TradeInv, TypeOK, TradingState
<1>2. CASE OnConnected
  BY <1>2, FreshAccount, NoMids, TradeAssumption
     DEF OnConnected, TradeInv, TypeOK, Account, NeverQueued, ReportReconciles,
         EveryTickReported
<1>3. ASSUME NEW snap \in Snapshots, OnMarketUpdate(snap)
      PROVE  TradeInv' /\ NothingOpen'
  <2>1. snap \in Snapshot /\ snap # NoSnapshot
    BY TradeAssumption
  <2>2. Account(trading') /\ trading'.queued = 0
    BY <1>3, <2>1, RunStrategyTick DEF OnMarketUpdate, TradeInv, NeverQueued, TickOK
  <2>3. received' \in 0 .. MaxTicks /\ tickCount' \in Nat /\ entryTick' \in Nat
    BY <1>3, TradeAssumption DEF OnMarketUpdate, TradeInv, TypeOK
  <2>4. TypeOK'
    <3>1. mids' \in Seq(Nat) /\ Len(mids') <= Window
      <4>1. CASE snap.mid > 0 /\ ~trading.halted
        <5>1. snap.mid \in Nat /\ Window \in Nat /\ Len(mids) \in Nat
          BY <2>1, <4>1, WindowAssumption DEF Snapshot, TradeInv, TypeOK
        <5>2. mids' = Latest(Append(mids, snap.mid))
          BY <1>3, <4>1 DEF OnMarketUpdate
        <5> QED
          BY <5>1, <5>2, LatestType DEF TradeInv, TypeOK
      <4>2. CASE ~(snap.mid > 0 /\ ~trading.halted)
        BY <1>3, <4>2 DEF OnMarketUpdate, TradeInv, TypeOK
      <4> QED
        BY <4>1, <4>2
    <3> QED
      BY <1>3, <2>2, <2>3, <3>1 DEF OnMarketUpdate, TradeInv, TypeOK, Account
  <2>5. EveryTickReported'
    BY <1>3 DEF OnMarketUpdate, TradeInv, TypeOK, EveryTickReported
  <2> QED
    BY <1>3, <2>1, <2>2, <2>4, <2>5
       DEF OnMarketUpdate, TradeInv, NeverQueued, ReportReconciles
<1>4. CASE OnReplayDone
  <2>1. Account(FinalTrading) /\ FinalTrading.side = 0 /\ LatestMid \in Int
    BY FinalReport DEF FinalTrading
  <2>2. /\ report' \in Reports
        /\ ReportReconciles'
    BY <1>4, <2>1, ReportOfFlat DEF OnReplayDone, ReportReconciles, TradeInv, TypeOK
  <2>3. TypeOK'
    BY <1>4, <2>2, FreshAccount, NoMids DEF OnReplayDone, TradeInv, TypeOK, Account
  <2> QED
    BY <1>4, <2>2, <2>3, FreshAccount
       DEF OnReplayDone, TradeInv, TypeOK, NeverQueued, EveryTickReported
<1>5. CASE OnError
  BY <1>5, TradeAssumption
     DEF OnError, TradeInv, TypeOK, NeverQueued, ReportReconciles, EveryTickReported
<1>6. CASE OnDisconnected
  <2>1. /\ Account(FinalTrading) /\ FinalTrading.side = 0 /\ LatestMid \in Int
        /\ FinalTrading.queued = 0
    BY FinalReport DEF FinalTrading
  <2>2. /\ report' \in Reports
        /\ ReportReconciles'
    BY <1>6, <2>1, ReportOfFlat DEF OnDisconnected, ReportReconciles, TradeInv, TypeOK
  <2>3. TypeOK'
    BY <1>6, <2>1, <2>2 DEF OnDisconnected, TradeInv, TypeOK, Account
  <2>4. EveryTickReported'
    BY <1>6 DEF OnDisconnected, TradeInv, TypeOK, EveryTickReported
  <2> QED
    BY <1>6, <2>1, <2>2, <2>3, <2>4 DEF OnDisconnected, TradeInv, NeverQueued
<1>7. CASE UNCHANGED vars
  BY <1>7 DEF vars, TradeInv, TypeOK, NeverQueued, ReportReconciles, EveryTickReported
<1> QED
  BY <1>2, <1>3, <1>4, <1>5, <1>6, <1>7 DEF Next, Terminated

THEOREM TradeInvariance == Spec => [](TradeInv /\ NothingOpen)
<1>1. Init => NothingOpen
  BY FreshAccount DEF Init, NothingOpen
<1> QED
  BY <1>1, TradeInit, TradeNext, PTL DEF Spec

\* Every member keeps its type, and the position is the one the side stands for.
THEOREM TypeCorrect == Spec => []TypeOK
<1>1. TradeInv => TypeOK
  BY DEF TradeInv
<1> QED
  BY <1>1, TradeInvariance, PTL

\* The books balance after every sequence of legs: no path through setPosition
\* loses or makes money that is neither profit nor fee.
THEOREM BooksAlwaysBalance == Spec => []BooksBalance
<1>1. TradeInv => BooksBalance
  BY DEF TradeInv, Account, Balanced, BooksBalance
<1> QED
  BY <1>1, TradeInvariance, PTL

\* canAffordLeg and the halt check keep the account from ever borrowing.
THEOREM AlwaysSolvent == Spec => []Solvent
<1>1. TradeInv => Solvent
  BY DEF TradeInv, Account, Funded, Solvent
<1> QED
  BY <1>1, TradeInvariance, PTL

\* Every report is of a closed account and its two net results agree.
THEOREM ReportsReconcile == Spec => []ReportReconciles
<1>1. TradeInv => ReportReconciles
  BY DEF TradeInv
<1> QED
  BY <1>1, TradeInvariance, PTL

\* Every update is counted in exactly one report.
THEOREM TicksReported == Spec => []EveryTickReported
<1>1. TradeInv => EveryTickReported
  BY DEF TradeInv
<1> QED
  BY <1>1, TradeInvariance, PTL

\* The deferred flip is dead code: queued_side is never set.
THEOREM QueueUnused == Spec => []NeverQueued
<1>1. TradeInv => NeverQueued
  BY DEF TradeInv
<1> QED
  BY <1>1, TradeInvariance, PTL

-----------------------------------------------------------------------------
(* The ring of the mid prices.                                             *)

\* The ring r holds the prices s, the newest one slot behind its head.
RingOf(r, s) ==
  /\ r.count = Len(s)
  /\ \A k \in 1 .. Len(s) : MidAt(r, k) = s[Len(s) + 1 - k]

LEMMA PushRing ==
  ASSUME NEW r \in Rings, NEW s \in Seq(Nat), Len(s) <= Window, RingOf(r, s),
         NEW mid \in Nat
  PROVE  RingOf(PushMid(r, mid), Latest(Append(s, mid)))
<1> DEFINE p == PushMid(r, mid)
           u == Latest(Append(s, mid))
<1>1. Window \in Nat \ {0} /\ Len(s) \in Nat
  BY WindowAssumption
<1>2. /\ u \in Seq(Nat)
      /\ Len(u) = IF Len(s) < Window THEN Len(s) + 1 ELSE Window
      /\ \A k \in 1 .. Len(u) :
           u[Len(u) + 1 - k] = IF k = 1 THEN mid ELSE s[Len(s) + 1 - (k - 1)]
  BY LatestType
<1> HIDE DEF u
<1>3. p.count = Len(u)
  BY <1>1, <1>2 DEF PushMid, RingOf
<1>4. r \in [slot : [Slots -> Int], head : Slots, count : 0 .. Window]
  <2>1. r.slot \in [Slots -> Int]
    BY DEF Rings
  <2> QED
    BY <2>1 DEF Rings
<1>5. /\ MidAt(p, 1) = mid
      /\ \A k \in 2 .. Window : MidAt(p, k) = MidAt(r, k - 1)
  BY <1>4, PushShifts
<1> HIDE DEF p
<1>6. ASSUME NEW k \in 1 .. Len(u) PROVE MidAt(p, k) = u[Len(u) + 1 - k]
  <2>1. CASE k = 1
    BY <1>2, <1>5, <2>1
  <2>2. CASE k # 1
    <3>1. k \in 2 .. Window /\ k - 1 \in 1 .. Len(s)
      BY <1>1, <1>2, <2>2
    <3> DEFINE j == k - 1
    <3>2. MidAt(r, j) = s[Len(s) + 1 - j]
      BY <3>1 DEF RingOf
    <3> QED
      BY <1>2, <1>5, <2>2, <3>1, <3>2
  <2> QED
    BY <2>1, <2>2
<1> QED
  BY <1>3, <1>6 DEF RingOf, p, u

LEMMA EmptyRingOf == RingOf(EmptyRing, <<>>)
BY DEF EmptyRing, RingOf

\* Closing the position at the end leaves the ring as it is.
LEMMA FinalRing ==
  ASSUME TradeInv
  PROVE  FinalTrading.ring = trading.ring
BY FinalPrice, CloseSetPosition DEF FinalTrading, FinalizePosition, TradeInv

RingInv == RingOf(trading.ring, mids)

LEMMA RingNext == TradeInv /\ RingInv /\ [Next]_vars => RingInv'
<1> SUFFICES ASSUME TradeInv, RingInv, [Next]_vars PROVE RingInv'
  OBVIOUS
<1>1. CASE OnConnected \/ OnReplayDone
  <2>1. FreshTrading.ring = EmptyRing
    BY DEF FreshTrading
  <2> QED
    BY <1>1, <2>1, EmptyRingOf DEF OnConnected, OnReplayDone, RingInv
<1>2. ASSUME NEW snap \in Snapshots, OnMarketUpdate(snap) PROVE RingInv'
  <2>1. snap \in Snapshot
    BY TradeAssumption
  <2>2. trading'.ring = IF snap.mid > 0 /\ ~trading.halted
                        THEN PushMid(trading.ring, snap.mid) ELSE trading.ring
    BY <1>2, <2>1, RunStrategyTick DEF OnMarketUpdate, TradeInv, NeverQueued
  <2>3. mids' = IF snap.mid > 0 /\ ~trading.halted
                THEN Latest(Append(mids, snap.mid)) ELSE mids
    BY <1>2 DEF OnMarketUpdate
  <2>4. CASE snap.mid > 0 /\ ~trading.halted
    <3>1. /\ snap.mid \in Nat /\ trading.ring \in Rings
          /\ mids \in Seq(Nat) /\ Len(mids) <= Window
      BY <2>1, <2>4 DEF Snapshot, TradeInv, TypeOK, TradingState
    <3>2. RingOf(PushMid(trading.ring, snap.mid), Latest(Append(mids, snap.mid)))
      BY <3>1, PushRing DEF RingInv
    <3> QED
      BY <2>2, <2>3, <2>4, <3>2 DEF RingInv
  <2>5. CASE ~(snap.mid > 0 /\ ~trading.halted)
    BY <2>2, <2>3, <2>5 DEF RingInv
  <2> QED
    BY <2>4, <2>5
<1>3. CASE OnDisconnected
  BY <1>3, FinalRing DEF OnDisconnected, RingInv
<1>4. CASE OnError \/ UNCHANGED vars
  BY <1>4 DEF OnError, vars, RingInv
<1> QED
  BY <1>1, <1>2, <1>3, <1>4 DEF Next, Terminated

\* However often the ring has wrapped and been reset, it holds the last prices
\* of the replay in progress, each at the index momentumAtLookback computes.
THEOREM RingIsLatest == Spec => []RingHoldsLatest
<1>1. Init => RingInv
  BY EmptyRingOf DEF Init, FreshTrading, RingInv
<1>2. RingInv => RingHoldsLatest
  BY DEF RingInv, RingOf, RingHoldsLatest, Ago
<1> QED
  BY <1>1, <1>2, RingNext, TradeInvariance, PTL DEF Spec

-----------------------------------------------------------------------------
(* The open position.                                                      *)

\* What a step of Next may do to the open position.
LEMMA StepTick ==
  ASSUME TradeInv, NothingOpen, [Next]_vars
  PROVE  /\ trading.side # 0 => trading'.side \in {trading.side, 0}
         /\ trading.halted /\ received' # received =>
              trading'.halted /\ trading'.side \in {trading.side, 0}
         /\ trading.side = 0 /\ trading'.side # 0 =>
              /\ latest'.spread <= kMaxEntrySpread
              /\ trading'.side = EntrySide(trading', latest')
<1>1. CASE OnConnected \/ OnReplayDone
  BY <1>1, FreshAccount DEF OnConnected, OnReplayDone
<1>2. ASSUME NEW snap \in Snapshots, OnMarketUpdate(snap)
      PROVE  TickOK(trading, trading', latest')
  BY <1>2, TradeAssumption, RunStrategyTick DEF OnMarketUpdate, TradeInv, NeverQueued
<1>3. CASE OnDisconnected
  BY <1>3, FinalReport DEF OnDisconnected, NothingOpen, FinalTrading
<1>4. CASE OnError \/ UNCHANGED vars
  BY <1>4 DEF OnError, vars
<1> QED
  BY <1>1, <1>2, <1>3, <1>4 DEF Next, Terminated, TickOK

\* README 179: long and short are never exchanged in one step.
THEOREM FlipsViaFlat == Spec => FlipViaFlat
<1>1. TradeInv /\ NothingOpen /\ [Next]_vars
        => [trading.side # 0 => trading'.side \in {trading.side, 0}]_vars
  BY StepTick
<1> QED
  BY <1>1, TradeInvariance, PTL DEF Spec, FlipViaFlat

\* A halted session enters nothing any more.
THEOREM HaltsAreFinal == Spec => HaltIsFinal
<1>1. TradeInv /\ NothingOpen /\ [Next]_vars
        => [trading.halted /\ received' # received =>
              trading'.halted /\ trading'.side \in {trading.side, 0}]_vars
  BY StepTick
<1> QED
  BY <1>1, TradeInvariance, PTL DEF Spec, HaltIsFinal

\* README 170, 172, 173: entries only on agreeing signals of their own tick.
THEOREM EntriesAlwaysAgree == Spec => EntriesAgree
<1>1. TradeInv /\ NothingOpen /\ [Next]_vars
        => [trading.side = 0 /\ trading'.side # 0 =>
              /\ latest'.spread <= kMaxEntrySpread
              /\ trading'.side = EntrySide(trading', latest')]_vars
  BY StepTick
<1> QED
  BY <1>1, TradeInvariance, PTL DEF Spec, EntriesAgree
-----------------------------------------------------------------------------
(* The maximum drawdown and the age of a position.                         *)

V0 == Value(InitialCash)

\* The peak starts at the initial cash and only rises, and the equity of an
\* account that is flat, its cash, has been seen by updateDrawdown.
Covered(t) ==
  /\ t.peak >= V0
  /\ t.side = 0 => t.maxDrawdown >= Drawdown(t.peak, t.cash)

LEMMA InitialEquity == V0 \in Nat \ {0}
BY TradeAssumption DEF V0, Value

LEMMA DrawdownType ==
  ASSUME NEW peak \in Int, peak > 0, NEW equity \in Int
  PROVE  Drawdown(peak, equity) \in Int
BY DEF Drawdown

\* At the initial cash nothing is lost.
LEMMA NoLoss == Drawdown(V0, V0) = 0
<1>1. V0 \in Nat \ {0}
  BY InitialEquity
<1>2. ((V0 - V0) * 100) \div V0 = 0
  BY <1>1
<1> QED
  BY <1>1, <1>2 DEF Drawdown

\* updateDrawdown sees the equity it is given, and forgets nothing.
LEMMA UpdateDrawdownCovers ==
  ASSUME NEW t \in TradingState, t.peak >= V0, NEW equity \in Int
  PROVE  LET u == UpdateDrawdown(t, equity) IN
         /\ u.peak >= V0
         /\ u.maxDrawdown >= Drawdown(u.peak, equity)
         /\ u.ticksInPosition = t.ticksInPosition
<1> DEFINE peak == IF equity > t.peak THEN equity ELSE t.peak
           d == Drawdown(peak, equity)
           worst == IF peak > 0 /\ d > t.maxDrawdown THEN d ELSE t.maxDrawdown
           u == UpdateDrawdown(t, equity)
<1>1. t.peak \in Int /\ t.maxDrawdown \in Int /\ V0 \in Nat \ {0}
  BY InitialEquity DEF TradingState
<1>2. peak \in Int /\ peak >= V0 /\ peak > 0
  BY <1>1
<1>3. /\ u = [t EXCEPT !.peak = peak, !.maxDrawdown = worst]
      /\ u.peak = peak /\ u.maxDrawdown = worst
      /\ u.ticksInPosition = t.ticksInPosition
  BY DEF UpdateDrawdown, TradingState
<1> HIDE DEF peak, u
<1>4. d \in Int /\ worst \in Int /\ worst >= d
  BY <1>1, <1>2, DrawdownType
<1> QED
  BY <1>2, <1>3, <1>4 DEF u

\* Closing leaves the cash that updateDrawdown has been shown.
LEMMA CloseCovered ==
  ASSUME NEW t, Account(t), Covered(t), NEW mid \in Int
  PROVE  Covered(SetPosition(t, 0, mid))
<1>1. CASE t.side = 0
  BY <1>1 DEF SetPosition
<1>2. CASE t.side # 0
  <2> DEFINE c == ClosePosition(t, mid)
             d == UpdateDrawdown(c, MarkEquity(c, mid))
             u == CheckHalt(d, mid)
  <2>1. SetPosition(t, 0, mid) = u
    BY <1>2 DEF SetPosition
  <2>2. /\ c \in TradingState /\ c.side = 0 /\ c.position = 0
        /\ c.cash \in Int
    BY CloseAccount DEF TradingState
  <2>3. c.peak = t.peak
    BY DEF ClosePosition, ChargeFee, Account, TradingState
  <2> HIDE DEF c
  <2>4. MarkEquity(c, mid) = c.cash
    BY <2>2, ValueZero DEF MarkEquity
  <2>5. /\ d \in TradingState /\ d.cash = c.cash /\ d.side = 0
        /\ d.peak >= V0
        /\ d.maxDrawdown >= Drawdown(d.peak, c.cash)
    BY <2>2, <2>3, <2>4, UpdateDrawdownAccount, UpdateDrawdownCovers DEF Covered
  <2> HIDE DEF d
  <2>6. /\ u.cash = d.cash /\ u.side = d.side /\ u.peak = d.peak
        /\ u.maxDrawdown = d.maxDrawdown
    BY <2>5 DEF CheckHalt, TradingState
  <2> HIDE DEF u
  <2> QED
    BY <2>1, <2>5, <2>6 DEF Covered
<1> QED
  BY <1>1, <1>2

LEMMA OpenCovered ==
  ASSUME NEW t, Account(t), Covered(t), t.side = 0, NEW side \in {-1, 1},
         NEW mid \in Nat \ {0}, CanAffordLeg(t, mid, side)
  PROVE  LET u == SetPosition(t, side, mid) IN
         Covered(u) /\ u.side = side /\ u.ticksInPosition = 0
<1> DEFINE o == OpenPosition(t, side, mid)
           d == UpdateDrawdown(o, MarkEquity(o, mid))
           u == CheckHalt(d, mid)
<1>1. SetPosition(t, side, mid) = u
  BY DEF SetPosition
<1>2. o \in TradingState /\ o.side = side
  BY OpenAccount
<1>3. o.peak = t.peak /\ o.ticksInPosition = 0
  BY DEF OpenPosition, ChargeFee, Account, TradingState
<1> HIDE DEF o
<1>4. /\ d \in TradingState /\ d.side = side
      /\ d.peak >= V0
      /\ d.ticksInPosition = 0
  <2>1. MarkEquity(o, mid) \in Int /\ o.peak >= V0
    BY <1>2, <1>3, MarkEquityType DEF Covered
  <2> QED
    BY <1>2, <1>3, <2>1, UpdateDrawdownAccount, UpdateDrawdownCovers
<1> HIDE DEF d
<1>5. /\ u.side = d.side /\ u.peak = d.peak
      /\ u.ticksInPosition = d.ticksInPosition
  BY <1>4 DEF CheckHalt, TradingState
<1> HIDE DEF u
<1> QED
  BY <1>1, <1>4, <1>5 DEF Covered

\* What a position's age and the drawdown may become from t to u: a position
\* is only closed at the age canChangePosition asks for.
Later(t, u) ==
  /\ Covered(u)
  /\ t.side # 0 /\ u.side # 0 => u.ticksInPosition = t.ticksInPosition
  /\ t.side = 0 /\ u.side # 0 => u.ticksInPosition = 0
  /\ t.side # 0 /\ u.side = 0 => t.ticksInPosition >= MinHold

LEMMA CloseIfAllowedLater ==
  ASSUME NEW t, Account(t), Covered(t), NEW mid \in Int
  PROVE  Later(t, CloseIfAllowed(t, mid))
<1>1. CASE CanChangePosition(t)
  <2> DEFINE u == SetPosition(t, 0, mid)
  <2>1. CloseIfAllowed(t, mid) = u
    BY <1>1 DEF CloseIfAllowed
  <2>2. Covered(u) /\ u.side = 0
    BY CloseCovered, CloseSetPosition
  <2> HIDE DEF u
  <2> QED
    BY <1>1, <2>1, <2>2 DEF Later, CanChangePosition
<1>2. CASE ~CanChangePosition(t)
  BY <1>2 DEF CloseIfAllowed, Later
<1> QED
  BY <1>1, <1>2

LEMMA ActLater ==
  ASSUME NEW t, Account(t), Covered(t), t.queued = 0,
         NEW snap \in Snapshot, snap.mid > 0
  PROVE  Later(t, Act(t, snap))
<1> DEFINE desired == DesiredSide(t, snap)
<1>1. snap.mid \in Nat \ {0}
  BY DEF Snapshot
<1>2. [t EXCEPT !.queued = 0] = t
  BY DEF Account, TradingState
<1>3. /\ t.side \in {-1, 0, 1}
      /\ t.side # 0 => desired \in {0, t.side}
      /\ t.side = 0 => desired \in {-1, 0, 1}
  BY DesiredSideHeld, DesiredSideFlat DEF Account, TradingState, Sides
<1> HIDE DEF desired
<1>4. CASE desired = 0
  <2>1. Act(t, snap) = CloseIfAllowed(t, snap.mid)
    BY <1>2, <1>4 DEF Act, desired
  <2> QED
    BY <1>1, <2>1, CloseIfAllowedLater
<1>5. CASE desired # 0 /\ desired = t.side
  <2>1. Act(t, snap) = t
    BY <1>2, <1>5 DEF Act, desired
  <2> QED
    BY <1>5, <2>1 DEF Later
<1>6. CASE desired # 0 /\ desired # t.side
  <2>1. t.side = 0 /\ desired \in {-1, 1}
    BY <1>3, <1>6
  <2>2. CASE CanAffordLeg(t, snap.mid, desired)
    <3> DEFINE s == SetPosition(t, desired, snap.mid)
               u == [s EXCEPT !.queued = 0]
    <3>1. Act(t, snap) = u
      BY <1>6, <2>1, <2>2 DEF Act, desired
    <3>2. /\ s \in TradingState /\ Covered(s)
          /\ s.side = desired /\ s.ticksInPosition = 0
      BY <1>1, <2>1, <2>2, OpenSetPosition, OpenCovered DEF Account
    <3> HIDE DEF s
    <3>3. /\ u.peak = s.peak /\ u.side = s.side /\ u.cash = s.cash
          /\ u.maxDrawdown = s.maxDrawdown
          /\ u.ticksInPosition = s.ticksInPosition
      BY <3>2 DEF TradingState
    <3> HIDE DEF u
    <3> QED
      BY <2>1, <3>1, <3>2, <3>3 DEF Later, Covered
  <2>3. CASE ~CanAffordLeg(t, snap.mid, desired)
    <3>1. Act(t, snap) = t
      BY <1>6, <2>1, <2>3 DEF Act, desired
    <3> QED
      BY <2>1, <3>1 DEF Later
  <2> QED
    BY <2>2, <2>3
<1> QED
  BY <1>4, <1>5, <1>6

\* A tick ages an open position by at most one, before the strategy acts on it.
TickLater(t, u) ==
  /\ Covered(u)
  /\ t.side # 0 /\ u.side # 0 => u.ticksInPosition <= t.ticksInPosition + 1
  /\ t.side = 0 /\ u.side # 0 => u.ticksInPosition = 0
  /\ t.side # 0 /\ u.side = 0 => t.ticksInPosition + 1 >= MinHold

LEMMA RunStrategyLater ==
  ASSUME NEW t, Account(t), Covered(t), t.queued = 0, NEW snap \in Snapshot
  PROVE  TickLater(t, RunStrategy(t, snap))
<1> DEFINE h == Hold(t)
           q == [h EXCEPT !.ring = PushMid(@, snap.mid)]
           p == UpdateDrawdown(q, MarkEquity(h, snap.mid))
<1>1. snap.mid \in Int /\ snap.spread \in Int /\ t.ticksInPosition \in Nat
  BY DEF Snapshot, Account, TradingState
<1>2. CASE snap.mid <= 0
  BY <1>1, <1>2 DEF RunStrategy, TickLater
<1>3. /\ Account(h) /\ h.side = t.side /\ h.queued = 0
      /\ h.ring = t.ring
  BY HoldAccount
<1>4. /\ Covered(h)
      /\ t.side # 0 => h.ticksInPosition = t.ticksInPosition + 1
  <2>1. CASE t.side = 0
    BY <2>1 DEF Hold
  <2>2. CASE t.side # 0
    <3>1. /\ h.peak = t.peak /\ h.side = t.side
          /\ h.ticksInPosition = t.ticksInPosition + 1
      BY <2>2 DEF Hold, Account, TradingState
    <3> HIDE DEF h
    <3> QED
      BY <2>2, <3>1 DEF Covered
  <2> QED
    BY <2>1, <2>2
<1> HIDE DEF h
<1>5. ASSUME NEW u, Later(h, u)
      PROVE  TickLater(t, u)
  BY <1>1, <1>3, <1>4, <1>5 DEF Later, TickLater
<1>6. CASE snap.mid > 0 /\ t.halted
  <2>1. CASE t.side = 0
    <3>1. RunStrategy(t, snap) = t
      BY <1>1, <1>6, <2>1 DEF RunStrategy
    <3> QED
      BY <2>1, <3>1 DEF TickLater
  <2>2. CASE t.side # 0
    <3>1. RunStrategy(t, snap) = CloseIfAllowed(h, snap.mid)
      BY <1>1, <1>6, <2>2 DEF RunStrategy, h
    <3> QED
      BY <1>1, <1>3, <1>4, <1>5, <3>1, CloseIfAllowedLater
  <2> QED
    BY <2>1, <2>2
<1>7. CASE snap.mid > 0 /\ ~t.halted
  <2>1. RunStrategy(t, snap) = Trade(h, snap)
    BY <1>1, <1>7 DEF RunStrategy, h
  <2>2. h \in TradingState /\ h.ring \in Rings
    BY <1>3 DEF Account, TradingState
  <2>3. /\ q \in TradingState
        /\ q.cash = h.cash /\ q.position = h.position /\ q.side = h.side
        /\ q.entryMid = h.entryMid /\ q.halted = h.halted
        /\ q.realizedPnl = h.realizedPnl /\ q.totalFees = h.totalFees
        /\ q.queued = h.queued /\ q.peak = h.peak
        /\ q.maxDrawdown = h.maxDrawdown
        /\ q.ticksInPosition = h.ticksInPosition
    <3>1. PushMid(h.ring, snap.mid) \in Rings
      BY <1>1, <1>7, <2>2, PushMidType
    <3> QED
      BY <2>2, <3>1 DEF TradingState
  <2>4. Trade(h, snap) = IF snap.spread > MaxSpread THEN p
                         ELSE Act(EnterQueued(p, snap), snap)
    BY DEF Trade
  <2> HIDE DEF q
  <2>5. MarkEquity(h, snap.mid) \in Int
    BY <1>1, <2>2, MarkEquityType
  <2>6. /\ p \in TradingState
        /\ p.cash = h.cash /\ p.position = h.position /\ p.side = h.side
        /\ p.entryMid = h.entryMid /\ p.halted = h.halted
        /\ p.realizedPnl = h.realizedPnl /\ p.totalFees = h.totalFees
        /\ p.queued = h.queued
    BY <2>3, <2>5, UpdateDrawdownAccount
  <2>7. /\ p.peak >= V0
        /\ p.maxDrawdown >= Drawdown(p.peak, MarkEquity(h, snap.mid))
        /\ p.ticksInPosition = h.ticksInPosition
    BY <1>4, <2>3, <2>5, UpdateDrawdownCovers DEF Covered
  <2> HIDE DEF p
  <2>8. Account(p)
    BY <1>3, <2>6, AccountFrame
  <2>9. Covered(p)
    <3>1. SUFFICES ASSUME p.side = 0 PROVE MarkEquity(h, snap.mid) = p.cash
      BY <2>7 DEF Covered
    <3>2. h.position = 0 /\ h.cash \in Int
      BY <1>3, <2>2, <2>6, <3>1, TradeAssumption DEF Account, TradingState
    <3>3. h.position * snap.mid = 0
      BY <1>1, <3>2
    <3> QED
      BY <2>6, <3>2, <3>3, ValueZero DEF MarkEquity
  <2>10. ASSUME NEW u, Later(p, u)
         PROVE  Later(h, u)
    BY <2>6, <2>7, <2>10 DEF Later
  <2>11. CASE snap.spread > MaxSpread
    <3>1. Later(h, p)
      BY <2>6, <2>7, <2>9 DEF Later
    <3> QED
      BY <1>5, <2>1, <2>4, <2>11, <3>1
  <2>12. CASE ~(snap.spread > MaxSpread)
    <3>1. EnterQueued(p, snap) = p
      BY <1>3, <2>6 DEF EnterQueued
    <3>2. Later(p, Act(p, snap))
      BY <1>3, <1>7, <2>6, <2>8, <2>9, ActLater
    <3> QED
      BY <1>5, <2>1, <2>4, <2>10, <2>12, <3>1, <3>2
  <2> QED
    BY <2>11, <2>12
<1> QED
  BY <1>1, <1>2, <1>6, <1>7

LEMMA FreshCovered == Covered(FreshTrading)
<1>1. /\ FreshTrading.peak = V0 /\ FreshTrading.cash = V0
      /\ FreshTrading.maxDrawdown = 0
  BY DEF FreshTrading, V0
<1> QED
  BY <1>1, InitialEquity, NoLoss DEF Covered

-----------------------------------------------------------------------------
\* The age of the open position is no more than the updates since its entry:
\* an update without a price does not age it.
AgeInv ==
  /\ Covered(trading)
  /\ trading.side # 0 => trading.ticksInPosition <= received - entryTick
  /\ DrawdownCoversLoss

LEMMA ReportCovers ==
  ASSUME NEW t, Account(t), Covered(t), t.side = 0, NEW mid \in Int,
         report' = Report(t, mid)
  PROVE  DrawdownCoversLoss'
<1>1. t.cash \in Int /\ t.position = 0
  BY TradeAssumption DEF Account, TradingState
<1>2. MarkEquity(t, mid) = t.cash
  BY <1>1, ValueZero DEF MarkEquity
<1>3. V0 + (t.cash - V0) = t.cash
  BY <1>1, InitialEquity
<1>4. /\ report'.maxDrawdown = t.maxDrawdown /\ report'.peak = t.peak
      /\ V0 + report'.netPnl = t.cash
  BY <1>2, <1>3 DEF Report, V0
<1> QED
  BY <1>4 DEF Covered, DrawdownCoversLoss, V0

LEMMA FinalCovered ==
  ASSUME TradeInv, NothingOpen, AgeInv
  PROVE  /\ Account(FinalTrading) /\ Covered(FinalTrading)
         /\ FinalTrading.side = 0 /\ LatestMid \in Int
<1>1. latest = NoSnapshot \/ latest.mid \in Int
  BY FinalPrice
<1>2. Covered(FinalTrading)
  BY <1>1, CloseCovered
     DEF FinalTrading, FinalizePosition, TradeInv, AgeInv
<1> QED
  BY <1>2, FinalReport DEF FinalTrading, NothingOpen

LEMMA AgeInit == Init => AgeInv
<1> SUFFICES ASSUME Init PROVE AgeInv
  OBVIOUS
<1>1. Drawdown(V0, V0 + 0) = 0
  BY InitialEquity, NoLoss
<1>2. DrawdownCoversLoss
  BY <1>1 DEF Init, NoReport, DrawdownCoversLoss, V0
<1> QED
  BY <1>2, FreshCovered, FreshAccount DEF Init, AgeInv

LEMMA AgeNext ==
  TradeInv /\ NothingOpen /\ AgeInv /\ [Next]_vars => AgeInv'
<1> SUFFICES ASSUME TradeInv, NothingOpen, AgeInv, [Next]_vars PROVE AgeInv'
  OBVIOUS
<1>1. CASE OnConnected
  BY <1>1, FreshCovered, FreshAccount
     DEF OnConnected, AgeInv, DrawdownCoversLoss
<1>2. ASSUME NEW snap \in Snapshots, OnMarketUpdate(snap) PROVE AgeInv'
  <2>1. TickLater(trading, trading')
    BY <1>2, TradeAssumption, RunStrategyLater
       DEF OnMarketUpdate, TradeInv, NeverQueued, AgeInv
  <2>2. trading' \in TradingState
    BY <1>2, TradeNext DEF TradeInv, TypeOK
  <2>3. /\ received \in Nat /\ entryTick \in Nat /\ received' = received + 1
        /\ trading.ticksInPosition \in Nat /\ trading'.ticksInPosition \in Nat
        /\ trading.side # 0 => trading.ticksInPosition <= received - entryTick
    BY <1>2, <2>2, TradeAssumption
       DEF OnMarketUpdate, TradeInv, TypeOK, TradingState, AgeInv
  <2>4. trading'.side # 0 => trading'.ticksInPosition <= received' - entryTick'
    <3>1. CASE trading.side = 0 /\ trading'.side # 0
      BY <1>2, <2>1, <2>3, <3>1 DEF TickLater, OnMarketUpdate
    <3>2. CASE trading.side # 0 /\ trading'.side # 0
      <4>1. entryTick' = entryTick
        BY <1>2, <3>2 DEF OnMarketUpdate
      <4>2. trading'.ticksInPosition <= trading.ticksInPosition + 1
        BY <2>1, <3>2 DEF TickLater
      <4> QED
        BY <2>3, <3>2, <4>1, <4>2
    <3> QED
      BY <3>1, <3>2
  <2>5. DrawdownCoversLoss'
    BY <1>2 DEF OnMarketUpdate, AgeInv, DrawdownCoversLoss
  <2> QED
    BY <2>1, <2>4, <2>5 DEF AgeInv, TickLater
<1>3. CASE OnReplayDone
  <2>1. DrawdownCoversLoss'
    BY <1>3, FinalCovered, ReportCovers DEF OnReplayDone
  <2> QED
    BY <1>3, <2>1, FreshCovered, FreshAccount DEF OnReplayDone, AgeInv
<1>4. CASE OnError
  BY <1>4 DEF OnError, AgeInv, DrawdownCoversLoss
<1>5. CASE OnDisconnected
  <2>1. DrawdownCoversLoss'
    <3>1. CASE report' = Report(FinalTrading, LatestMid)
      BY <3>1, FinalCovered, ReportCovers
    <3>2. CASE UNCHANGED report
      BY <3>2 DEF AgeInv, DrawdownCoversLoss
    <3> QED
      BY <1>5, <3>1, <3>2 DEF OnDisconnected
  <2> QED
    BY <1>5, <2>1, FinalCovered DEF OnDisconnected, AgeInv
<1>6. CASE UNCHANGED vars
  BY <1>6 DEF vars, AgeInv, DrawdownCoversLoss
<1> QED
  BY <1>1, <1>2, <1>3, <1>4, <1>5, <1>6 DEF Next, Terminated

THEOREM AgeInvariance == Spec => []AgeInv
BY AgeInit, AgeNext, TradeInvariance, PTL DEF Spec

\* The maximum drawdown of every report covers the loss it reports, measured
\* from the highest equity of its replay: no way to the end of a replay changes
\* the equity behind updateDrawdown's back.
THEOREM DrawdownsCoverLosses == Spec => []DrawdownCoversLoss
<1>1. AgeInv => DrawdownCoversLoss
  BY DEF AgeInv
<1> QED
  BY <1>1, AgeInvariance, PTL

\* README 150: as long as the setting survives its cast to int, no rule, stop
\* loss included, ends a position before it is as old as the setting says.
THEOREM MinimumHoldKept ==
  ASSUME MinHold = MinHoldTicks
  PROVE  Spec => MinimumHold
<1>1. TradeInv /\ NothingOpen /\ AgeInv /\ [Next]_vars =>
        [trading.side # 0 /\ trading'.side = 0 /\ received' # received =>
           received' - entryTick >= MinHoldTicks]_vars
  <2> SUFFICES ASSUME TradeInv, AgeInv, [Next]_vars,
                      trading.side # 0, trading'.side = 0, received' # received
               PROVE  received' - entryTick >= MinHoldTicks
    OBVIOUS
  <2>1. PICK snap \in Snapshots : OnMarketUpdate(snap)
    BY DEF Next, Terminated, vars, OnConnected, OnReplayDone, OnError, OnDisconnected
  <2>2. TickLater(trading, trading')
    BY <2>1, TradeAssumption, RunStrategyLater
       DEF OnMarketUpdate, TradeInv, NeverQueued, AgeInv
  <2>3. /\ trading.ticksInPosition \in Nat
        /\ received \in Nat /\ entryTick \in Nat /\ received' = received + 1
        /\ trading.ticksInPosition <= received - entryTick
    BY <2>1, TradeAssumption DEF OnMarketUpdate, TradeInv, TypeOK, TradingState, AgeInv
  <2> QED
    BY <2>2, <2>3, TradeAssumption DEF TickLater
<1> QED
  BY <1>1, TradeInvariance, AgeInvariance, PTL DEF Spec, MinimumHold

\* On the 32-bit int of the platforms the client is built for, every setting
\* below 2^31 survives the cast.
LEMMA SettingSurvivesCast ==
  ASSUME IntBits = 32, MinHoldTicks < 2147483648
  PROVE  MinHold = MinHoldTicks
<1>1. 2^32 = 4294967296 /\ 2^31 = 2147483648
  OBVIOUS
<1>2. MinHoldTicks \in Nat /\ MinHoldTicks % 4294967296 = MinHoldTicks
  BY TradeAssumption
<1> QED
  BY <1>1, <1>2 DEF MinHold

\* So README 150 holds there for every such setting.
COROLLARY MinimumHoldInt32 ==
  ASSUME IntBits = 32, MinHoldTicks < 2147483648
  PROVE  Spec => MinimumHold
BY SettingSurvivesCast, MinimumHoldKept
=============================================================================
