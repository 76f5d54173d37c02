-------------------------- MODULE MCTradeProcessor --------------------------
(* Instances of TradeProcessor for TLC: a handful of ticks that together lead *)
(* through every rule of the strategy.                                        *)
EXTENDS TradeProcessor

Tick(mid, spread, lean) ==
  [mid |-> mid, spread |-> spread, book |-> lean, flow |-> lean]

\* A market that moves by ten basis points, with signals for both sides.
MCSwings ==
  {Tick(mid, 5, lean) : mid \in {10000, 10010}, lean \in {5000, -5000}}

\* The same with the ticks the filters look at: spreads above the entry limit
\* and above the limit of the strategy, flow against the book, a CSV field
\* that did not parse.
MCFilters ==
  MCSwings \cup
  {Tick(10010, 50, 5000), Tick(10000, 300, -5000), Tick(0, 5, 0),
   [mid |-> 10010, spread |-> 5, book |-> 5000, flow |-> -1000]}

\* Prices that exhaust the account: one that leaves no cash for the fee of a
\* long, one that ruins a short, one that leaves it with less than a fee.
MCShocks ==
  {Tick(10000, 5, 5000), Tick(10000, 5, -5000), Tick(10010, 5, -5000),
   Tick(10010, 5, 5000), Tick(11950, 5, 5000), Tick(30000, 5, -5000),
   Tick(21650, 5, -5000)}

MCAll == MCSwings \cup MCFilters \cup MCShocks

\* One run takes each market in turn, as long as its cases need.
Markets ==
  {[snapshots |-> MCSwings,  ticks |-> 13, errors |-> 0],
   [snapshots |-> MCFilters, ticks |-> 10, errors |-> 1],
   [snapshots |-> MCShocks,  ticks |-> 10, errors |-> 0]}

VARIABLE market

MCInit == Init /\ market \in Markets

MCNext ==
  /\ Next
  /\ latest' \in market.snapshots \cup {NoSnapshot}
  /\ received' <= market.ticks
  /\ errorCount' <= market.errors
  /\ UNCHANGED market

MCSpec == MCInit /\ [][MCNext]_<<vars, market>>
=============================================================================
