--------------------------- MODULE MarketDataFeed ---------------------------
(***************************************************************************)
(* A loaded feed (server/market_data_feed.cpp): the snapshots of one       *)
(* symbol's CSV, in memory, and the cursor the replay worker moves over    *)
(* them.  Snapshots are immutable after the load, so a feed is known by    *)
(* how many of them it holds; the snapshot at cursor i is number i, its    *)
(* sequence field (sequence++ in loadFromCsv).                             *)
(***************************************************************************)
EXTENDS Integers

CONSTANTS
  Symbols,     \* the symbols of isKnownSymbol: BTC, ETH, ADA
  Rows         \* Rows[s]: snapshots loaded for s, 0 when the CSV was unusable

ASSUME FeedAssumption == Rows \in [Symbols -> Nat]

HasData(s) == Rows[s] > 0

\* MarketDataFeed::size(): what ReplayDone reports as total_updates.
Size(s) == IF Rows[s] = 0 THEN 0 ELSE Rows[s] - 1

Cursor(s) == 0 .. Rows[s]

\* Mutant: next() compares with <=.
HasNextOffByOne(s, cursor) == cursor <= Rows[s]

\* next(): FALSE at the end of the snapshots, where the cursor stays.
HasNext(s, cursor) == cursor < Rows[s]

\* The sequence number of the snapshot next() has just handed out.
LastSequence(cursor) == cursor - 1
=============================================================================
