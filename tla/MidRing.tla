------------------------------ MODULE MidRing ------------------------------
(***************************************************************************)
(* The ring of the last mid prices (pushMidPrice and momentumAtLookback in *)
(* client/trade_processor.cpp), as operators on a record.  Prices are      *)
(* integers and a relative change is counted in 1/Scale, rounded down.     *)
(***************************************************************************)
EXTENDS Integers

CONSTANT Window   \* kMidWindow

ASSUME WindowAssumption == Window \in Nat \ {0}

Scale == 10000

Slots == 0 .. Window - 1

EmptyRing == [slot |-> [i \in Slots |-> 0], head |-> 0, count |-> 0]

\* Mutant: the count wraps with the head.
PushMidCountWraps(ring, mid) ==
  [slot  |-> [ring.slot EXCEPT ![ring.head] = mid],
   head  |-> (ring.head + 1) % Window,
   count |-> (ring.count + 1) % Window]

\* pushMidPrice
PushMid(ring, mid) ==
  [slot  |-> [ring.slot EXCEPT ![ring.head] = mid],
   head  |-> (ring.head + 1) % Window,
   count |-> IF ring.count < Window THEN ring.count + 1 ELSE Window]

\* The slot k behind the head: 1 is the newest mid.
MidAt(ring, k) == ring.slot[(ring.head + Window - k) % Window]

Change(new, old) == ((new - old) * Scale) \div old

\* momentumAtLookback
Momentum(ring, lookback) ==
  IF ring.count <= lookback \/ MidAt(ring, lookback) <= 0
  THEN 0
  ELSE Change(MidAt(ring, 1), MidAt(ring, lookback))
=============================================================================
