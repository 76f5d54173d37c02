--------------------------- MODULE MidRingProofs ---------------------------
(***************************************************************************)
(* Lemmas about the ring of mid prices, for every window: where a push     *)
(* leaves the prices that are in it.                                       *)
(***************************************************************************)
EXTENDS MidRing, TLAPS

-----------------------------------------------------------------------------
(* The arithmetic of the slots.                                            *)

\* The index of momentumAtLookback without its modulo.
LEMMA SlotBehind ==
  ASSUME NEW h \in Slots, NEW k \in 1 .. Window
  PROVE  (h + Window - k) % Window = IF k <= h THEN h - k ELSE h + Window - k
<1>1. Window \in Nat \ {0} /\ h \in 0 .. Window - 1
  BY WindowAssumption DEF Slots
<1>2. CASE k <= h
  <2> DEFINE r == h - k
  <2>1. r \in 0 .. Window - 1 /\ h + Window - k = r + Window
    BY <1>1, <1>2
  <2>2. (r + Window) % Window = r
    BY <1>1, <2>1
  <2> QED
    BY <1>2, <2>1, <2>2
<1>3. CASE k > h
  <2> DEFINE r == h + Window - k
  <2>1. r \in 0 .. Window - 1
    BY <1>1, <1>3
  <2>2. r % Window = r
    BY <1>1, <2>1
  <2> QED
    BY <1>1, <1>3, <2>2
<1> QED
  BY <1>1, <1>2, <1>3

LEMMA NextHead ==
  ASSUME NEW h \in Slots
  PROVE  /\ (h + 1) % Window = IF h = Window - 1 THEN 0 ELSE h + 1
         /\ (h + 1) % Window \in Slots
<1>1. Window \in Nat \ {0} /\ h \in 0 .. Window - 1
  BY WindowAssumption DEF Slots
<1>2. CASE h = Window - 1
  <2>1. h + 1 = Window /\ Window % Window = 0
    BY <1>1, <1>2
  <2> QED
    BY <1>1, <1>2, <2>1 DEF Slots
<1>3. CASE h # Window - 1
  <2>1. h + 1 \in 0 .. Window - 1
    BY <1>1, <1>3
  <2>2. (h + 1) % Window = h + 1
    BY <1>1, <2>1
  <2> QED
    BY <1>3, <2>1, <2>2 DEF Slots
<1> QED
  BY <1>2, <1>3

\* After a push the newest price is one slot behind the head, and every other
\* one a slot further behind; the oldest may have been overwritten.
LEMMA PushShifts ==
  ASSUME NEW r \in [slot : [Slots -> Int], head : Slots, count : 0 .. Window],
         NEW mid \in Int
  PROVE  /\ MidAt(PushMid(r, mid), 1) = mid
         /\ \A k \in 2 .. Window : MidAt(PushMid(r, mid), k) = MidAt(r, k - 1)
<1> DEFINE p == PushMid(r, mid)
           h == r.head
<1>1. /\ Window \in Nat \ {0}
      /\ h \in Slots /\ h \in 0 .. Window - 1
      /\ r.slot \in [Slots -> Int]
  BY WindowAssumption DEF Slots
<1>2. /\ p.slot = [r.slot EXCEPT ![h] = mid]
      /\ p.head = IF h = Window - 1 THEN 0 ELSE h + 1
      /\ p.head \in Slots
  <2>1. p.slot = [r.slot EXCEPT ![h] = mid] /\ p.head = (h + 1) % Window
    BY DEF PushMid
  <2>2. (h + 1) % Window = (IF h = Window - 1 THEN 0 ELSE h + 1)
    BY <1>1, NextHead
  <2>3. (h + 1) % Window \in Slots
    BY <1>1, NextHead
  <2> QED
    BY <2>1, <2>2, <2>3
<1> HIDE DEF p, h
<1>3. MidAt(p, 1) = mid
  <2>1. 1 \in 1 .. Window
    BY <1>1
  <2>2. (p.head + Window - 1) % Window
          = IF 1 <= p.head THEN p.head - 1 ELSE p.head + Window - 1
    BY <1>2, <2>1, SlotBehind
  <2>3. (p.head + Window - 1) % Window = h
    BY <1>1, <1>2, <2>2
  <2> QED
    BY <1>1, <1>2, <2>3 DEF MidAt
<1>4. ASSUME NEW k \in 2 .. Window PROVE MidAt(p, k) = MidAt(r, k - 1)
  <2> DEFINE i == (h + Window - (k - 1)) % Window
  <2>1. k \in 1 .. Window /\ k - 1 \in 1 .. Window
    BY <1>1
  <2>2. i = IF k - 1 <= h THEN h - (k - 1) ELSE h + Window - (k - 1)
    BY <1>1, <2>1, SlotBehind
  <2>3. (p.head + Window - k) % Window
          = IF k <= p.head THEN p.head - k ELSE p.head + Window - k
    BY <1>2, <2>1, SlotBehind
  <2> HIDE DEF i
  <2>4. (p.head + Window - k) % Window = i
    BY <1>1, <1>2, <2>2, <2>3
  <2>5. i \in Slots /\ i # h
    BY <1>1, <2>2 DEF Slots
  <2>6. p.slot[i] = r.slot[i]
    BY <1>1, <1>2, <2>5
  <2> QED
    BY <2>4, <2>6 DEF MidAt, i, h
<1> QED
  BY <1>3, <1>4 DEF p

=============================================================================
