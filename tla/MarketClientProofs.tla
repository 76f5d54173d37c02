------------------------- MODULE MarketClientProofs -------------------------
(***************************************************************************)
(* One connection of a client that asks as client/main.cpp does, proved    *)
(* for any packet sizes, any buffer and any number of packets and signals: *)
(* although two threads of the server write to the socket without a common *)
(* lock, no two packets mix, and each callback is given the next packet as *)
(* a whole.  Wire alone does not promise that: a peer that asks again while *)
(* it is subscribed breaks it.                                             *)
(*                                                                         *)
(* The pieces between the two ends, in order, are the Flow: what readExact *)
(* has of the packet it reads, what is in flight, and what writeAll has    *)
(* left.  A send or a receive moves pieces within the Flow and changes     *)
(* nothing of it.                                                          *)
(***************************************************************************)
EXTENDS MarketClient, SequenceTheorems, TLAPS

Packets == [type : Types, n : 1 .. MaxPackets]

\* The pieces of a packet.
Total(p) == HeaderUnits + PayloadUnits[p.type]

\* Every piece is one of a packet that has been begun.
Genuine(s, packets) ==
  \A i \in 1 .. Len(s) :
    /\ s[i].packet.n \in 1 .. Len(packets)
    /\ s[i].packet = packets[s[i].packet.n]
    /\ s[i].part \in 1 .. Total(s[i].packet)

\* A piece is followed by the rest of its packet, and that by the next one.
Chained(s) ==
  \A i, j \in 1 .. Len(s) : i <= j =>
    /\ s[i].part + (j - i) <= Total(s[i].packet) =>
         s[j].packet = s[i].packet /\ s[j].part = s[i].part + (j - i)
    /\ s[i].part + (j - i) = Total(s[i].packet) + 1 =>
         s[j].packet.n = s[i].packet.n + 1 /\ s[j].part = 1

\* Unless reading is over, the flow begins with the packet after the heard
\* ones; while nothing has been lost it ends with the last packet begun.
FlowOK(s, packets, heard, whole, over) ==
  /\ Genuine(s, packets)
  /\ Chained(s)
  /\ s # <<>> /\ ~over => s[1].packet.n = heard + 1 /\ s[1].part = 1
  /\ whole /\ s = <<>> => over \/ heard = Len(packets)
  /\ whole /\ s # <<>> =>
       /\ s[Len(s)].packet.n = Len(packets)
       /\ s[Len(s)].part = Total(s[Len(s)].packet)

-----------------------------------------------------------------------------
(* Lemmas about sequences of pieces.                                       *)

LEMMA TotalIsNat ==
  ASSUME NEW p \in Packets
  PROVE  Total(p) \in Nat /\ HeaderUnits \in 1 .. Total(p)
BY WireAssumption DEF WireAssumption, Packets, Total

LEMMA UnitsOf ==
  ASSUME NEW p \in Packets
  PROVE  /\ Units(p) \in Seq(Pieces)
         /\ Len(Units(p)) = Total(p)
         /\ \A i \in 1 .. Total(p) : Units(p)[i] = [packet |-> p, part |-> i]
<1>1. Total(p) \in Nat
  BY TotalIsNat
<1>2. Units(p) = [i \in 1 .. Total(p) |-> [packet |-> p, part |-> i]]
  BY DEF Units, Total
<1>3. \A i \in 1 .. Total(p) : [packet |-> p, part |-> i] \in Pieces
  BY DEF Pieces, Packets
<1>4. Units(p) \in [1 .. Total(p) -> Pieces]
  BY <1>2, <1>3
<1> QED
  BY <1>1, <1>2, <1>4, SeqDef

\* Every piece of a genuine sequence is a piece of a packet.
LEMMA PieceFields ==
  ASSUME NEW s \in Seq(Pieces), NEW i \in 1 .. Len(s)
  PROVE  /\ s[i] \in Pieces
         /\ s[i].packet \in Packets /\ s[i].packet.n \in Nat /\ s[i].part \in Nat
         /\ Total(s[i].packet) \in Nat
         /\ s[i] = [packet |-> s[i].packet, part |-> s[i].part]
<1>1. s[i] \in Pieces
  BY ElementOfSeq
<1>2. s[i].packet \in Packets
  BY <1>1 DEF Pieces, Packets
<1> QED
  BY <1>1, <1>2, TotalIsNat DEF Pieces, Packets

\* The first part of a flow, when the rest is lost.
LEMMA PrefixFlow ==
  ASSUME NEW a \in Seq(Pieces), NEW b \in Seq(Pieces), NEW packets, NEW heard \in Nat,
         NEW over \in BOOLEAN, FlowOK(a \o b, packets, heard, FALSE, over)
  PROVE  FlowOK(a, packets, heard, FALSE, over)
<1> DEFINE s == a \o b
<1>1. /\ s \in Seq(Pieces) /\ Len(s) = Len(a) + Len(b)
      /\ Len(a) \in Nat /\ Len(b) \in Nat
      /\ \A i \in 1 .. Len(a) : i \in 1 .. Len(s) /\ s[i] = a[i]
  BY ConcatProperties, LenProperties
<1>2. Genuine(s, packets) /\ Chained(s)
  BY DEF FlowOK
<1> HIDE DEF s
<1>3. Genuine(a, packets)
  BY <1>1, <1>2 DEF Genuine
<1>4. Chained(a)
  <2> SUFFICES ASSUME NEW i \in 1 .. Len(a), NEW j \in 1 .. Len(a), i <= j
               PROVE  /\ a[i].part + (j - i) <= Total(a[i].packet) =>
                           a[j].packet = a[i].packet /\ a[j].part = a[i].part + (j - i)
                      /\ a[i].part + (j - i) = Total(a[i].packet) + 1 =>
                           a[j].packet.n = a[i].packet.n + 1 /\ a[j].part = 1
    BY DEF Chained
  <2>1. i \in 1 .. Len(s) /\ s[i] = a[i] /\ j \in 1 .. Len(s) /\ s[j] = a[j]
    BY <1>1
  <2> QED
    BY <1>2, <2>1 DEF Chained
<1>5. ASSUME a # <<>>, ~over PROVE a[1].packet.n = heard + 1 /\ a[1].part = 1
  <2>1. 1 \in 1 .. Len(a)
    BY <1>5, <1>1, EmptySeq
  <2>2. s # <<>> /\ s[1] = a[1]
    BY <1>1, <2>1, EmptySeq
  <2> QED
    BY <2>2, <1>5 DEF FlowOK, s
<1> QED
  BY <1>3, <1>4, <1>5 DEF FlowOK

\* The last part of a flow, when the first is given up.
LEMMA SuffixFlow ==
  ASSUME NEW a \in Seq(Pieces), NEW b \in Seq(Pieces), NEW packets, NEW heard \in Nat,
         NEW whole \in BOOLEAN, NEW over \in BOOLEAN,
         FlowOK(a \o b, packets, heard, whole, over)
  PROVE  FlowOK(b, packets, heard, whole, TRUE)
<1> DEFINE s == a \o b
<1>1. /\ s \in Seq(Pieces) /\ Len(s) = Len(a) + Len(b)
      /\ Len(a) \in Nat /\ Len(b) \in Nat
      /\ \A i \in 1 .. Len(b) : Len(a) + i \in 1 .. Len(s) /\ s[Len(a) + i] = b[i]
  BY ConcatProperties, LenProperties
<1>2. Genuine(s, packets) /\ Chained(s)
  BY DEF FlowOK
<1>3. s # <<>> /\ whole => /\ s[Len(s)].packet.n = Len(packets)
                           /\ s[Len(s)].part = Total(s[Len(s)].packet)
  BY DEF FlowOK
<1> HIDE DEF s
<1>4. Genuine(b, packets)
  <2> SUFFICES ASSUME NEW i \in 1 .. Len(b)
               PROVE  /\ b[i].packet.n \in 1 .. Len(packets)
                      /\ b[i].packet = packets[b[i].packet.n]
                      /\ b[i].part \in 1 .. Total(b[i].packet)
    BY DEF Genuine
  <2>1. Len(a) + i \in 1 .. Len(s) /\ s[Len(a) + i] = b[i]
    BY <1>1
  <2> QED
    BY <1>2, <2>1 DEF Genuine
<1>5. Chained(b)
  <2> SUFFICES ASSUME NEW i \in 1 .. Len(b), NEW j \in 1 .. Len(b), i <= j
               PROVE  /\ b[i].part + (j - i) <= Total(b[i].packet) =>
                           b[j].packet = b[i].packet /\ b[j].part = b[i].part + (j - i)
                      /\ b[i].part + (j - i) = Total(b[i].packet) + 1 =>
                           b[j].packet.n = b[i].packet.n + 1 /\ b[j].part = 1
    BY DEF Chained
  <2>1. /\ Len(a) + i \in 1 .. Len(s) /\ s[Len(a) + i] = b[i]
        /\ Len(a) + j \in 1 .. Len(s) /\ s[Len(a) + j] = b[j]
        /\ Len(a) + i <= Len(a) + j /\ (Len(a) + j) - (Len(a) + i) = j - i
    BY <1>1
  <2> QED
    BY <1>2, <2>1 DEF Chained
<1>6. ASSUME b # <<>>, whole
      PROVE  b[Len(b)].packet.n = Len(packets) /\ b[Len(b)].part = Total(b[Len(b)].packet)
  <2>1. Len(b) \in 1 .. Len(b)
    BY <1>6, <1>1, EmptySeq
  <2>2. s # <<>> /\ s[Len(s)] = b[Len(b)]
    BY <1>1, <2>1, EmptySeq
  <2> QED
    BY <1>3, <1>6, <2>2
<1> QED
  BY <1>4, <1>5, <1>6 DEF FlowOK

\* A packet that is begun after the connection has been lost.
LEMMA MoreFlow ==
  ASSUME NEW s \in Seq(Pieces), NEW packets \in Seq(Packets), NEW p \in Packets,
         NEW heard \in Nat, NEW over \in BOOLEAN,
         FlowOK(s, packets, heard, FALSE, over)
  PROVE  FlowOK(s, Append(packets, p), heard, FALSE, over)
<1>1. /\ Len(packets) \in Nat /\ Len(Append(packets, p)) = Len(packets) + 1
      /\ \A n \in 1 .. Len(packets) : Append(packets, p)[n] = packets[n]
  BY AppendProperties, LenProperties
<1>2. Genuine(s, packets)
  BY DEF FlowOK
<1>3. Genuine(s, Append(packets, p))
  <2> SUFFICES ASSUME NEW i \in 1 .. Len(s)
               PROVE  /\ s[i].packet.n \in 1 .. Len(Append(packets, p))
                      /\ s[i].packet = Append(packets, p)[s[i].packet.n]
                      /\ s[i].part \in 1 .. Total(s[i].packet)
    BY DEF Genuine
  <2>1. /\ s[i].packet.n \in 1 .. Len(packets)
        /\ s[i].packet = packets[s[i].packet.n]
        /\ s[i].part \in 1 .. Total(s[i].packet)
    BY <1>2 DEF Genuine
  <2> QED
    BY <1>1, <2>1
<1> QED
  BY <1>3 DEF FlowOK

\* A packet that is begun where the last one ends.
LEMMA BeginFlow ==
  ASSUME NEW s \in Seq(Pieces), NEW packets \in Seq(Packets), NEW p \in Packets,
         NEW heard \in Nat, NEW over \in BOOLEAN,
         p.n = Len(packets) + 1,
         FlowOK(s, packets, heard, TRUE, over)
  PROVE  FlowOK(s \o Units(p), Append(packets, p), heard, TRUE, over)
<1> DEFINE u == Units(p)
           after == Append(packets, p)
           t == s \o u
<1>1. /\ Len(packets) \in Nat /\ Len(after) = Len(packets) + 1
      /\ after[Len(packets) + 1] = p
  BY AppendProperties, LenProperties
<1>2. /\ Total(p) \in Nat /\ Total(p) > 0 /\ Len(u) = Total(p) /\ u \in Seq(Pieces)
      /\ \A i \in 1 .. Total(p) : u[i].packet = p /\ u[i].part = i
  <2>1. Total(p) \in Nat /\ Total(p) > 0
    BY TotalIsNat, WireAssumption DEF WireAssumption
  <2>2. /\ Len(u) = Total(p) /\ u \in Seq(Pieces)
        /\ \A i \in 1 .. Total(p) : u[i] = [packet |-> p, part |-> i]
    BY UnitsOf
  <2> QED
    BY <2>1, <2>2
<1>3. /\ t \in Seq(Pieces) /\ Len(s) \in Nat /\ Len(t) = Len(s) + Total(p)
      /\ \A i \in 1 .. Len(s) : t[i] = s[i]
      /\ \A i \in 1 .. Total(p) : t[Len(s) + i] = u[i]
  <2>1. /\ t \in Seq(Pieces) /\ Len(s) \in Nat /\ Len(t) = Len(s) + Total(p)
        /\ \A i \in 1 .. Len(s) + Total(p) : t[i] = IF i <= Len(s) THEN s[i] ELSE u[i - Len(s)]
    <3>1. /\ t \in Seq(Pieces) /\ Len(t) = Len(s) + Len(u)
          /\ \A i \in 1 .. Len(s) + Len(u) :
               t[i] = IF i <= Len(s) THEN s[i] ELSE u[i - Len(s)]
      BY <1>2, ConcatProperties
    <3> QED
      BY <1>2, <3>1, LenProperties
  <2> HIDE DEF t, u
  <2>2. ASSUME NEW i \in 1 .. Total(p) PROVE t[Len(s) + i] = u[i]
    <3>1. /\ Len(s) + i \in 1 .. Len(s) + Total(p) /\ ~(Len(s) + i <= Len(s))
          /\ (Len(s) + i) - Len(s) = i
      BY <1>2, <2>1
    <3> QED
      BY <2>1, <3>1
  <2> QED
    BY <1>2, <2>1, <2>2
<1> HIDE DEF u, t
<1>4. FlowOK(s, after, heard, FALSE, over)
  <2>1. FlowOK(s, packets, heard, FALSE, over)
    BY DEF FlowOK
  <2> QED
    BY <2>1, MoreFlow
<1>5. Genuine(s, after) /\ Chained(s)
  BY <1>4 DEF FlowOK
<1>6. s # <<>> => s[Len(s)].packet.n = Len(packets)
                  /\ s[Len(s)].part = Total(s[Len(s)].packet)
  BY DEF FlowOK
<1>7. t # <<>> /\ t[Len(t)].packet = p /\ t[Len(t)].part = Total(p)
  <2>1. Total(p) \in 1 .. Total(p) /\ Len(t) = Len(s) + Total(p)
    BY <1>2, <1>3
  <2>2. t[Len(t)] = u[Total(p)]
    BY <1>3, <2>1
  <2>3. t # <<>>
    BY <1>2, <1>3, EmptySeq
  <2> QED
    BY <1>2, <2>1, <2>2, <2>3
<1>8. ASSUME ~over PROVE t[1].packet.n = heard + 1 /\ t[1].part = 1
  <2>1. CASE s = <<>>
    <3>1. heard = Len(packets)
      BY <1>8, <2>1 DEF FlowOK
    <3>2. Len(s) = 0 /\ 1 \in 1 .. Total(p)
      BY <2>1, <1>2, EmptySeq
    <3>3. t[Len(s) + 1] = u[1] /\ Len(s) + 1 = 1
      BY <1>3, <3>2
    <3> QED
      BY <1>2, <3>1, <3>2, <3>3
  <2>2. CASE s # <<>>
    <3>1. 1 \in 1 .. Len(s)
      BY <2>2, <1>3, EmptySeq
    <3> QED
      BY <1>3, <1>8, <2>2, <3>1 DEF FlowOK
  <2> QED
    BY <2>1, <2>2
<1> HIDE DEF after
<1>9. Genuine(t, after)
  <2> SUFFICES ASSUME NEW i \in 1 .. Len(t)
               PROVE  /\ t[i].packet.n \in 1 .. Len(after)
                      /\ t[i].packet = after[t[i].packet.n]
                      /\ t[i].part \in 1 .. Total(t[i].packet)
    BY DEF Genuine
  <2>1. CASE i <= Len(s)
    BY <1>3, <1>5, <2>1 DEF Genuine
  <2>2. CASE i > Len(s)
    <3>1. i - Len(s) \in 1 .. Total(p) /\ i = Len(s) + (i - Len(s))
      BY <1>2, <1>3, <2>2
    <3>2. t[i] = u[i - Len(s)]
      BY <1>3, <3>1
    <3>3. t[i].packet = p /\ t[i].part = i - Len(s)
      BY <1>2, <3>1, <3>2
    <3> QED
      BY <1>1, <3>1, <3>3
  <2> QED
    BY <1>3, <2>1, <2>2
<1>10. Chained(t)
  <2> SUFFICES ASSUME NEW i \in 1 .. Len(t), NEW j \in 1 .. Len(t), i <= j
               PROVE  /\ t[i].part + (j - i) <= Total(t[i].packet) =>
                           t[j].packet = t[i].packet /\ t[j].part = t[i].part + (j - i)
                      /\ t[i].part + (j - i) = Total(t[i].packet) + 1 =>
                           t[j].packet.n = t[i].packet.n + 1 /\ t[j].part = 1
    BY DEF Chained
  <2>1. CASE j <= Len(s)
    <3>1. i \in 1 .. Len(s) /\ j \in 1 .. Len(s) /\ t[i] = s[i] /\ t[j] = s[j]
      BY <1>3, <2>1
    <3> QED
      BY <1>5, <3>1 DEF Chained
  <2>2. CASE i > Len(s)
    <3>1. /\ i - Len(s) \in 1 .. Total(p) /\ i = Len(s) + (i - Len(s))
          /\ j - Len(s) \in 1 .. Total(p) /\ j = Len(s) + (j - Len(s))
      BY <1>2, <1>3, <2>2
    <3>2. t[i] = u[i - Len(s)] /\ t[j] = u[j - Len(s)]
      BY <1>3, <3>1
    <3>3. /\ t[i].packet = p /\ t[i].part = i - Len(s)
          /\ t[j].packet = p /\ t[j].part = j - Len(s)
      BY <1>2, <3>1, <3>2
    <3> QED
      BY <1>2, <1>3, <3>1, <3>3
  <2>3. CASE i <= Len(s) /\ j > Len(s)
    <3>1. /\ i \in 1 .. Len(s) /\ t[i] = s[i] /\ Len(s) \in 1 .. Len(s) /\ s # <<>>
          /\ j - Len(s) \in 1 .. Total(p) /\ j = Len(s) + (j - Len(s))
      BY <1>2, <1>3, <2>3, EmptySeq
    <3>2. t[j].packet = p /\ t[j].part = j - Len(s)
      <4>1. t[j] = u[j - Len(s)]
        BY <1>3, <3>1
      <4> QED
        BY <1>2, <3>1, <4>1
    <3>3. s[i].part \in Nat /\ Total(s[i].packet) \in Nat /\ s[i].packet.n \in Nat
      BY <3>1, PieceFields
    <3>4. /\ s[i].part + (Len(s) - i) <= Total(s[i].packet) =>
               s[Len(s)].packet = s[i].packet /\ s[Len(s)].part = s[i].part + (Len(s) - i)
      BY <1>5, <3>1 DEF Chained
    <3>5. CASE s[i].part + (Len(s) - i) <= Total(s[i].packet)
      <4>1. s[i].packet.n = Len(packets) /\ s[i].part + (Len(s) - i) = Total(s[i].packet)
        BY <1>6, <3>1, <3>4, <3>5
      <4>2. s[i].part + (j - i) = Total(s[i].packet) + (j - Len(s))
        BY <1>3, <3>3, <4>1
      <4> QED
        BY <1>3, <3>1, <3>2, <3>3, <4>1, <4>2
    <3>6. CASE s[i].part + (Len(s) - i) > Total(s[i].packet)
      BY <1>3, <2>3, <3>1, <3>3, <3>6
    <3> QED
      BY <1>3, <3>3, <3>5, <3>6
  <2> QED
    BY <1>3, <2>1, <2>2, <2>3
<1>11. t[Len(t)].packet.n = Len(after) /\ t[Len(t)].part = Total(t[Len(t)].packet)
  BY <1>1, <1>7
<1> QED
  BY <1>7, <1>8, <1>9, <1>10, <1>11 DEF FlowOK, t, u, after

\* As many chained pieces as a packet has are the packet.
LEMMA WholePacket ==
  ASSUME NEW a \in Seq(Pieces), a # <<>>, Len(a) = Total(a[1].packet), a[1].part = 1,
         Chained(a)
  PROVE  Units(a[1].packet) = a
<1> DEFINE p == a[1].packet
<1>1. Len(a) \in Nat /\ 1 \in 1 .. Len(a)
  BY LenProperties, EmptySeq
<1>2. p \in Packets /\ Len(a) = Total(p)
  BY <1>1, PieceFields
<1>3. ASSUME NEW i \in 1 .. Len(a) PROVE a[i] = [packet |-> p, part |-> i]
  <2>1. 1 <= i /\ a[1].part + (i - 1) = i /\ i <= Total(a[1].packet)
    BY <1>1, <1>2
  <2>2. a[i].packet = p /\ a[i].part = i
    BY <1>1, <2>1 DEF Chained
  <2> QED
    BY <2>2, PieceFields
<1>4. Units(p) \in Seq(Pieces) /\ Len(Units(p)) = Total(p)
      /\ \A i \in 1 .. Total(p) : Units(p)[i] = [packet |-> p, part |-> i]
  BY <1>2, UnitsOf
<1> QED
  BY <1>2, <1>3, <1>4, SeqEqual

\* What is left when it has been handled.
LEMMA NextFlow ==
  ASSUME NEW a \in Seq(Pieces), NEW b \in Seq(Pieces), NEW packets \in Seq(Packets),
         NEW heard \in Nat, NEW whole \in BOOLEAN,
         a # <<>>, Len(a) = Total(a[1].packet),
         FlowOK(a \o b, packets, heard, whole, FALSE)
  PROVE  FlowOK(b, packets, heard + 1, whole, FALSE)
<1> DEFINE s == a \o b
           p == a[1].packet
<1>1. /\ s \in Seq(Pieces) /\ Len(s) = Len(a) + Len(b)
      /\ Len(a) \in Nat \ {0} /\ Len(b) \in Nat
      /\ \A i \in 1 .. Len(a) : i \in 1 .. Len(s) /\ s[i] = a[i]
      /\ \A i \in 1 .. Len(b) : Len(a) + i \in 1 .. Len(s) /\ s[Len(a) + i] = b[i]
  BY ConcatProperties, LenProperties, EmptySeq
<1>2. 1 \in 1 .. Len(a) /\ Len(a) \in 1 .. Len(a) /\ s # <<>> /\ s[1] = a[1]
  BY <1>1, EmptySeq
<1>3. Genuine(s, packets) /\ Chained(s) /\ FlowOK(b, packets, heard, whole, TRUE)
  <2>1. FALSE \in BOOLEAN
    OBVIOUS
  <2> QED
    BY <2>1, SuffixFlow DEF FlowOK
<1>4. p \in Packets /\ Len(a) = Total(p) /\ p.n = heard + 1 /\ a[1].part = 1
  BY <1>2, PieceFields DEF FlowOK
<1> HIDE DEF s
<1>5. Len(a) \in 1 .. Total(p) /\ a[Len(a)].packet = p
  <2>1. 1 \in 1 .. Len(s) /\ Len(a) \in 1 .. Len(s) /\ 1 <= Len(a)
        /\ s[1].part + (Len(a) - 1) <= Total(s[1].packet) /\ s[Len(a)] = a[Len(a)]
    BY <1>1, <1>2, <1>4
  <2>2. s[Len(a)].packet = s[1].packet
    BY <1>3, <2>1 DEF Chained
  <2> QED
    BY <1>1, <1>2, <1>4, <2>1, <2>2
<1>6. ASSUME b # <<>> PROVE b[1].packet.n = (heard + 1) + 1 /\ b[1].part = 1
  <2>1. 1 \in 1 .. Len(b) /\ Len(a) + 1 \in 1 .. Len(s) /\ s[Len(a) + 1] = b[1]
    BY <1>1, <1>6, EmptySeq
  <2>2. 1 \in 1 .. Len(s) /\ s[1].part + ((Len(a) + 1) - 1) = Total(s[1].packet) + 1
    BY <1>1, <1>2, <1>4
  <2>3. 1 <= Len(a) + 1 /\ s[1].packet.n = heard + 1
    BY <1>1, <1>2, <1>4
  <2> QED
    BY <1>3, <2>1, <2>2, <2>3 DEF Chained
<1>7. ASSUME whole, b = <<>> PROVE heard + 1 = Len(packets)
  <2>1. Len(b) = 0 /\ Len(s) = Len(a)
    BY <1>1, <1>7, EmptySeq
  <2>2. s[Len(s)] = a[Len(a)] /\ s[Len(s)].packet.n = Len(packets)
    BY <1>1, <1>2, <1>7, <2>1 DEF FlowOK, s
  <2> QED
    BY <1>4, <1>5, <2>2
<1> QED
  BY <1>3, <1>6, <1>7 DEF FlowOK

\* Pieces that move from the front of one sequence to the end of the other.
LEMMA Moved ==
  ASSUME NEW a \in Seq(Pieces), NEW b \in Seq(Pieces), NEW n \in 0 .. Len(b)
  PROVE  /\ SubSeq(b, 1, n) \in Seq(Pieces) /\ Len(SubSeq(b, 1, n)) = n
         /\ SubSeq(b, n + 1, Len(b)) \in Seq(Pieces)
         /\ SubSeq(b, 1, n) \o SubSeq(b, n + 1, Len(b)) = b
         /\ (a \o SubSeq(b, 1, n)) \o SubSeq(b, n + 1, Len(b)) = a \o b
<1> DEFINE c == SubSeq(b, 1, n)
           d == SubSeq(b, n + 1, Len(b))
<1>1. Len(b) \in Nat /\ n \in Nat /\ n <= Len(b) /\ \A i \in 1 .. Len(b) : b[i] \in Pieces
  BY LenProperties, ElementOfSeq
<1>2. c \in Seq(Pieces) /\ Len(c) = n /\ \A i \in 1 .. n : c[i] = b[i]
  BY <1>1, SubSeqProperties
<1>3. d \in Seq(Pieces) /\ Len(d) = Len(b) - n /\ \A i \in 1 .. Len(b) - n : d[i] = b[n + i]
  BY <1>1, SubSeqProperties
<1> HIDE DEF c, d
<1>4. c \o d = b
  <2>1. c \o d \in Seq(Pieces) /\ Len(c \o d) = Len(b)
    <3>1. c \o d \in Seq(Pieces) /\ Len(c \o d) = Len(c) + Len(d)
      BY <1>2, <1>3, ConcatProperties
    <3> QED
      BY <1>1, <1>2, <1>3, <3>1
  <2>2. ASSUME NEW i \in 1 .. Len(b) PROVE (c \o d)[i] = b[i]
    <3>1. (c \o d)[i] = IF i <= n THEN c[i] ELSE d[i - n]
      BY <1>1, <1>2, <1>3, ConcatProperties
    <3>2. CASE i <= n
      BY <1>1, <1>2, <3>1, <3>2
    <3>3. CASE i > n
      <4>1. i - n \in 1 .. Len(b) - n /\ n + (i - n) = i
        BY <1>1, <3>3
      <4> QED
        BY <1>1, <1>3, <3>1, <3>3, <4>1
    <3>4. i <= n \/ i > n
      BY <1>1
    <3> QED
      BY <3>2, <3>3, <3>4
  <2> QED
    BY <2>1, <2>2, SeqEqual
<1>5. (a \o c) \o d = a \o b
  <2>1. (a \o c) \o d = a \o (c \o d)
    BY <1>2, <1>3, ConcatAssociative
  <2> QED
    BY <1>4, <2>1
<1> QED
  BY <1>2, <1>3, <1>4, <1>5 DEF c, d

-----------------------------------------------------------------------------
(* The invariant.                                                          *)

Labels == {"create", "socket", "connect", "connected", "loop", "header", "payload",
           "subscribe", "finish", "exited"}

ClientTypes ==
  /\ peerUp \in BOOLEAN /\ open \in BOOLEAN /\ subscribed \in BOOLEAN /\ pending \in BOOLEAN
  /\ created \in BOOLEAN /\ running \in BOOLEAN /\ fdOpen \in BOOLEAN
  /\ pc \in Labels
  /\ handlerPc \in {"accept", "welcome", "loop"}
  /\ stream \in Seq(Pieces) /\ got \in Seq(Pieces) /\ header \in Seq(Pieces)
  /\ unsent \in [Writers -> Seq(Pieces)]
  /\ handled \in Seq(Seq(Pieces))
  /\ asked \in {0, 1}
  /\ uplink \in Seq({"Subscribe", "SubscribeUnknown"}) /\ Len(uplink) <= 1
  /\ Len(stream) <= Buffer

\* Packets are numbered as they are begun, and only the first is a Welcome.
SentNumbered ==
  /\ sent \in Seq(Packets)
  /\ Len(sent) <= MaxPackets
  /\ \A i \in 1 .. Len(sent) : sent[i].n = i /\ (sent[i].type = "Welcome" => i = 1)

\* What readExact has been asked for is not exceeded, and a header is whole.
ReadBounded ==
  /\ Reading => Len(got) <= Size
  /\ pc = "payload" => Len(header) = HeaderUnits
  /\ disconnects \in {0, 1}
  /\ pc # "exited" => disconnects = 0

\* The client asks once, after its first packet, the Welcome.
AsksOnce ==
  /\ handled = <<>> => asked = 0
  /\ pc = "subscribe" => asked = 0 /\ Len(handled) = 1
  /\ asked = 0 => Len(sent) <= 1 /\ uplink = <<>> /\ unsent["worker"] = <<>> /\ ~subscribed /\ ~pending

\* Nothing has happened on the connection before it is accepted.
Fresh ==
  /\ pc \in {"create", "socket", "connect"} => handlerPc = "accept"
  /\ handlerPc = "accept" => ~open /\ ~peerUp /\ stream = <<>>
                             /\ pc \in {"create", "socket", "connect", "exited"}
  /\ handlerPc # "loop" => sent = <<>> /\ asked = 0 /\ unsent["handler"] = <<>>

\* At most one thread of the server writes, and none that could is still to
\* read the request: a subscription, active or to be activated, lets the worker
\* write, a request the handler.
OneWriter ==
  /\ subscribed \/ pending => uplink = <<>> /\ unsent["handler"] = <<>>
  /\ unsent["worker"] # <<>> => uplink = <<>> /\ unsent["handler"] = <<>>
  /\ uplink # <<>> /\ open => unsent["handler"] = <<>>

\* What readExact holds of the packet it is reading.
Held == IF pc = "header" THEN got ELSE IF pc = "payload" THEN header \o got ELSE <<>>

\* What writeAll will still add, unless the connection is lost.
Coming == IF open /\ peerUp THEN unsent["handler"] \o unsent["worker"] ELSE <<>>

Flow == (Held \o stream) \o Coming

Whole == open /\ peerUp
IsOver == pc \in {"finish", "exited"}

FlowInv == FlowOK(Flow, sent, Len(handled), Whole, IsOver)

ClientInv ==
  /\ ClientTypes
  /\ SentNumbered
  /\ ReadBounded
  /\ AsksOnce
  /\ Fresh
  /\ OneWriter
  /\ FlowInv
  /\ CallbacksFollowStream

LEMMA FlowTypes ==
  ASSUME ClientTypes
  PROVE  /\ Held \in Seq(Pieces) /\ Coming \in Seq(Pieces)
         /\ Held \o stream \in Seq(Pieces) /\ Flow \in Seq(Pieces)
         /\ unsent["handler"] \in Seq(Pieces) /\ unsent["worker"] \in Seq(Pieces)
         /\ Whole \in BOOLEAN /\ IsOver \in BOOLEAN
         /\ Len(handled) \in Nat
<1>1. stream \in Seq(Pieces) /\ got \in Seq(Pieces) /\ header \in Seq(Pieces)
      /\ unsent["handler"] \in Seq(Pieces) /\ unsent["worker"] \in Seq(Pieces)
  BY DEF ClientTypes, Writers
<1>2. Held \in Seq(Pieces)
  BY <1>1, ConcatProperties, EmptySeq DEF Held
<1>3. Coming \in Seq(Pieces)
  BY <1>1, ConcatProperties, EmptySeq DEF Coming
<1>4. Held \o stream \in Seq(Pieces)
  BY <1>1, <1>2, ConcatProperties
<1>5. Flow \in Seq(Pieces)
  BY <1>3, <1>4, ConcatProperties DEF Flow
<1>6. Whole \in BOOLEAN /\ IsOver \in BOOLEAN
  BY DEF ClientTypes, Whole, IsOver
<1>7. Len(handled) \in Nat
  BY LenProperties DEF ClientTypes
<1> QED
  BY <1>1, <1>2, <1>3, <1>4, <1>5, <1>6, <1>7

\* A packet is begun by a thread of the server when none is being written.
LEMMA BeginKeeps ==
  ASSUME ClientInv, NEW w \in Writers, NEW type \in Types,
         type = "Welcome" => sent = <<>>,
         \A v \in Writers : unsent[v] = <<>>,
         Begin(w, type),
         UNCHANGED <<peerUp, open, stream, clientVars>>
  PROVE  /\ unsent' \in [Writers -> Seq(Pieces)]
         /\ \A v \in Writers \ {w} : unsent'[v] = <<>>
         /\ SentNumbered' /\ FlowInv' /\ CallbacksFollowStream'
         /\ Len(sent') = Len(sent) + 1
<1> DEFINE p == [type |-> type, n |-> Len(sent) + 1]
<1>1. sent \in Seq(Packets) /\ Len(sent) \in Nat /\ Len(sent) < MaxPackets
      /\ \A i \in 1 .. Len(sent) : sent[i].n = i /\ (sent[i].type = "Welcome" => i = 1)
  BY LenProperties DEF ClientInv, SentNumbered, Begin
<1>2. p \in Packets
  BY <1>1, WireAssumption DEF WireAssumption, Packets
<1>3. sent' = Append(sent, p) /\ unsent' = [unsent EXCEPT ![w] = Units(p)]
  BY DEF Begin
<1>4. Units(p) \in Seq(Pieces)
  BY <1>2, UnitsOf
<1>5. /\ sent' \in Seq(Packets) /\ Len(sent') = Len(sent) + 1
      /\ \A i \in 1 .. Len(sent) : sent'[i] = sent[i]
      /\ sent'[Len(sent) + 1] = p
  BY <1>1, <1>2, <1>3, AppendProperties
<1>6. unsent' \in [Writers -> Seq(Pieces)] /\ \A v \in Writers \ {w} : unsent'[v] = <<>>
  BY <1>3, <1>4 DEF ClientInv, ClientTypes
<1>7. SentNumbered'
  <2>1. ASSUME NEW i \in 1 .. Len(sent) + 1
        PROVE  sent'[i].n = i /\ (sent'[i].type = "Welcome" => i = 1)
    <3>1. CASE i = Len(sent) + 1
      <4>1. type = "Welcome" => Len(sent) = 0
        BY EmptySeq
      <4> QED
        BY <1>1, <1>5, <3>1, <4>1
    <3>2. CASE i # Len(sent) + 1
      <4>1. i \in 1 .. Len(sent)
        BY <1>1, <3>2
      <4> QED
        BY <1>1, <1>5, <4>1
    <3> QED
      BY <3>1, <3>2
  <2> QED
    BY <1>1, <1>5, <2>1, WireAssumption DEF SentNumbered, WireAssumption
<1>8. CallbacksFollowStream'
  <2>1. handled' = handled /\ Len(handled) \in Nat
    BY FlowTypes DEF clientVars, threadVars, ClientInv
  <2>2. Len(handled) <= Len(sent) /\ \A i \in 1 .. Len(handled) : handled[i] = Units(sent[i])
    BY DEF ClientInv, CallbacksFollowStream
  <2>3. ASSUME NEW i \in 1 .. Len(handled) PROVE handled[i] = Units(sent'[i])
    <3>1. i \in 1 .. Len(sent)
      BY <1>1, <2>1, <2>2
    <3>2. sent'[i] = sent[i]
      BY <1>5, <3>1
    <3> QED
      BY <2>2, <3>2
  <2> QED
    BY <1>1, <1>5, <2>1, <2>2, <2>3 DEF CallbacksFollowStream
<1>9. FlowInv'
  <2> DEFINE s == Held \o stream
  <2>1. /\ s \in Seq(Pieces) /\ Len(handled) \in Nat
        /\ Whole \in BOOLEAN /\ IsOver \in BOOLEAN /\ FlowOK(Flow, sent, Len(handled), Whole, IsOver)
    BY FlowTypes DEF ClientInv, FlowInv
  <2>2. Held' = Held /\ stream' = stream /\ handled' = handled /\ Whole' = Whole
        /\ IsOver' = IsOver
    BY DEF Held, Whole, IsOver, clientVars, threadVars
  <2>3. Coming = <<>>
    <3>1. unsent["handler"] = <<>> /\ unsent["worker"] = <<>>
      BY DEF Writers
    <3>2. <<>> \o <<>> = <<>>
      BY EmptySeq, ConcatEmptySeq
    <3> QED
      BY <3>1, <3>2 DEF Coming
  <2>4. Flow = s
    BY <2>1, <2>3, ConcatEmptySeq DEF Flow
  <2>5. CASE Whole
    <3>1. Coming' = Units(p)
      <4>1. \/ unsent'["handler"] = Units(p) /\ unsent'["worker"] = <<>>
            \/ unsent'["handler"] = <<>> /\ unsent'["worker"] = Units(p)
        BY <1>3 DEF ClientInv, ClientTypes, Writers
      <4>2. Coming' = unsent'["handler"] \o unsent'["worker"]
        BY <2>2, <2>5 DEF Coming, Whole
      <4> QED
        BY <4>1, <4>2, <1>4, ConcatEmptySeq
    <3>2. Flow' = s \o Units(p)
      BY <2>2, <3>1 DEF Flow
    <3>3. FlowOK(s, sent, Len(handled), TRUE, IsOver)
      BY <2>1, <2>4, <2>5 DEF FlowOK
    <3>4. p.n = Len(sent) + 1
      OBVIOUS
    <3>5. FlowOK(s \o Units(p), sent', Len(handled), TRUE, IsOver)
      BY <1>1, <1>2, <1>3, <2>1, <3>3, <3>4, BeginFlow
    <3> QED
      BY <2>1, <2>2, <2>5, <3>2, <3>5 DEF FlowInv, FlowOK
  <2>6. CASE ~Whole
    <3>1. Coming' = <<>>
      BY <2>2, <2>6 DEF Coming, Whole
    <3>2. Flow' = s
      BY <2>1, <2>2, <3>1, ConcatEmptySeq DEF Flow
    <3>3. FlowOK(s, sent, Len(handled), FALSE, IsOver)
      BY <2>1, <2>4, <2>6 DEF FlowOK
    <3>4. FlowOK(s, sent', Len(handled), FALSE, IsOver)
      BY <1>1, <1>2, <1>3, <2>1, <3>3, MoreFlow
    <3> QED
      BY <2>1, <2>2, <2>6, <3>2, <3>4 DEF FlowInv, FlowOK
  <2> QED
    BY <2>5, <2>6
<1> QED
  BY <1>5, <1>6, <1>7, <1>8, <1>9

-----------------------------------------------------------------------------
(* The steps of the server.                                                *)

\* What depends on the client alone.
LEMMA ClientAlone ==
  ASSUME ClientInv, UNCHANGED <<clientVars, sent>>
  PROVE  SentNumbered' /\ ReadBounded' /\ CallbacksFollowStream' /\ Held' = Held
         /\ IsOver' = IsOver
BY DEF ClientInv, clientVars, threadVars, SentNumbered, ReadBounded, Reading, Size,
       CallbacksFollowStream, Held, IsOver

\* A send moves pieces from the writer to the stream.
LEMMA WriterSendsKeeps ==
  ASSUME ClientInv, NEW w \in Writers, WriterSends(w), UNCHANGED clientVars
  PROVE  ClientInv'
<1>1. PICK n \in 1 .. Len(unsent[w]) :
        /\ Len(stream) + n <= Buffer
        /\ stream' = stream \o SubSeq(unsent[w], 1, n)
        /\ unsent' = [unsent EXCEPT ![w] = Rest(unsent[w], n)]
  BY DEF WriterSends
<1> DEFINE u == unsent[w]
           c == SubSeq(u, 1, n)
           d == SubSeq(u, n + 1, Len(u))
<1>2. UNCHANGED <<peerUp, open, handlerPc, subscribed, pending, uplink, asked, sent>> /\ open /\ peerUp
  BY DEF WriterSends, sessionVars
<1>3. /\ u \in Seq(Pieces) /\ Len(u) \in Nat /\ n \in 0 .. Len(u) /\ u # <<>>
      /\ stream \in Seq(Pieces) /\ Len(stream) \in Nat
  BY LenProperties, EmptySeq DEF ClientInv, ClientTypes
<1>4. c \in Seq(Pieces) /\ Len(c) = n /\ d \in Seq(Pieces)
  BY <1>3, Moved
<1>5. stream' \in Seq(Pieces) /\ Len(stream') <= Buffer
  BY <1>1, <1>3, <1>4, ConcatProperties
<1>6. /\ unsent'[w] = d
      /\ \A v \in Writers \ {w} : unsent[v] = <<>> /\ unsent'[v] = <<>>
      /\ unsent' \in [Writers -> Seq(Pieces)]
  <2>1. \A v \in Writers \ {w} : unsent[v] = <<>>
    BY <1>3 DEF ClientInv, OneWriter, Writers
  <2> QED
    BY <1>1, <1>4, <2>1 DEF ClientInv, ClientTypes, Rest
<1>7. ClientTypes'
  BY <1>2, <1>5, <1>6 DEF ClientInv, ClientTypes, clientVars, threadVars
<1>8. Fresh' /\ AsksOnce'
  <2>1. handlerPc = "loop"
    BY <1>2, <1>3 DEF ClientInv, Fresh, AsksOnce, Writers, ClientTypes
  <2>2. asked = 0 => unsent'["worker"] = <<>>
    BY <1>3, <1>6 DEF ClientInv, AsksOnce, Writers
  <2>3. Fresh'
    BY <1>2, <2>1 DEF ClientInv, Fresh, clientVars, threadVars
  <2>4. AsksOnce'
    BY <1>2, <2>2 DEF ClientInv, AsksOnce, clientVars, threadVars
  <2> QED
    BY <2>3, <2>4
<1>9. OneWriter'
  BY <1>2, <1>3, <1>6 DEF ClientInv, OneWriter, Writers
<1>10. FlowInv'
  <2>1. Coming = u
    BY <1>2, <1>3, <1>6, ConcatEmptySeq DEF Coming, Writers
  <2>2. Coming' = d
    BY <1>2, <1>4, <1>6, ConcatEmptySeq DEF Coming, Writers
  <2>3. Held' = Held /\ IsOver' = IsOver /\ Held \in Seq(Pieces) /\ Held \o stream \in Seq(Pieces)
    BY <1>2, ClientAlone, FlowTypes DEF ClientInv
  <2>4. (Held \o stream) \o c = Held \o (stream \o c)
    BY <1>3, <1>4, <2>3, ConcatAssociative
  <2>5. ((Held \o stream) \o c) \o d = (Held \o stream) \o u
    BY <1>3, <2>3, Moved
  <2>6. Flow' = Flow
    BY <1>1, <2>1, <2>2, <2>3, <2>4, <2>5 DEF Flow
  <2>7. Whole' = Whole /\ handled' = handled
    BY <1>2 DEF Whole, clientVars, threadVars
  <2> QED
    BY <1>2, <2>3, <2>6, <2>7 DEF ClientInv, FlowInv
<1> QED
  BY <1>2, <1>7, <1>8, <1>9, <1>10, ClientAlone DEF ClientInv

LEMMA Associative ==
  ASSUME NEW a \in Seq(Pieces), NEW b \in Seq(Pieces), NEW c \in Seq(Pieces)
  PROVE  (a \o b) \o c = a \o (b \o c)
BY ConcatAssociative

\* What is lost of the flow when one side ends the connection.
LEMMA Truncated ==
  ASSUME NEW a \in Seq(Pieces), NEW s \in Seq(Pieces), NEW b \in Seq(Pieces),
         NEW n \in 0 .. Len(s)
  PROVE  /\ a \o SubSeq(s, 1, n) \in Seq(Pieces)
         /\ SubSeq(s, n + 1, Len(s)) \o b \in Seq(Pieces)
         /\ (a \o s) \o b = (a \o SubSeq(s, 1, n)) \o (SubSeq(s, n + 1, Len(s)) \o b)
<1> DEFINE c == SubSeq(s, 1, n)
           d == SubSeq(s, n + 1, Len(s))
<1>1. c \in Seq(Pieces) /\ d \in Seq(Pieces) /\ (a \o c) \o d = a \o s
  BY Moved
<1> HIDE DEF c, d
<1>2. a \o c \in Seq(Pieces) /\ d \o b \in Seq(Pieces)
  BY <1>1, ConcatProperties
<1>3. ((a \o c) \o d) \o b = (a \o c) \o (d \o b)
  BY <1>1, <1>2, Associative, ZenonT(20)
<1> QED
  BY <1>1, <1>2, <1>3 DEF c, d

LEMMA FlowLost ==
  ASSUME ClientInv, ClientTypes', ~Whole', IsOver' = IsOver, handled' = handled,
         sent' = sent, Held' = Held,
         NEW n \in 0 .. Len(stream), stream' = SubSeq(stream, 1, n)
  PROVE  FlowInv'
<1>1. /\ Held \in Seq(Pieces) /\ stream \in Seq(Pieces) /\ Coming \in Seq(Pieces)
      /\ Whole \in BOOLEAN /\ IsOver \in BOOLEAN /\ Len(handled) \in Nat
      /\ FlowOK(Flow, sent, Len(handled), Whole, IsOver)
  BY FlowTypes DEF ClientInv, ClientTypes, FlowInv
<1>2. PICK c \in Seq(Pieces), d \in Seq(Pieces) : Flow = c \o d /\ Held' \o stream' = c
  <2>1. /\ Held \o SubSeq(stream, 1, n) \in Seq(Pieces)
        /\ SubSeq(stream, n + 1, Len(stream)) \o Coming \in Seq(Pieces)
        /\ Flow = (Held \o SubSeq(stream, 1, n))
                  \o (SubSeq(stream, n + 1, Len(stream)) \o Coming)
        /\ Held' \o stream' = Held \o SubSeq(stream, 1, n)
    BY <1>1, Truncated DEF Flow
  <2> QED
    BY <2>1
<1>3. FlowOK(c \o d, sent, Len(handled), FALSE, IsOver)
  BY <1>1, <1>2 DEF FlowOK
<1>4. FlowOK(c, sent, Len(handled), FALSE, IsOver)
  <2>1. \A over \in BOOLEAN :
          FlowOK(c \o d, sent, Len(handled), FALSE, over) =>
            FlowOK(c, sent, Len(handled), FALSE, over)
    BY <1>1, PrefixFlow
  <2> QED
    BY <1>1, <1>3, <2>1
<1>5. Flow' = c
  <2>1. Coming' = <<>>
    BY DEF Coming, Whole
  <2> QED
    BY <1>2, <2>1, ConcatEmptySeq DEF Flow
<1>6. Whole' \in BOOLEAN /\ Whole' = FALSE
  BY DEF ClientTypes, Whole
<1> QED
  BY <1>4, <1>5, <1>6 DEF FlowInv

\* A send fails only on a connection that is lost.
LEMMA WriterFailsKeeps ==
  ASSUME ClientInv, NEW w \in Writers, WriterFails(w), UNCHANGED clientVars
  PROVE  ClientInv'
<1>1. /\ UNCHANGED <<peerUp, stream, handlerPc, uplink, asked, sent>>
      /\ ~(open /\ peerUp) /\ unsent[w] # <<>>
      /\ unsent' = [unsent EXCEPT ![w] = <<>>]
  BY DEF WriterFails, Idle
<1>2. /\ open' \in BOOLEAN /\ subscribed' \in BOOLEAN /\ pending' \in BOOLEAN
      /\ open' => open
      /\ subscribed' => subscribed
      /\ pending' => pending
  BY DEF WriterFails, ClientInv, ClientTypes
<1>3. /\ unsent' \in [Writers -> Seq(Pieces)]
      /\ unsent'["handler"] \in {unsent["handler"], <<>>}
      /\ unsent'["worker"] \in {unsent["worker"], <<>>}
  BY <1>1, EmptySeq DEF ClientInv, ClientTypes, Writers
<1>4. ClientTypes'
  BY <1>1, <1>2, <1>3 DEF ClientInv, ClientTypes, clientVars, threadVars
<1>5. AsksOnce'
  BY <1>1, <1>2, <1>3 DEF ClientInv, AsksOnce, clientVars, threadVars
<1>6. Fresh'
  BY <1>1, <1>2, <1>3 DEF ClientInv, Fresh, clientVars, threadVars
<1>7. OneWriter'
  BY <1>1, <1>2, <1>3 DEF ClientInv, OneWriter
<1>8. FlowInv'
  <2>1. ~Whole' /\ handled' = handled
    BY <1>1, <1>2 DEF Whole, clientVars, threadVars
  <2>2. stream \in Seq(Pieces)
    BY DEF ClientInv, ClientTypes
  <2>3. Len(stream) \in 0 .. Len(stream) /\ stream' = SubSeq(stream, 1, Len(stream))
    BY <1>1, <2>2, LenProperties, SubSeqFull
  <2> QED
    BY <1>1, <1>4, <2>1, <2>3, ClientAlone, FlowLost
<1> QED
  BY <1>1, <1>4, <1>5, <1>6, <1>7, <1>8, ClientAlone DEF ClientInv

\* stop or removeClient closes the socket.
LEMMA ServerClosesKeeps ==
  ASSUME ClientInv, ServerCloses, UNCHANGED clientVars
  PROVE  ClientInv'
<1>1. PICK n \in 0 .. Len(stream) : stream' = SubSeq(stream, 1, n)
  BY DEF ServerCloses
<1>2. UNCHANGED <<peerUp, unsent, handlerPc, uplink, asked, sent>> /\ open
      /\ open' = FALSE /\ subscribed' = FALSE /\ pending' = FALSE
  BY DEF ServerCloses
<1>3. stream \in Seq(Pieces) /\ Len(stream) \in Nat /\ Len(stream) <= Buffer /\ Buffer \in Nat
  BY LenProperties, WireAssumption DEF ClientInv, ClientTypes, WireAssumption
<1>4. stream' \in Seq(Pieces) /\ Len(stream') <= Buffer
  BY <1>1, <1>3, Moved
<1>5. ClientTypes'
  BY <1>2, <1>4 DEF ClientInv, ClientTypes, clientVars, threadVars
<1>6. AsksOnce'
  BY <1>2 DEF ClientInv, AsksOnce, clientVars, threadVars
<1>7. Fresh'
  BY <1>2 DEF ClientInv, Fresh, clientVars, threadVars
<1>8. OneWriter'
  BY <1>2 DEF ClientInv, OneWriter
<1>9. FlowInv'
  <2>1. ~Whole' /\ handled' = handled
    BY <1>2 DEF Whole, clientVars, threadVars
  <2> QED
    BY <1>1, <1>2, <1>5, <2>1, ClientAlone, FlowLost
<1> QED
  BY <1>2, <1>5, <1>6, <1>7, <1>8, <1>9, ClientAlone DEF ClientInv

\* The handler greets the connection before anybody else writes.
LEMMA HandlerWelcomeKeeps ==
  ASSUME ClientInv, HandlerWelcome, UNCHANGED clientVars
  PROVE  ClientInv'
<1>1. /\ UNCHANGED <<peerUp, open, stream, subscribed, pending, uplink, asked>>
      /\ handlerPc = "welcome" /\ handlerPc' = "loop" /\ Begin("handler", "Welcome")
  BY DEF HandlerWelcome, sessionVars
<1>2. /\ sent = <<>> /\ Len(sent) = 0 /\ asked = 0 /\ uplink = <<>> /\ ~subscribed /\ ~pending
      /\ \A v \in Writers : unsent[v] = <<>>
  BY <1>1 DEF ClientInv, Fresh, AsksOnce, Writers
<1>3. /\ unsent' \in [Writers -> Seq(Pieces)] /\ unsent'["worker"] = <<>>
      /\ SentNumbered' /\ FlowInv' /\ CallbacksFollowStream' /\ Len(sent') = 1
  BY <1>1, <1>2, BeginKeeps DEF Writers, Types
<1>4. ClientTypes'
  BY <1>1, <1>3 DEF ClientInv, ClientTypes, clientVars, threadVars
<1>5. AsksOnce'
  BY <1>1, <1>2, <1>3 DEF ClientInv, AsksOnce, clientVars, threadVars
<1>6. Fresh'
  BY <1>1 DEF ClientInv, Fresh, clientVars, threadVars
<1>7. OneWriter'
  BY <1>1, <1>2, <1>3 DEF OneWriter
<1>8. ReadBounded'
  BY DEF ClientInv, ReadBounded, Reading, Size, clientVars, threadVars
<1> QED
  BY <1>3, <1>4, <1>5, <1>6, <1>7, <1>8 DEF ClientInv

\* The one request: from then on either the worker may write or the handler.
LEMMA HandlerReceiveKeeps ==
  ASSUME ClientInv, HandlerReceive, UNCHANGED clientVars
  PROVE  ClientInv'
<1>1. /\ UNCHANGED <<peerUp, open, stream, handlerPc, asked>>
      /\ handlerPc = "loop" /\ open /\ uplink # <<>> /\ uplink' = Tail(uplink)
  BY DEF HandlerReceive
<1>2. /\ uplink' = <<>> /\ asked = 1 /\ ~subscribed /\ ~pending
      /\ Head(uplink) \in {"Subscribe", "SubscribeUnknown"}
      /\ \A v \in Writers : unsent[v] = <<>>
  <2>1. asked = 1 /\ ~subscribed /\ ~pending
    BY <1>1 DEF ClientInv, ClientTypes, AsksOnce, OneWriter
  <2>2. \A v \in Writers : unsent[v] = <<>>
    BY <1>1 DEF ClientInv, OneWriter, Writers
  <2>4. Tail(uplink) = <<>> /\ Head(uplink) \in {"Subscribe", "SubscribeUnknown"}
    <3> DEFINE R == {"Subscribe", "SubscribeUnknown"}
    <3>1. uplink \in Seq(R) /\ Len(uplink) <= 1
      BY DEF ClientInv, ClientTypes
    <3> HIDE DEF R
    <3>2. /\ Head(uplink) \in R /\ Tail(uplink) \in Seq(R)
          /\ Len(Tail(uplink)) = Len(uplink) - 1 /\ Len(uplink) \in Nat
          /\ Len(Tail(uplink)) \in Nat
      BY <1>1, <3>1, HeadTailProperties, LenProperties
    <3>3. Len(Tail(uplink)) = 0
      BY <3>1, <3>2
    <3> QED
      BY <3>2, <3>3, EmptySeq DEF R
  <2> QED
    BY <1>1, <2>1, <2>2, <2>4
<1>3. ReadBounded'
  BY DEF ClientInv, ReadBounded, Reading, Size, clientVars, threadVars
<1>4. Fresh'
  BY <1>1 DEF ClientInv, Fresh, clientVars, threadVars
<1>5. AsksOnce'
  BY <1>1, <1>2 DEF ClientInv, AsksOnce, clientVars, threadVars
<1>6. CASE UNCHANGED <<unsent, sent>> /\ subscribed' \in BOOLEAN /\ pending' \in BOOLEAN
  <2>1. ClientTypes' /\ OneWriter'
    BY <1>1, <1>2, <1>6 DEF ClientInv, ClientTypes, OneWriter, clientVars, threadVars, Writers
  <2>2. Flow' = Flow /\ Whole' = Whole
    BY <1>1, <1>6 DEF Flow, Held, Coming, Whole, clientVars, threadVars
  <2>3. FlowInv'
    BY <1>6, <2>2, ClientAlone DEF ClientInv, FlowInv, clientVars, threadVars
  <2> QED
    BY <1>3, <1>4, <1>5, <1>6, <2>1, <2>3, ClientAlone DEF ClientInv
<1>7. CASE /\ Head(uplink) \in DOMAIN Answer /\ UNCHANGED <<subscribed, pending>>
           /\ Begin("handler", Answer[Head(uplink)])
  <2>1. Answer[Head(uplink)] = "Error"
    BY <1>2, <1>7 DEF Answer
  <2>2. /\ unsent' \in [Writers -> Seq(Pieces)] /\ unsent'["worker"] = <<>>
        /\ SentNumbered' /\ FlowInv' /\ CallbacksFollowStream'
    BY <1>1, <1>2, <1>7, <2>1, BeginKeeps DEF Writers, Types
  <2>3. ClientTypes' /\ OneWriter'
    BY <1>1, <1>2, <1>7, <2>2
       DEF ClientInv, ClientTypes, OneWriter, clientVars, threadVars
  <2> QED
    BY <1>3, <1>4, <1>5, <2>2, <2>3 DEF ClientInv
<1> QED
  BY <1>6, <1>7 DEF HandlerReceive, SetSession, sessionVars

\* The worker writes to a subscriber, whose request has been answered.
LEMMA WorkerSendsKeeps ==
  ASSUME ClientInv, WorkerSends, UNCHANGED clientVars
  PROVE  ClientInv'
<1>1. PICK type \in {"MarketUpdate", "ReplayDone"} : Begin("worker", type)
  BY DEF WorkerSends
<1>2. /\ UNCHANGED <<peerUp, open, stream, handlerPc, subscribed, pending, uplink, asked>>
      /\ open /\ subscribed
  BY DEF WorkerSends, sessionVars
<1>3. /\ uplink = <<>> /\ asked = 1 /\ \A v \in Writers : unsent[v] = <<>>
  BY <1>1, <1>2 DEF ClientInv, ClientTypes, AsksOnce, OneWriter, Writers, Begin, Idle
<1>4. /\ unsent' \in [Writers -> Seq(Pieces)] /\ unsent'["handler"] = <<>>
      /\ SentNumbered' /\ FlowInv' /\ CallbacksFollowStream'
  BY <1>1, <1>2, <1>3, BeginKeeps DEF Writers, Types
<1>5. ClientTypes' /\ OneWriter'
  BY <1>2, <1>3, <1>4 DEF ClientInv, ClientTypes, OneWriter, clientVars, threadVars
<1>6. AsksOnce'
  BY <1>2, <1>3 DEF ClientInv, AsksOnce, clientVars, threadVars
<1>7. Fresh'
  BY <1>2, <1>3 DEF ClientInv, Fresh, clientVars, threadVars
<1>8. ReadBounded'
  BY DEF ClientInv, ReadBounded, Reading, Size, clientVars, threadVars
<1> QED
  BY <1>4, <1>5, <1>6, <1>7, <1>8 DEF ClientInv

\* A feed has been registered: the worker may write to those who waited.
LEMMA ActivateKeeps ==
  ASSUME ClientInv, Activate, UNCHANGED clientVars
  PROVE  ClientInv'
<1>1. /\ UNCHANGED <<peerUp, open, stream, unsent, handlerPc, uplink, asked, sent>>
      /\ pending /\ subscribed' = TRUE /\ pending' = FALSE
  BY DEF Activate
<1>2. ClientTypes' /\ OneWriter' /\ AsksOnce'
  BY <1>1 DEF ClientInv, ClientTypes, OneWriter, AsksOnce, clientVars, threadVars
<1>3. Fresh'
  BY <1>1 DEF ClientInv, Fresh, clientVars, threadVars
<1>4. FlowInv'
  <2>1. Flow' = Flow /\ Whole' = Whole
    BY <1>1 DEF Flow, Held, Coming, Whole, clientVars, threadVars
  <2> QED
    BY <1>1, <2>1, ClientAlone DEF ClientInv, FlowInv, clientVars, threadVars
<1> QED
  BY <1>1, <1>2, <1>3, <1>4, ClientAlone DEF ClientInv

-----------------------------------------------------------------------------
(* The steps of the client.                                                *)

\* Reading ends: what readExact had of a packet is given up.
LEMMA GivesUp ==
  ASSUME ClientInv, pc' \in {"finish", "exited"}, UNCHANGED <<wireVars, handled>>
  PROVE  FlowInv'
<1>1. /\ Held \in Seq(Pieces) /\ stream \in Seq(Pieces) /\ Coming \in Seq(Pieces)
      /\ Whole \in BOOLEAN /\ IsOver \in BOOLEAN /\ Len(handled) \in Nat
      /\ FlowOK(Flow, sent, Len(handled), Whole, IsOver)
  BY FlowTypes DEF ClientInv, ClientTypes, FlowInv
<1>2. stream \o Coming \in Seq(Pieces) /\ Flow = Held \o (stream \o Coming)
  BY <1>1, Associative, ConcatProperties DEF Flow
<1>3. Flow' = stream \o Coming
  <2>1. Held' = <<>> /\ stream' = stream /\ Coming' = Coming
    BY DEF Held, Coming, wireVars, serverVars, sessionVars
  <2> QED
    BY <1>1, <2>1, ConcatEmptySeq DEF Flow
<1>4. FlowOK(stream \o Coming, sent, Len(handled), Whole, TRUE)
  <2>1. \A whole, over \in BOOLEAN :
          FlowOK(Held \o (stream \o Coming), sent, Len(handled), whole, over) =>
            FlowOK(stream \o Coming, sent, Len(handled), whole, TRUE)
    BY <1>1, <1>2, SuffixFlow
  <2> QED
    BY <1>1, <1>2, <2>1
<1>5. Whole' = Whole /\ sent' = sent /\ IsOver' /\ IsOver' \in BOOLEAN
  BY DEF Whole, IsOver, wireVars, serverVars, sessionVars
<1> QED
  BY <1>1, <1>3, <1>4, <1>5 DEF FlowInv, FlowOK

\* Nothing moves between the two ends.
LEMMA FlowStays ==
  ASSUME ClientInv, UNCHANGED <<peerUp, open, stream, unsent, sent, handled>>,
         Held' = Held, IsOver' = IsOver
  PROVE  FlowInv'
BY DEF ClientInv, FlowInv, Flow, Coming, Whole

\* main and connect, up to the connection.
LEMMA StartKeeps ==
  ASSUME ClientInv, Create \/ Socket \/ ConnectFails \/ Connected
  PROVE  ClientInv'
<1>1. /\ UNCHANGED <<peerUp, stream, open, unsent, handlerPc, subscribed, pending, sent, uplink, asked>>
      /\ UNCHANGED <<got, header, handled, disconnects>>
  BY DEF Create, Socket, ConnectFails, Connected, wireVars, serverVars, sessionVars
<1>2. /\ pc \in {"create", "socket", "connect", "connected"}
      /\ pc' \in {"socket", "connect", "loop", "exited"}
      /\ pc' # "loop" => handlerPc = "accept"
      /\ pc # "connected" => handlerPc = "accept" /\ pc' # "loop"
      /\ pc = "connected" => pc' = "loop"
  BY DEF Create, Socket, ConnectFails, Connected, ClientInv, Fresh
<1>3. created' \in BOOLEAN /\ running' \in BOOLEAN /\ fdOpen' \in BOOLEAN
  BY DEF Create, Socket, ConnectFails, Connected, ClientInv, ClientTypes
<1>4. ClientTypes'
  BY <1>1, <1>2, <1>3 DEF ClientInv, ClientTypes, Labels
<1>5. SentNumbered' /\ CallbacksFollowStream' /\ OneWriter'
  BY <1>1 DEF ClientInv, SentNumbered, CallbacksFollowStream, OneWriter
<1>6. ReadBounded'
  BY <1>1, <1>2 DEF ClientInv, ReadBounded, Reading
<1>7. AsksOnce'
  BY <1>1, <1>2 DEF ClientInv, AsksOnce
<1>8. Fresh'
  BY <1>1, <1>2 DEF ClientInv, Fresh
<1>9. FlowInv'
  <2>1. CASE pc' = "exited"
    BY <1>1, <2>1, GivesUp DEF wireVars, serverVars, sessionVars
  <2>2. CASE pc' # "exited"
    BY <1>1, <1>2, <2>2, FlowStays DEF Held, IsOver
  <2> QED
    BY <2>1, <2>2
<1> QED
  BY <1>4, <1>5, <1>6, <1>7, <1>8, <1>9 DEF ClientInv

\* A connection begins with nothing in flight.
LEMMA ConnectKeeps ==
  ASSUME ClientInv, Connect
  PROVE  ClientInv'
<1>1. /\ pc = "connect" /\ pc' = "connected" /\ handlerPc = "accept" /\ handlerPc' = "welcome"
      /\ peerUp' = TRUE /\ open' = TRUE
      /\ UNCHANGED <<stream, unsent, subscribed, pending, uplink, asked, sent>>
      /\ UNCHANGED <<created, running, fdOpen, got, header, handled, disconnects, signals>>
  BY DEF Connect, PeerConnects, sessionVars
<1>2. /\ sent = <<>> /\ asked = 0 /\ unsent["handler"] = <<>> /\ stream = <<>>
      /\ unsent["worker"] = <<>> /\ uplink = <<>> /\ ~subscribed /\ ~pending
  BY <1>1 DEF ClientInv, Fresh, AsksOnce
<1>3. ClientTypes'
  BY <1>1 DEF ClientInv, ClientTypes, Labels
<1>4. SentNumbered' /\ CallbacksFollowStream'
  BY <1>1 DEF ClientInv, SentNumbered, CallbacksFollowStream
<1>5. ReadBounded'
  BY <1>1 DEF ClientInv, ReadBounded, Reading
<1>6. AsksOnce' /\ OneWriter'
  BY <1>1, <1>2 DEF ClientInv, AsksOnce, OneWriter
<1>7. Fresh'
  BY <1>1, <1>2 DEF Fresh
<1>8. FlowInv'
  <2>1. Flow' = <<>>
    <3>1. <<>> \o <<>> = <<>>
      BY EmptySeq, ConcatEmptySeq
    <3> QED
      BY <1>1, <1>2, <3>1 DEF Flow, Held, Coming
  <2>2. Len(handled) = 0 /\ Len(sent) = 0
    BY <1>2, FlowTypes DEF ClientInv, CallbacksFollowStream
  <2>3. Len(<<>>) = 0
    OBVIOUS
  <2> QED
    BY <1>1, <2>1, <2>2, <2>3 DEF FlowInv, FlowOK, Genuine, Chained
<1> QED
  BY <1>3, <1>4, <1>5, <1>6, <1>7, <1>8 DEF ClientInv

\* The size of what is read.
LEMMA SizeIsNat ==
  ASSUME ClientInv, Reading
  PROVE  /\ Size \in Nat
         /\ pc = "payload" => /\ header # <<>> /\ 1 \in 1 .. Len(header)
                              /\ HeaderUnits + Size = Total(header[1].packet)
<1>1. CASE pc = "header"
  BY <1>1, WireAssumption DEF Size, WireAssumption
<1>2. CASE pc = "payload"
  <2>1. header \in Seq(Pieces) /\ Len(header) = HeaderUnits /\ HeaderUnits \in Nat \ {0}
    BY <1>2, WireAssumption DEF WireAssumption, ClientInv, ClientTypes, ReadBounded
  <2>2. header # <<>> /\ 1 \in 1 .. Len(header)
    BY <2>1, EmptySeq
  <2>3. header[1].packet \in Packets
    BY <2>1, <2>2, PieceFields
  <2>4. Size = PayloadUnits[header[1].packet.type]
    BY <1>2 DEF Size
  <2>5. Size \in Nat
    BY <2>3, <2>4, WireAssumption DEF WireAssumption, Packets
  <2> QED
    BY <2>2, <2>4, <2>5 DEF Total
<1> QED
  BY <1>1, <1>2 DEF Reading

\* A receive moves pieces from the stream to what readExact has.
LEMMA ReceiveKeeps ==
  ASSUME ClientInv, Receive
  PROVE  ClientInv'
<1>1. PICK n \in 1 .. Wanted : PeerReads(n) /\ got' = got \o SubSeq(stream, 1, n)
  BY DEF Receive
<1> DEFINE c == SubSeq(stream, 1, n)
           d == SubSeq(stream, n + 1, Len(stream))
<1>2. /\ UNCHANGED <<peerUp, uplink, asked, open, unsent, handlerPc, subscribed, pending, sent>>
      /\ UNCHANGED <<pc, created, running, fdOpen, header, handled, disconnects, signals>>
      /\ stream' = d /\ n \in 1 .. Len(stream) /\ Reading /\ Len(got) < Size
  BY <1>1 DEF Receive, PeerReads, serverVars, sessionVars
<1>3. /\ stream \in Seq(Pieces) /\ got \in Seq(Pieces) /\ header \in Seq(Pieces)
      /\ Len(stream) \in Nat /\ Len(got) \in Nat /\ Len(stream) <= Buffer
      /\ Coming \in Seq(Pieces) /\ Size \in Nat /\ Buffer \in Nat
  BY <1>2, FlowTypes, SizeIsNat, LenProperties, WireAssumption
     DEF ClientInv, ClientTypes, WireAssumption
<1>4. n \in 0 .. Len(stream) /\ n <= Size - Len(got)
  BY <1>1, <1>2, <1>3 DEF Wanted
<1>5. /\ c \in Seq(Pieces) /\ Len(c) = n /\ d \in Seq(Pieces) /\ c \o d = stream
      /\ Len(d) <= Len(stream)
  <2>1. c \in Seq(Pieces) /\ Len(c) = n /\ d \in Seq(Pieces) /\ c \o d = stream
    BY <1>3, <1>4, Moved
  <2>2. Len(c \o d) = Len(c) + Len(d) /\ Len(d) \in Nat
    BY <2>1, ConcatProperties, LenProperties
  <2> QED
    BY <1>3, <1>4, <2>1, <2>2
<1>6. got' \in Seq(Pieces) /\ Len(got') = Len(got) + n
  BY <1>1, <1>3, <1>5, ConcatProperties
<1>7. ClientTypes'
  BY <1>2, <1>3, <1>5, <1>6 DEF ClientInv, ClientTypes
<1>8. SentNumbered' /\ CallbacksFollowStream' /\ OneWriter' /\ AsksOnce'
  BY <1>2 DEF ClientInv, SentNumbered, CallbacksFollowStream, OneWriter, AsksOnce
<1>9. ReadBounded'
  <2>1. Size' = Size
    BY <1>2 DEF Size
  <2> QED
    BY <1>2, <1>3, <1>4, <1>6, <2>1 DEF ClientInv, ReadBounded, Reading
<1>10. Fresh'
  BY <1>2 DEF ClientInv, Fresh, Reading
<1>11. FlowInv'
  <2>1. Held' = Held \o c /\ Held \in Seq(Pieces)
    <3>1. CASE pc = "header"
      BY <1>1, <1>2, <1>3, <3>1 DEF Held
    <3>2. CASE pc = "payload"
      <4>1. header \o (got \o c) = (header \o got) \o c
        BY <1>3, <1>5, Associative
      <4>2. header \o got \in Seq(Pieces)
        BY <1>3, ConcatProperties
      <4> QED
        BY <1>1, <1>2, <3>2, <4>1, <4>2 DEF Held
    <3> QED
      BY <1>2, <3>1, <3>2 DEF Reading
  <2>2. (Held \o c) \o d = Held \o stream
    BY <1>3, <1>4, <2>1, Moved
  <2>3. Held' \o stream' = Held \o stream /\ Coming' = Coming
    BY <1>2, <2>1, <2>2 DEF Coming
  <2>4. Flow' = Flow
    BY <2>3 DEF Flow
  <2> QED
    BY <1>2, <2>4 DEF ClientInv, FlowInv, Whole, IsOver
<1> QED
  BY <1>7, <1>8, <1>9, <1>10, <1>11 DEF ClientInv

\* The loop, from packet to packet.
LEMMA LoopKeeps ==
  ASSUME ClientInv, Loop
  PROVE  ClientInv'
<1>1. /\ UNCHANGED <<peerUp, stream, open, unsent, handlerPc, subscribed, pending, sent, uplink, asked>>
      /\ UNCHANGED <<created, running, fdOpen, header, handled, disconnects, signals>>
      /\ pc = "loop" /\ got' = <<>> /\ pc' \in {"header", "finish"}
  BY DEF Loop, wireVars, serverVars, sessionVars
<1>2. ClientTypes'
  BY <1>1, EmptySeq DEF ClientInv, ClientTypes, Labels
<1>3. SentNumbered' /\ CallbacksFollowStream' /\ OneWriter'
  BY <1>1 DEF ClientInv, SentNumbered, CallbacksFollowStream, OneWriter
<1>4. AsksOnce' /\ Fresh'
  BY <1>1 DEF ClientInv, AsksOnce, Fresh
<1>5. ReadBounded'
  <2>1. Len(<<>>) = 0
    OBVIOUS
  <2> QED
    BY <1>1, <2>1, WireAssumption DEF ClientInv, ReadBounded, Reading, Size, WireAssumption
<1>6. FlowInv'
  <2>1. CASE pc' = "finish"
    BY <1>1, <2>1, GivesUp DEF wireVars, serverVars, sessionVars
  <2>2. CASE pc' = "header"
    BY <1>1, <2>2, FlowStays DEF Held, IsOver
  <2> QED
    BY <1>1, <2>1, <2>2
<1> QED
  BY <1>2, <1>3, <1>4, <1>5, <1>6 DEF ClientInv

\* readExact gives up, or run returns.
LEMMA EndKeeps ==
  ASSUME ClientInv, ReceiveFails \/ Finish
  PROVE  ClientInv'
<1>1. /\ UNCHANGED <<peerUp, stream, open, unsent, handlerPc, subscribed, pending, sent, uplink, asked>>
      /\ UNCHANGED <<created, fdOpen, got, header, handled, signals>>
      /\ \/ pc \in {"header", "payload"} /\ pc' = "finish" /\ UNCHANGED <<running, disconnects>>
         \/ /\ pc = "finish" /\ pc' = "exited" /\ running' = FALSE
            /\ disconnects' = disconnects + 1
  BY DEF ReceiveFails, Finish, Reading, wireVars, serverVars, sessionVars
<1>2. ClientTypes'
  BY <1>1 DEF ClientInv, ClientTypes, Labels
<1>3. SentNumbered' /\ CallbacksFollowStream' /\ OneWriter'
  BY <1>1 DEF ClientInv, SentNumbered, CallbacksFollowStream, OneWriter
<1>4. AsksOnce' /\ Fresh'
  BY <1>1 DEF ClientInv, AsksOnce, Fresh
<1>5. ReadBounded'
  BY <1>1 DEF ClientInv, ReadBounded, Reading
<1>6. FlowInv'
  BY <1>1, GivesUp DEF wireVars, serverVars, sessionVars
<1> QED
  BY <1>2, <1>3, <1>4, <1>5, <1>6 DEF ClientInv

\* A header that has been received is the header of the next packet: the check
\* of magic and version never fails.
LEMMA HeaderKeeps ==
  ASSUME ClientInv, HeaderReceived
  PROVE  ClientInv' /\ pc' = "payload"
<1>1. /\ UNCHANGED <<peerUp, stream, open, unsent, handlerPc, subscribed, pending, sent, uplink, asked>>
      /\ UNCHANGED <<created, running, fdOpen, handled, disconnects, signals>>
      /\ pc = "header" /\ header' = got /\ got' = <<>>
      /\ pc' = IF IsHeader(got) THEN "payload" ELSE "finish"
  BY DEF HeaderReceived, wireVars, serverVars, sessionVars
<1>2. Len(got) = HeaderUnits /\ HeaderUnits \in Nat \ {0} /\ got \in Seq(Pieces)
  BY <1>1, WireAssumption
     DEF HeaderReceived, HasReceived, Size, WireAssumption, ClientInv, ClientTypes
<1>3. got # <<>> /\ 1 \in 1 .. Len(got)
  BY <1>2, EmptySeq
<1> DEFINE p == got[1].packet
<1>4. p \in Packets /\ Total(p) \in Nat /\ HeaderUnits <= Total(p)
  <2>1. p \in Packets
    BY <1>2, <1>3, PieceFields
  <2> QED
    BY <1>2, <2>1, TotalIsNat
<1>5. \A i \in 1 .. HeaderUnits : got[i] = [packet |-> p, part |-> i]
  <2>1. /\ stream \in Seq(Pieces) /\ Coming \in Seq(Pieces) /\ got \o stream \in Seq(Pieces)
        /\ Held = got
    BY <1>1, FlowTypes DEF ClientInv, ClientTypes, Held
  <2>2. Flow \in Seq(Pieces) /\ Len(Flow) \in Nat
        /\ \A i \in 1 .. HeaderUnits : i \in 1 .. Len(Flow) /\ Flow[i] = got[i]
    <3>1. stream \o Coming \in Seq(Pieces) /\ Flow = got \o (stream \o Coming)
      BY <1>2, <2>1, Associative, ConcatProperties DEF Flow
    <3> QED
      BY <1>2, <3>1, ConcatProperties, LenProperties
  <2>3. Flow # <<>> /\ Flow[1] = got[1] /\ 1 \in 1 .. Len(Flow)
    BY <1>2, <2>2, EmptySeq
  <2>4. Chained(Flow) /\ Flow[1].part = 1
    BY <1>1, <2>3 DEF ClientInv, FlowInv, FlowOK, IsOver
  <2> SUFFICES ASSUME NEW i \in 1 .. HeaderUnits PROVE got[i] = [packet |-> p, part |-> i]
    OBVIOUS
  <2>5. i \in 1 .. Len(Flow) /\ Flow[i] = got[i] /\ 1 <= i
        /\ Flow[1].part + (i - 1) = i /\ i <= Total(Flow[1].packet)
    BY <1>2, <1>4, <2>2, <2>3, <2>4
  <2>6. Flow[i].packet = p /\ Flow[i].part = i
    BY <2>3, <2>4, <2>5 DEF Chained
  <2> QED
    BY <1>2, <2>5, <2>6, PieceFields
<1>6. IsHeader(got)
  <2> DEFINE u == Units(p)
  <2>1. u \in Seq(Pieces) /\ Len(u) = Total(p)
        /\ \A i \in 1 .. Total(p) : u[i] = [packet |-> p, part |-> i]
    BY <1>4, UnitsOf
  <2> HIDE DEF u
  <2>2. ASSUME NEW i \in 1 .. HeaderUnits PROVE u[i] = got[i] /\ u[i] \in Pieces
    <3>1. i \in 1 .. Total(p) /\ i \in 1 .. Len(got)
      BY <1>2, <1>4
    <3>2. got[i] \in Pieces
      BY <1>2, <3>1, ElementOfSeq
    <3> QED
      BY <1>5, <2>1, <3>1, <3>2
  <2>3. /\ SubSeq(u, 1, HeaderUnits) \in Seq(Pieces)
        /\ Len(SubSeq(u, 1, HeaderUnits)) = HeaderUnits
        /\ \A i \in 1 .. HeaderUnits : SubSeq(u, 1, HeaderUnits)[i] = u[i]
    BY <1>2, <2>2, SubSeqProperties
  <2>4. got = SubSeq(u, 1, HeaderUnits)
    BY <1>2, <2>2, <2>3, SeqEqual
  <2> QED
    BY <1>3, <2>4 DEF IsHeader, u
<1>7. pc' = "payload"
  BY <1>1, <1>6
<1>8. ClientTypes'
  BY <1>1, <1>7, EmptySeq DEF ClientInv, ClientTypes, Labels
<1>9. SentNumbered' /\ CallbacksFollowStream' /\ OneWriter' /\ AsksOnce' /\ Fresh'
  BY <1>1, <1>7 DEF ClientInv, SentNumbered, CallbacksFollowStream, OneWriter, AsksOnce, Fresh
<1>10. ReadBounded'
  <2>1. Size' = PayloadUnits[p.type] /\ Size' \in Nat
    BY <1>1, <1>4, <1>7, WireAssumption DEF Size, WireAssumption, Packets
  <2>2. Len(got') = 0
    BY <1>1
  <2> QED
    BY <1>1, <1>2, <1>7, <2>1, <2>2 DEF ClientInv, ReadBounded
<1>11. FlowInv'
  <2>1. Held' = Held
    BY <1>1, <1>2, <1>7, ConcatEmptySeq DEF Held
  <2> QED
    BY <1>1, <1>7, <2>1, FlowStays DEF IsOver
<1> QED
  BY <1>7, <1>8, <1>9, <1>10, <1>11 DEF ClientInv

\* The callback is given the next packet.
LEMMA PayloadKeeps ==
  ASSUME ClientInv, PayloadReceived
  PROVE  ClientInv'
<1> DEFINE a == header \o got
           b == stream \o Coming
           h == Len(handled)
<1>1. /\ UNCHANGED <<peerUp, stream, open, unsent, handlerPc, subscribed, pending, sent, uplink, asked>>
      /\ UNCHANGED <<created, running, fdOpen, got, header, disconnects, signals>>
      /\ pc = "payload" /\ handled' = Append(handled, a) /\ Len(got) = Size
      /\ pc' = IF header[1].packet.type = "Welcome" THEN "subscribe" ELSE "loop"
  BY DEF PayloadReceived, HasReceived, wireVars, serverVars, sessionVars
<1>2. /\ header \in Seq(Pieces) /\ got \in Seq(Pieces) /\ stream \in Seq(Pieces)
      /\ Coming \in Seq(Pieces) /\ Whole \in BOOLEAN /\ h \in Nat
      /\ handled \in Seq(Seq(Pieces)) /\ sent \in Seq(Packets) /\ Len(sent) \in Nat
  BY FlowTypes, LenProperties DEF ClientInv, ClientTypes, SentNumbered
<1>3. Len(header) = HeaderUnits /\ header # <<>> /\ 1 \in 1 .. Len(header)
      /\ HeaderUnits + Size = Total(header[1].packet)
  BY <1>1, SizeIsNat DEF ClientInv, ReadBounded, Reading
<1>4. /\ a \in Seq(Pieces) /\ Len(a) = Total(a[1].packet) /\ a # <<>> /\ a[1] = header[1]
  <2>1. a \in Seq(Pieces) /\ Len(a) = Len(header) + Len(got) /\ a[1] = header[1]
        /\ Len(header) \in Nat /\ Len(got) \in Nat
    BY <1>2, <1>3, ConcatProperties, LenProperties
  <2>2. Len(a) # 0
    BY <1>3, <2>1
  <2> QED
    BY <1>1, <1>3, <2>1, <2>2, EmptySeq
<1>5. b \in Seq(Pieces) /\ Flow = a \o b
  <2>1. Held = a
    BY <1>1 DEF Held
  <2> QED
    BY <1>2, <1>4, <2>1, Associative, ConcatProperties DEF Flow
<1>6. FlowOK(Flow, sent, h, Whole, FALSE)
  BY <1>1 DEF ClientInv, FlowInv, FlowOK, IsOver
<1> HIDE DEF a, b, h
<1>7. /\ h + 1 \in 1 .. Len(sent) /\ a[1].packet = sent[h + 1]
      /\ a = Units(sent[h + 1]) /\ FlowOK(b, sent, h + 1, Whole, FALSE)
  <2>1. /\ h + 1 \in 1 .. Len(sent) /\ a[1].packet = sent[h + 1]
        /\ Units(sent[h + 1]) = a
    <3>1. FlowOK(a \o b, sent, h, FALSE, FALSE)
      BY <1>5, <1>6 DEF FlowOK
    <3>2. \A over \in BOOLEAN :
            FlowOK(a \o b, sent, h, FALSE, over) => FlowOK(a, sent, h, FALSE, over)
      BY <1>2, <1>4, <1>5, PrefixFlow
    <3>3. FlowOK(a, sent, h, FALSE, FALSE)
      BY <3>1, <3>2
    <3>4. 1 \in 1 .. Len(a)
      BY <1>4, LenProperties, EmptySeq
    <3>5. a[1].packet.n = h + 1 /\ a[1].part = 1 /\ Chained(a)
          /\ h + 1 \in 1 .. Len(sent) /\ a[1].packet = sent[h + 1]
      BY <1>4, <3>3, <3>4 DEF FlowOK, Genuine
    <3> QED
      BY <1>4, <3>5, WholePacket
  <2>3. \A whole \in BOOLEAN :
          FlowOK(a \o b, sent, h, whole, FALSE) => FlowOK(b, sent, h + 1, whole, FALSE)
    BY <1>2, <1>4, <1>5, NextFlow
  <2>2. FlowOK(a \o b, sent, h, Whole, FALSE)
    BY <1>5, <1>6
  <2> QED
    BY <1>2, <2>1, <2>2, <2>3
<1>8. /\ handled' \in Seq(Seq(Pieces)) /\ Len(handled') = h + 1 /\ handled' # <<>>
      /\ handled'[h + 1] = a /\ \A i \in 1 .. h : handled'[i] = handled[i]
  <2>1. /\ handled' \in Seq(Seq(Pieces)) /\ Len(handled') = h + 1
        /\ handled'[h + 1] = a /\ \A i \in 1 .. h : handled'[i] = handled[i]
    BY <1>1, <1>2, <1>4, AppendProperties DEF h
  <2> QED
    BY <1>2, <2>1, EmptySeq
<1>9. CallbacksFollowStream'
  <2>1. h <= Len(sent) /\ \A i \in 1 .. h : handled[i] = Units(sent[i])
    BY DEF ClientInv, CallbacksFollowStream, h
  <2>2. ASSUME NEW i \in 1 .. h + 1 PROVE handled'[i] = Units(sent[i])
    <3>1. CASE i = h + 1
      BY <1>7, <1>8, <3>1
    <3>2. CASE i # h + 1
      <4>1. i \in 1 .. h
        BY <1>2, <3>2
      <4> QED
        BY <1>8, <2>1, <4>1
    <3> QED
      BY <3>1, <3>2
  <2> QED
    BY <1>1, <1>7, <1>8, <2>2 DEF CallbacksFollowStream
<1>10. pc' = "subscribe" => h = 0 /\ asked = 0
  <2>1. pc' = "subscribe" => sent[h + 1].type = "Welcome"
    BY <1>1, <1>4, <1>7
  <2>2. sent[h + 1].type = "Welcome" => h + 1 = 1
    BY <1>7 DEF ClientInv, SentNumbered
  <2>3. h = 0 => handled = <<>>
    BY <1>2, EmptySeq DEF h
  <2> QED
    BY <1>2, <2>1, <2>2, <2>3 DEF ClientInv, AsksOnce
<1>11. ClientTypes'
  BY <1>1, <1>8 DEF ClientInv, ClientTypes, Labels
<1>12. SentNumbered' /\ OneWriter' /\ Fresh'
  BY <1>1 DEF ClientInv, SentNumbered, OneWriter, Fresh
<1>13. AsksOnce'
  BY <1>1, <1>2, <1>8, <1>10 DEF ClientInv, AsksOnce
<1>14. ReadBounded'
  BY <1>1 DEF ClientInv, ReadBounded, Reading
<1>15. FlowInv'
  <2>1. Held' = <<>> /\ stream' = stream /\ Coming' = Coming /\ Whole' = Whole
        /\ IsOver' = FALSE
    BY <1>1 DEF Held, Coming, Whole, IsOver
  <2>2. Flow' = b
    BY <1>2, <2>1, ConcatEmptySeq DEF Flow, b
  <2> QED
    BY <1>1, <1>7, <1>8, <2>1, <2>2 DEF FlowInv
<1> QED
  BY <1>9, <1>11, <1>12, <1>13, <1>14, <1>15 DEF ClientInv

\* The client asks when the Welcome is all there has been, so that the thread
\* of the handler has finished with it.
LEMMA SubscribeKeeps ==
  ASSUME ClientInv, SendSubscribe
  PROVE  ClientInv'
<1>1. /\ pc = "subscribe" /\ pc' = "loop"
      /\ UNCHANGED <<peerUp, stream, open, unsent, handlerPc, subscribed, pending, sent>>
      /\ UNCHANGED <<created, running, fdOpen, got, header, handled, disconnects, signals>>
      /\ \/ UNCHANGED <<uplink, asked>>
         \/ /\ peerUp /\ asked' = asked + 1
            /\ \E r \in Subscriptions : uplink' = IF open THEN Append(uplink, r) ELSE uplink
  BY DEF SendSubscribe, PeerSends, wireVars, serverVars, sessionVars
<1>2. /\ asked = 0 /\ Len(handled) = 1 /\ Len(sent) <= 1 /\ uplink = <<>>
      /\ unsent["worker"] = <<>> /\ ~subscribed /\ ~pending /\ handled # <<>>
  <2>1. Len(handled) = 1 /\ asked = 0
    BY <1>1 DEF ClientInv, AsksOnce
  <2>2. handled # <<>>
    BY <2>1, EmptySeq
  <2> QED
    BY <2>1, <2>2 DEF ClientInv, AsksOnce
<1>3. uplink' \in Seq({"Subscribe", "SubscribeUnknown"}) /\ Len(uplink') <= 1
  <2> DEFINE R == {"Subscribe", "SubscribeUnknown"}
  <2>1. uplink \in Seq(R) /\ Len(uplink) = 0
    BY <1>2 DEF ClientInv, ClientTypes
  <2>2. \A r \in R : Append(uplink, r) \in Seq(R) /\ Len(Append(uplink, r)) = 1
    <3> HIDE DEF R
    <3> QED
      BY <2>1, AppendProperties
  <2>3. Subscriptions \subseteq R
    BY ClientAssumption DEF ClientAssumption
  <2>4. CASE UNCHANGED uplink
    BY <2>1, <2>4
  <2>5. ASSUME NEW r \in Subscriptions, uplink' = IF open THEN Append(uplink, r) ELSE uplink
        PROVE  uplink' \in Seq(R) /\ Len(uplink') <= 1
    <3> HIDE DEF R
    <3> QED
      BY <2>1, <2>2, <2>3, <2>5
  <2> QED
    BY <1>1, <2>4, <2>5
<1>4. open /\ peerUp => unsent["handler"] = <<>>
  <2> SUFFICES ASSUME open, peerUp PROVE unsent["handler"] = <<>>
    OBVIOUS
  <2>1. Whole /\ ~IsOver /\ Held = <<>>
    BY <1>1 DEF Whole, IsOver, Held
  <2>2. Flow \in Seq(Pieces) /\ Len(Flow) \in Nat /\ Len(sent) \in Nat
        /\ Coming \in Seq(Pieces) /\ Held \o stream \in Seq(Pieces)
        /\ unsent["handler"] \in Seq(Pieces) /\ unsent["worker"] \in Seq(Pieces)
    BY FlowTypes, LenProperties DEF ClientInv, SentNumbered
  <2>3. Flow = <<>>
    <3> SUFFICES ASSUME Flow # <<>> PROVE FALSE
      OBVIOUS
    <3>1. 1 \in 1 .. Len(Flow)
      BY <2>2, EmptySeq
    <3>2. Flow[1].packet.n = 2 /\ Flow[1].packet.n \in 1 .. Len(sent)
      BY <1>2, <2>1, <3>1 DEF ClientInv, FlowInv, FlowOK, Genuine
    <3> QED
      BY <1>2, <2>2, <3>2
  <2>4. Coming = <<>>
    BY <2>2, <2>3, ConcatEqualIffEmpty DEF Flow
  <2>5. Coming = unsent["handler"]
    BY <1>2, <2>2, ConcatEmptySeq DEF Coming
  <2> QED
    BY <2>4, <2>5
<1>5. ClientTypes'
  BY <1>1, <1>2, <1>3 DEF ClientInv, ClientTypes, Labels
<1>6. SentNumbered' /\ CallbacksFollowStream'
  BY <1>1 DEF ClientInv, SentNumbered, CallbacksFollowStream
<1>7. ReadBounded'
  BY <1>1 DEF ClientInv, ReadBounded, Reading
<1>8. AsksOnce'
  BY <1>1, <1>2 DEF ClientInv, AsksOnce
<1>9. Fresh'
  <2>1. handlerPc = "loop"
    <3>1. Len(sent) # 0
      BY <1>2 DEF ClientInv, CallbacksFollowStream
    <3> QED
      BY <3>1, EmptySeq DEF ClientInv, Fresh
  <2> QED
    BY <1>1, <2>1 DEF Fresh
<1>10. OneWriter'
  BY <1>1, <1>2, <1>4 DEF OneWriter
<1>11. FlowInv'
  BY <1>1, FlowStays DEF Held, IsOver
<1> QED
  BY <1>5, <1>6, <1>7, <1>8, <1>9, <1>10, <1>11 DEF ClientInv

\* stop(), from the signal handler at any step, and the end of the process.
LEMMA CloseKeeps ==
  ASSUME ClientInv,
         UNCHANGED <<pc, created, got, header, handled, disconnects>>,
         running' \in BOOLEAN, fdOpen' \in BOOLEAN,
         PeerCloses \/ UNCHANGED wireVars
  PROVE  ClientInv'
<1>1. /\ UNCHANGED <<uplink, asked, open, unsent, handlerPc, subscribed, pending, sent>>
      /\ \/ peerUp' = FALSE /\ stream' = <<>>
         \/ UNCHANGED <<peerUp, stream>>
  BY DEF PeerCloses, wireVars, serverVars, sessionVars
<1>2. ClientTypes'
  <2>1. stream' \in Seq(Pieces) /\ Len(stream') <= Buffer /\ peerUp' \in BOOLEAN
    <3>1. Len(<<>>) = 0 /\ <<>> \in Seq(Pieces) /\ Buffer \in Nat
      BY EmptySeq, WireAssumption DEF WireAssumption
    <3>2. stream \in Seq(Pieces) /\ Len(stream) <= Buffer /\ peerUp \in BOOLEAN
      BY DEF ClientInv, ClientTypes
    <3>3. CASE peerUp' = FALSE /\ stream' = <<>>
      <4>1. Len(stream') = 0 /\ 0 <= Buffer
        BY <3>1, <3>3
      <4> QED
        BY <3>1, <3>3, <4>1
    <3> QED
      BY <1>1, <3>2, <3>3
  <2> QED
    BY <1>1, <2>1 DEF ClientInv, ClientTypes
<1>3. SentNumbered' /\ CallbacksFollowStream' /\ AsksOnce' /\ OneWriter'
  BY <1>1 DEF ClientInv, SentNumbered, CallbacksFollowStream, AsksOnce, OneWriter
<1>4. ReadBounded'
  BY DEF ClientInv, ReadBounded, Reading, Size
<1>5. Fresh'
  BY <1>1 DEF ClientInv, Fresh
<1>6. Held' = Held /\ IsOver' = IsOver
  BY DEF Held, IsOver
<1>7. FlowInv'
  <2>1. CASE UNCHANGED <<peerUp, stream>>
    BY <1>1, <1>6, <2>1, FlowStays
  <2>2. CASE peerUp' = FALSE /\ stream' = <<>>
    <3>1. stream \in Seq(Pieces) /\ Len(stream) \in Nat
      BY LenProperties DEF ClientInv, ClientTypes
    <3>2. 0 \in 0 .. Len(stream) /\ stream' = SubSeq(stream, 1, 0)
      BY <2>2, <3>1, SubSeqEmpty
    <3>3. ~Whole'
      BY <2>2 DEF Whole
    <3> QED
      BY <1>1, <1>2, <1>6, <3>2, <3>3, FlowLost
  <2> QED
    BY <1>1, <2>1, <2>2
<1> QED
  BY <1>2, <1>3, <1>4, <1>5, <1>7 DEF ClientInv

LEMMA SignalKeeps ==
  ASSUME ClientInv, Signal \/ Exit
  PROVE  ClientInv'
<1>1. CASE Signal
  <2>1. UNCHANGED <<pc, created, got, header, handled, disconnects>>
        /\ running' \in BOOLEAN /\ fdOpen' \in BOOLEAN
        /\ (PeerCloses \/ UNCHANGED wireVars)
    BY <1>1 DEF Signal, Stop, ClientInv, ClientTypes
  <2> QED
    BY <2>1, CloseKeeps
<1>2. CASE Exit
  <2>1. UNCHANGED <<pc, created, got, header, handled, disconnects>>
        /\ running' \in BOOLEAN /\ fdOpen' \in BOOLEAN
        /\ (PeerCloses \/ UNCHANGED wireVars)
    BY <1>2 DEF Exit, clientVars, threadVars, ClientInv, ClientTypes
  <2> QED
    BY <2>1, CloseKeeps
<1> QED
  BY <1>1, <1>2

-----------------------------------------------------------------------------
(* The invariant holds.                                                    *)

LEMMA ClientInit == Init => ClientInv
<1> SUFFICES ASSUME Init PROVE ClientInv
  OBVIOUS
<1>1. /\ peerUp = FALSE /\ open = FALSE /\ stream = <<>> /\ handlerPc = "accept"
      /\ unsent = [w \in Writers |-> <<>>] /\ subscribed = FALSE /\ pending = FALSE /\ uplink = <<>>
      /\ asked = 0 /\ sent = <<>> /\ pc = "create" /\ got = <<>> /\ header = <<>>
      /\ handled = <<>> /\ disconnects = 0
      /\ created = FALSE /\ running = FALSE /\ fdOpen = FALSE
  BY DEF Init, WireInit
<1>2. Len(<<>>) = 0 /\ \A S : <<>> \in Seq(S)
  BY EmptySeq
<1>3. ClientTypes
  <2>1. Buffer \in Nat /\ Len(stream) <= Buffer
    BY <1>1, <1>2, WireAssumption DEF WireAssumption
  <2>2. /\ stream \in Seq(Pieces) /\ got \in Seq(Pieces) /\ header \in Seq(Pieces)
        /\ handled \in Seq(Seq(Pieces)) /\ uplink \in Seq({"Subscribe", "SubscribeUnknown"})
        /\ Len(uplink) <= 1
    BY <1>1, <1>2
  <2>3. unsent \in [Writers -> Seq(Pieces)]
    BY <1>1, <1>2
  <2> QED
    BY <1>1, <2>1, <2>2, <2>3 DEF ClientTypes, Labels
<1>4. SentNumbered /\ CallbacksFollowStream
  BY <1>1, <1>2, WireAssumption DEF SentNumbered, CallbacksFollowStream, WireAssumption
<1>5. ReadBounded /\ AsksOnce /\ Fresh /\ OneWriter
  BY <1>1, <1>2 DEF ReadBounded, Reading, AsksOnce, Fresh, OneWriter, Writers
<1>6. FlowInv
  <2>1. Held = <<>> /\ Coming = <<>>
    BY <1>1 DEF Held, Coming
  <2>2. <<>> \o <<>> = <<>>
    BY EmptySeq, ConcatEmptySeq
  <2>3. Flow = <<>>
    BY <1>1, <2>1, <2>2 DEF Flow
  <2> QED
    BY <1>1, <1>2, <2>3 DEF FlowInv, FlowOK, Genuine, Chained
<1> QED
  BY <1>3, <1>4, <1>5, <1>6 DEF ClientInv

LEMMA ClientNext == ClientInv /\ [Next]_vars => ClientInv'
<1> SUFFICES ASSUME ClientInv, [Next]_vars PROVE ClientInv'
  OBVIOUS
<1>1. CASE Thread
  BY <1>1, StartKeeps, ConnectKeeps, LoopKeeps, ReceiveKeeps, EndKeeps, HeaderKeeps,
     PayloadKeeps, SubscribeKeeps DEF Thread
<1>2. CASE Signal \/ Exit
  BY <1>2, SignalKeeps
<1>3. CASE (Server \/ ServerCloses) /\ UNCHANGED clientVars
  BY <1>3, WriterSendsKeeps, WriterFailsKeeps, HandlerWelcomeKeeps, HandlerReceiveKeeps,
     ActivateKeeps,
     WorkerSendsKeeps, ServerClosesKeeps DEF Server, Writing
<1>4. CASE UNCHANGED vars
  <2>1. UNCHANGED <<pc, created, got, header, handled, disconnects>> /\ UNCHANGED wireVars
        /\ running' \in BOOLEAN /\ fdOpen' \in BOOLEAN
    BY <1>4 DEF vars, clientVars, threadVars, ClientInv, ClientTypes
  <2> QED
    BY <2>1, CloseKeeps
<1> QED
  BY <1>1, <1>2, <1>3, <1>4 DEF Next

THEOREM ClientInvariance == Spec => []ClientInv
<1> QED
  BY ClientInit, ClientNext, PTL DEF Spec

\* Types, and the bounds of the buffer and of what readExact asks for.
THEOREM TypeCorrect == Spec => []TypeOK
<1>1. ClientInv => TypeOK
  BY DEF ClientInv, ClientTypes, ReadBounded, TypeOK, Writers
<1> QED
  BY <1>1, ClientInvariance, PTL

\* To a client that asks once, after Welcome, the two threads of the server
\* never mix two packets in the stream, for any sizes and any buffer.
THEOREM FramesStayWhole == Spec => []FramesWhole
<1>1. ClientInv => FramesWhole
  <2> SUFFICES ASSUME ClientInv, NEW i \in 1 .. Len(stream) - 1
               PROVE  Follows(stream[i], stream[i + 1])
    BY DEF FramesWhole
  <2>1. /\ stream \in Seq(Pieces) /\ Len(stream) \in Nat /\ Held \in Seq(Pieces)
        /\ Len(Held) \in Nat /\ Coming \in Seq(Pieces) /\ Held \o stream \in Seq(Pieces)
    BY FlowTypes, LenProperties DEF ClientInv, ClientTypes
  <2> DEFINE j == Len(Held) + i
  <2>2. /\ i \in 1 .. Len(stream) /\ i + 1 \in 1 .. Len(stream) /\ j \in Nat
        /\ j \in 1 .. Len(Held \o stream) /\ j + 1 \in 1 .. Len(Held \o stream)
        /\ (Held \o stream)[j] = stream[i] /\ (Held \o stream)[j + 1] = stream[i + 1]
    BY <2>1, ConcatProperties
  <2> HIDE DEF j
  <2>3. /\ j \in 1 .. Len(Flow) /\ Flow[j] = stream[i]
        /\ j + 1 \in 1 .. Len(Flow) /\ Flow[j + 1] = stream[i + 1]
    BY <2>1, <2>2, ConcatProperties DEF Flow
  <2>4. Chained(Flow) /\ Genuine(Flow, sent)
    BY DEF ClientInv, FlowInv, FlowOK
  <2>5. /\ j <= j + 1 /\ (j + 1) - j = 1
        /\ stream[i].part \in Nat /\ Total(stream[i].packet) \in Nat
        /\ stream[i + 1] \in Pieces
        /\ stream[i + 1] = [packet |-> stream[i + 1].packet, part |-> stream[i + 1].part]
    <3>1. (j + 1) - j = 1 /\ j <= j + 1
      BY <2>2
    <3>2. stream[i].part \in Nat /\ Total(stream[i].packet) \in Nat
      BY <2>1, <2>2, PieceFields
    <3>3. /\ stream[i + 1] \in Pieces
          /\ stream[i + 1] = [packet |-> stream[i + 1].packet, part |-> stream[i + 1].part]
      <4> DEFINE k == i + 1
      <4>1. k \in 1 .. Len(stream)
        BY <2>2
      <4> HIDE DEF k
      <4>2. stream[k] \in Pieces /\ stream[k] = [packet |-> stream[k].packet, part |-> stream[k].part]
        BY <2>1, <4>1, PieceFields
      <4> QED
        BY <4>2 DEF k
    <3> QED
      BY <3>1, <3>2, <3>3
  <2>6. stream[i].part <= Total(stream[i].packet)
    BY <2>3, <2>4, <2>5 DEF Genuine
  <2>7. /\ stream[i].part + 1 <= Total(stream[i].packet) =>
             /\ stream[i + 1].packet = stream[i].packet
             /\ stream[i + 1].part = stream[i].part + 1
        /\ stream[i].part + 1 = Total(stream[i].packet) + 1 => stream[i + 1].part = 1
    BY <2>3, <2>4, <2>5 DEF Chained
  <2> QED
    BY <2>5, <2>6, <2>7 DEF Follows, Total
<1> QED
  BY <1>1, ClientInvariance, PTL

\* The callbacks are given the server's packets, each whole, once and in order,
\* at whatever step a signal, a close or a partial read falls.
THEOREM CallbacksFollow == Spec => []CallbacksFollowStream
<1>1. ClientInv => CallbacksFollowStream
  BY DEF ClientInv
<1> QED
  BY <1>1, ClientInvariance, PTL
=============================================================================
