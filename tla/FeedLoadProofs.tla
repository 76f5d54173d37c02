--------------------------- MODULE FeedLoadProofs ---------------------------
(***************************************************************************)
(* Loading a file and replaying it, proved for any files, fields, widths   *)
(* of the words and speed.                                                 *)
(***************************************************************************)
EXTENDS FeedLoad, SequenceTheorems, WellFoundedInduction, TLAPS

Maps == [Names -> Nat \cup {Missing}]

-----------------------------------------------------------------------------
(* Lemmas about the parsers.                                               *)

\* A bounded set of numbers has a greatest and a least one.
LEMMA Extremes ==
  ASSUME NEW b \in Nat, NEW S \in SUBSET (0 .. b), S # {}
  PROVE  /\ Max(S) \in S /\ \A x \in S : x <= Max(S)
         /\ Min(S) \in S /\ \A x \in S : Min(S) <= x
<1>1. \E x \in S : \A y \in S : x >= y
  <2> DEFINE T == {b - x : x \in S}
  <2>1. T \subseteq Nat /\ T # {}
    <3>1. \A x \in S : x \in Int /\ b - x \in Nat
      OBVIOUS
    <3> QED
      BY <3>1
  <2>2. PICK m \in T : \A y \in T : ~(<<y, m>> \in OpToRel(<, Nat))
    <3> HIDE DEF T
    <3> QED
      BY <2>1, NatLessThanWellFounded, WFMin
  <2>3. PICK x \in S : m = b - x
    BY <2>2
  <2>4. ASSUME NEW y \in S
        PROVE  x >= y
    <3>1. b - y \in T /\ b - y \in Nat /\ m \in Nat
      BY <2>1, <2>2
    <3>2. ~(b - y < m)
      BY <3>1, <2>2 DEF OpToRel
    <3> QED
      BY <3>1, <3>2, <2>3
  <2> QED
    BY <2>4
<1>2. \E x \in S : \A y \in S : x =< y
  <2>1. S \subseteq Nat
    OBVIOUS
  <2>2. PICK m \in S : \A y \in S : ~(<<y, m>> \in OpToRel(<, Nat))
    BY <2>1, NatLessThanWellFounded, WFMin
  <2>3. ASSUME NEW y \in S
        PROVE  m =< y
    <3>1. ~(y < m)
      BY <2>1, <2>2 DEF OpToRel
    <3> QED
      BY <3>1, <2>1
  <2> QED
    BY <2>3
<1>3. Max(S) \in S /\ \A y \in S : Max(S) >= y
  BY <1>1 DEF Max
<1>4. Min(S) \in S /\ \A y \in S : Min(S) =< y
  BY <1>2 DEF Min
<1> QED
  BY <1>3, <1>4

LEMMA ColumnsMapped ==
  ASSUME NEW header \in Seq(STRING)
  PROVE  ColumnMap(header) \in Maps
<1>1. ASSUME NEW n \in Names,
             {i \in DOMAIN header : header[i] = n} # {}
      PROVE  Max({i \in DOMAIN header : header[i] = n}) \in Nat
  <2> DEFINE S == {i \in DOMAIN header : header[i] = n}
  <2>1. S \in SUBSET (0 .. Len(header)) /\ S # {} /\ Len(header) \in Nat
    BY <1>1
  <2> HIDE DEF S
  <2>2. Max(S) \in S
    BY <2>1, Extremes
  <2>3. Max(S) \in Nat
    <3> \A k : k \in 0 .. Len(header) => k \in Nat
      BY <2>1
    <3> QED
      BY <2>1, <2>2, Zenon
  <2> QED
    BY <2>3 DEF S
<1> QED
  BY <1>1 DEF ColumnMap, Maps

LEMMA FieldsRead ==
  ASSUME NEW fields \in Seq(Fields), NEW column
  PROVE  FieldAt(fields, column) \in Fields
BY DEF FieldAt, Fields

LEMMA NumbersParsed ==
  ASSUME NEW text \in Fields
  PROVE  /\ ParseUint64(text) \in 0 .. TimeWord - 1
         /\ ParseUint32(text) \in 0 .. CountWord - 1
         /\ ParseDouble(text) \in Int
<1>1. ParseUint64(text) \in 0 .. TimeWord - 1
  BY LoadAssumption DEF ParseUint64, Fields
<1>2. ParseUint32(text) \in 0 .. CountWord - 1
  BY <1>1, LoadAssumption DEF ParseUint32
<1>3. ParseDouble(text) \in Int
  BY DEF ParseDouble, Fields
<1> QED
  BY <1>1, <1>2, <1>3

Snapshot(n, fields, map) == [ParseRow(fields, map) EXCEPT !.sequence = n]

Snapshots ==
  {Snapshot(n, fields, map) : n \in Nat, fields \in Seq(Fields), map \in Maps}

LEMMA SnapshotFields ==
  ASSUME NEW n, NEW fields, NEW map
  PROVE  LET s == Snapshot(n, fields, map)
         IN  /\ s.sequence = n
             /\ s.system_time = ParseUint64(FieldAt(fields, map["system_time"]))
             /\ s.midpoint = ParseDouble(FieldAt(fields, map["midpoint"]))
             /\ s.buys = ParseUint32(FieldAt(fields, map["buys"]))
             /\ s.sells = ParseUint32(FieldAt(fields, map["sells"]))
BY DEF Snapshot, ParseRow

LEMMA SnapshotsMade ==
  ASSUME NEW n \in Nat, NEW fields \in Seq(Fields), NEW map \in Maps
  PROVE  Snapshot(n, fields, map) \in Snapshots
BY DEF Snapshots

LEMMA SnapshotsTyped ==
  ASSUME NEW s \in Snapshots
  PROVE  /\ s.system_time \in 0 .. TimeWord - 1
         /\ s.buys \in 0 .. CountWord - 1
         /\ s.sells \in 0 .. CountWord - 1
<1>1. PICK n \in Nat, fields \in Seq(Fields), map \in Maps :
        s = Snapshot(n, fields, map)
  BY DEF Snapshots
<1>2. /\ FieldAt(fields, map["system_time"]) \in Fields
      /\ FieldAt(fields, map["buys"]) \in Fields
      /\ FieldAt(fields, map["sells"]) \in Fields
  BY FieldsRead
<1> QED
  BY <1>1, <1>2, SnapshotFields, NumbersParsed

\* The lines after the header are those of Tail.
LEMMA FileLines ==
  ASSUME NEW f \in Files, f # <<>>
  PROVE  /\ Head(f) \in Seq(STRING)
         /\ Tail(f) \in Seq(Seq(Fields))
         /\ Len(f) = Len(Tail(f)) + 1
         /\ \A i \in 1 .. Len(Tail(f)) : f[i + 1] = Tail(f)[i]
<1>1. /\ Head(f) \in Seq(STRING) /\ Tail(f) \in Seq(Seq(Fields))
      /\ f = <<Head(f)>> \o Tail(f)
  BY FileAssumption
<1> DEFINE h == Head(f)  t == Tail(f)  S == Seq(STRING) \cup Seq(Fields)
<1>2. <<h>> \in Seq(S) /\ t \in Seq(S) /\ Len(<<h>>) = 1
  BY <1>1
<1>3. f = <<h>> \o t
  BY <1>1
<1> HIDE DEF h, t
<1>4. Len(f) = 1 + Len(t)
  BY <1>2, <1>3
<1>5. \A i \in 1 .. Len(t) : f[i + 1] = t[i]
  BY <1>2, <1>3
<1> QED
  BY <1>1, <1>2, <1>4, <1>5 DEF h, t

-----------------------------------------------------------------------------
(* The inductive invariant                                                 *)

\* The snapshots are the non-empty ones of the lines 2 .. last.
LinesOf(last, line) ==
  /\ line \in [1 .. Len(snapshots) -> 2 .. last]
  /\ \A l \in 2 .. last :
       file[l] # <<>> => \E i \in 1 .. Len(snapshots) : line[i] = l
  /\ \A i \in 1 .. Len(snapshots) :
       /\ file[line[i]] # <<>>
       /\ \A j \in 1 .. i - 1 : line[j] < line[i]
       /\ snapshots[i].sequence = i - 1
       /\ snapshots[i].midpoint =
            ParseDouble(FieldAt(file[line[i]], columns["midpoint"]))

\* While lines are read, unread is the end of the file and the snapshots come
\* from what is before it.
Reading ==
  /\ file # <<>>
  /\ unread \in Seq(Seq(Fields))
  /\ Len(file) \in Nat /\ Len(unread) < Len(file)
  /\ \A i \in 1 .. Len(unread) :
       unread[i] = file[Len(file) - Len(unread) + i]
  /\ \E line : LinesOf(Len(file) - Len(unread), line)

FeedInv ==
  /\ file \in Files
  /\ pc \in {"open", "lines", "failed", "reset", "peek", "next"}
  /\ columns \in Maps
  /\ snapshots \in Seq(Snapshots)
  /\ cursor \in 0 .. Len(snapshots)
  /\ clock \in Nat
  /\ pc = "open" => unread = file /\ snapshots = <<>>
  /\ pc = "lines" => Reading
  /\ Replaying => snapshots # <<>> /\ \E line : LinesOf(Len(file), line)

LEMMA FeedInit == Init => FeedInv
<1> SUFFICES ASSUME Init
             PROVE  FeedInv
  OBVIOUS
<1>1. columns \in Maps
  BY DEF Init, Maps
<1>2. snapshots \in Seq(Snapshots) /\ Len(snapshots) = 0
  BY DEF Init
<1> QED
  BY <1>1, <1>2 DEF Init, FeedInv, Replaying

LEMMA HeaderKeepsInv == FeedInv /\ ReadHeader => FeedInv'
<1> SUFFICES ASSUME FeedInv, ReadHeader
             PROVE  FeedInv'
  OBVIOUS
<1> USE DEF ReadHeader
<1>1. /\ Head(file) \in Seq(STRING)
      /\ Tail(file) \in Seq(Seq(Fields))
      /\ Len(file) = Len(Tail(file)) + 1
      /\ \A i \in 1 .. Len(Tail(file)) : file[i + 1] = Tail(file)[i]
  BY FileLines DEF FeedInv
<1>2. columns' \in Maps
  BY <1>1, ColumnsMapped
<1>3. ASSUME pc' = "lines"
      PROVE  Reading'
  <2>1. Len(Tail(file)) \in Nat /\ Len(file) - Len(Tail(file)) = 1
    BY <1>1
  <2>2. Len(snapshots) = 0 /\ 1 .. Len(snapshots) = {} /\ 2 .. 1 = {}
    BY DEF FeedInv
  <2>3. LinesOf(1, [i \in 1 .. Len(snapshots) |-> 0])'
    BY <2>2 DEF LinesOf
  <2>4. unread' = Tail(file) /\ file' = file /\ file # <<>>
    OBVIOUS
  <2>5. \A i \in 1 .. Len(unread') :
          unread'[i] = file'[Len(file') - Len(unread') + i]
    <3> SUFFICES ASSUME NEW i \in 1 .. Len(Tail(file))
                 PROVE  Tail(file)[i] = file[Len(file) - Len(Tail(file)) + i]
      BY <2>4
    <3>1. Len(file) - Len(Tail(file)) + i = i + 1
      BY <2>1, <1>1
    <3> QED
      BY <3>1, <1>1
  <2>6. (\E line : LinesOf(Len(file) - Len(unread), line))'
    <3>1. (Len(file) - Len(unread))' = 1
      BY <2>1, <2>4
    <3> QED
      BY <2>3, <3>1
  <2> QED
    BY <1>1, <2>1, <2>4, <2>5, <2>6 DEF Reading
<1> QED
  BY <1>2, <1>3 DEF FeedInv, Replaying

\* A line that is not empty becomes the next snapshot.
LEMMA LineTaken ==
  ASSUME Reading, unread # <<>>, snapshots \in Seq(Snapshots), columns \in Maps,
         Head(unread) # <<>>,
         snapshots' = Append(snapshots, Snapshot(Len(snapshots), Head(unread), columns)),
         NEW last, last = Len(file) - Len(unread),
         UNCHANGED <<file, columns>>
  PROVE  (\E line : LinesOf(last + 1, line))'
<1>0. PICK n \in Nat : n = Len(snapshots)
  OBVIOUS
<1> DEFINE row == Snapshot(n, Head(unread), columns)
<1>1. /\ Len(snapshots') = n + 1
      /\ \A i \in 1 .. n : snapshots'[i] = snapshots[i]
      /\ snapshots'[n + 1] = row
  BY <1>0
<1>2. row.sequence = n
      /\ row.midpoint = ParseDouble(FieldAt(Head(unread), columns["midpoint"]))
  BY SnapshotFields
<1> HIDE DEF row
<1>3. last \in Nat /\ last >= 1 /\ file[last + 1] = Head(unread)
  <2>1. Len(unread) \in Nat /\ Len(unread) >= 1 /\ Head(unread) = unread[1]
    BY DEF Reading
  <2>2. unread[1] = file[Len(file) - Len(unread) + 1]
    BY <2>1 DEF Reading
  <2> QED
    BY <2>1, <2>2 DEF Reading
<1>4. PICK line : LinesOf(last, line)
  BY DEF Reading
<1>5. /\ line \in [1 .. n -> 2 .. last]
      /\ \A l \in 2 .. last : file[l] # <<>> => \E i \in 1 .. n : line[i] = l
      /\ \A i \in 1 .. n :
           /\ file[line[i]] # <<>>
           /\ \A j \in 1 .. i - 1 : line[j] < line[i]
           /\ snapshots[i].sequence = i - 1
           /\ snapshots[i].midpoint =
                ParseDouble(FieldAt(file[line[i]], columns["midpoint"]))
  BY <1>4, <1>0 DEF LinesOf
<1> DEFINE longer == [i \in 1 .. n + 1 |-> IF i = n + 1 THEN last + 1 ELSE line[i]]
<1>6. /\ longer \in [1 .. n + 1 -> 2 .. last + 1]
      /\ longer[n + 1] = last + 1
      /\ \A i \in 1 .. n : longer[i] = line[i]
  BY <1>1, <1>3, <1>5
<1> HIDE DEF longer
<1>7. \A l \in 2 .. last + 1 :
        file[l] # <<>> => \E i \in 1 .. n + 1 : longer[i] = l
  <2> SUFFICES ASSUME NEW l \in 2 .. last + 1, file[l] # <<>>
               PROVE  \E i \in 1 .. n + 1 : longer[i] = l
    OBVIOUS
  <2>1. CASE l = last + 1
    BY <2>1, <1>1, <1>6
  <2>2. CASE l # last + 1
    <3>1. l \in 2 .. last
      BY <2>2, <1>3
    <3>2. PICK i \in 1 .. n : line[i] = l
      BY <3>1, <1>5
    <3> QED
      BY <3>2, <1>1, <1>6
  <2> QED
    BY <2>1, <2>2
<1>8. ASSUME NEW i \in 1 .. n + 1
      PROVE  /\ file[longer[i]] # <<>>
             /\ \A j \in 1 .. i - 1 : longer[j] < longer[i]
             /\ snapshots'[i].sequence = i - 1
             /\ snapshots'[i].midpoint =
                  ParseDouble(FieldAt(file[longer[i]], columns["midpoint"]))
  <2>1. CASE i = n + 1
    <3>1. /\ longer[i] = last + 1 /\ snapshots'[i] = row
          /\ file[longer[i]] = Head(unread)
      BY <2>1, <1>1, <1>3, <1>6
    <3>2. \A j \in 1 .. i - 1 : longer[j] < longer[i]
      <4> SUFFICES ASSUME NEW j \in 1 .. i - 1
                   PROVE  longer[j] < longer[i]
        OBVIOUS
      <4>1. j \in 1 .. n
        BY <2>1, <1>1
      <4>2. longer[j] = line[j] /\ line[j] \in 2 .. last
        BY <4>1, <1>5, <1>6
      <4> QED
        BY <4>2, <3>1, <1>3
    <3>3. i - 1 = n
      BY <2>1, <1>1
    <3> QED
      BY <3>1, <3>2, <3>3, <1>2
  <2>2. CASE i # n + 1
    <3>1. i \in 1 .. n
      BY <2>2, <1>1
    <3>2. \A j \in 1 .. i - 1 : longer[j] = line[j]
      BY <3>1, <1>1, <1>6
    <3>3. longer[i] = line[i] /\ snapshots'[i] = snapshots[i]
      BY <3>1, <1>1, <1>6
    <3> QED
      BY <3>1, <3>2, <3>3, <1>5
  <2> QED
    BY <2>1, <2>2
<1>9. LinesOf(last + 1, longer)'
  <2>1. 1 .. Len(snapshots') = 1 .. n + 1
    BY <1>1
  <2>2. /\ longer \in [1 .. Len(snapshots') -> 2 .. last + 1]
        /\ \A l \in 2 .. last + 1 : file'[l] # <<>> =>
             \E i \in 1 .. Len(snapshots') : longer[i] = l
        /\ \A i \in 1 .. Len(snapshots') :
             /\ file'[longer[i]] # <<>>
             /\ \A j \in 1 .. i - 1 : longer[j] < longer[i]
             /\ snapshots'[i].sequence = i - 1
             /\ snapshots'[i].midpoint =
                  ParseDouble(FieldAt(file'[longer[i]], columns'["midpoint"]))
    BY <2>1, <1>6, <1>7, <1>8
  <2> QED
    BY <2>2 DEF LinesOf, longer
<1> QED
  BY <1>9

\* An empty one is passed over.
LEMMA LineSkipped ==
  ASSUME Reading, unread # <<>>, Head(unread) = <<>>,
         NEW last, last = Len(file) - Len(unread),
         NEW line, LinesOf(last, line)
  PROVE  LinesOf(last + 1, line)
<1>1. last \in Nat /\ last >= 1 /\ file[last + 1] = Head(unread)
  <2>1. Len(unread) \in Nat /\ Len(unread) >= 1 /\ Head(unread) = unread[1]
    BY DEF Reading
  <2>2. unread[1] = file[Len(file) - Len(unread) + 1]
    BY <2>1 DEF Reading
  <2> QED
    BY <2>1, <2>2 DEF Reading
<1>2. \A l \in 2 .. last + 1 : l \in 2 .. last \/ l = last + 1
  BY <1>1
<1>3. line \in [1 .. Len(snapshots) -> 2 .. last + 1]
  BY <1>1 DEF LinesOf
<1> QED
  BY <1>1, <1>2, <1>3 DEF LinesOf

LEMMA LineKeepsInv == FeedInv /\ ReadLine => FeedInv'
<1> SUFFICES ASSUME FeedInv, ReadLine
             PROVE  FeedInv'
  OBVIOUS
<1> PICK last : last = Len(file) - Len(unread)
  OBVIOUS
<1> USE DEF ReadLine
<1>1. Reading /\ unread # <<>>
  BY DEF FeedInv
<1>2. /\ Len(unread) \in Nat /\ Len(unread) >= 1
      /\ Head(unread) \in Seq(Fields)
      /\ unread' \in Seq(Seq(Fields))
      /\ Len(unread') = Len(unread) - 1
      /\ \A i \in 1 .. Len(unread') : unread'[i] = unread[i + 1]
  BY <1>1 DEF Reading
<1>3. /\ snapshots' \in Seq(Snapshots)
      /\ Len(snapshots') >= Len(snapshots)
      /\ (\E line : LinesOf(last + 1, line))'
  <2>1. CASE Head(unread) = <<>>
    <3>1. snapshots' = snapshots
      BY <2>1
    <3>2. PICK line : LinesOf(last, line)
      BY <1>1 DEF Reading
    <3>3. LinesOf(last + 1, line)
      BY <2>1, <3>2, <1>1, LineSkipped
    <3>4. LinesOf(last + 1, line)'
      BY <3>1, <3>3 DEF LinesOf
    <3> QED
      BY <3>1, <3>4 DEF FeedInv
  <2>2. CASE Head(unread) # <<>>
    <3>1. snapshots' =
            Append(snapshots, Snapshot(Len(snapshots), Head(unread), columns))
      BY <2>2 DEF Snapshot, Sequence
    <3>2. Snapshot(Len(snapshots), Head(unread), columns) \in Snapshots
      <4>1. /\ Len(snapshots) \in Nat /\ columns \in Maps
            /\ Head(unread) \in Seq(Fields)
        BY <1>2 DEF FeedInv
      <4> QED
        BY <4>1, SnapshotsMade
    <3>3. snapshots \in Seq(Snapshots) /\ columns \in Maps
      BY DEF FeedInv
    <3>4. snapshots' \in Seq(Snapshots) /\ Len(snapshots') >= Len(snapshots)
      BY <3>1, <3>2, <3>3
    <3>5. (\E line : LinesOf(last + 1, line))'
      BY <1>1, <2>2, <3>1, <3>3, LineTaken
    <3> QED
      BY <3>4, <3>5
  <2> QED
    BY <2>1, <2>2
<1>4. Reading'
  <2>1. Len(file) \in Nat /\ Len(unread) < Len(file) /\ file # <<>>
    BY <1>1 DEF Reading
  <2>2. Len(file') - Len(unread') = last + 1
    BY <1>2, <2>1
  <2>3. \A i \in 1 .. Len(unread') :
          unread'[i] = file'[Len(file') - Len(unread') + i]
    <3> SUFFICES ASSUME NEW i \in 1 .. Len(unread')
                 PROVE  unread'[i] = file[Len(file) - Len(unread') + i]
      OBVIOUS
    <3>1. i + 1 \in 1 .. Len(unread)
      BY <1>2
    <3>2. unread[i + 1] = file[Len(file) - Len(unread) + (i + 1)]
      BY <3>1, <1>1 DEF Reading
    <3>3. Len(file) - Len(unread) + (i + 1) = Len(file) - Len(unread') + i
      BY <1>2, <2>1
    <3> QED
      BY <1>2, <3>2, <3>3
  <2>4. (\E line : LinesOf(Len(file) - Len(unread), line))'
    BY <1>3, <2>2
  <2> QED
    BY <1>2, <2>1, <2>3, <2>4 DEF Reading
<1>5. cursor' \in 0 .. Len(snapshots')
  BY <1>3 DEF FeedInv
<1> QED
  BY <1>3, <1>4, <1>5 DEF FeedInv, Replaying

LEMMA EndKeepsInv == FeedInv /\ EndOfFile => FeedInv'
<1> SUFFICES ASSUME FeedInv, EndOfFile
             PROVE  FeedInv'
  OBVIOUS
<1> USE DEF EndOfFile
<1>1. PICK line : LinesOf(Len(file), line)
  <2>1. Len(unread) = 0 /\ Len(file) \in Nat
    BY DEF FeedInv, Reading
  <2>2. PICK line : LinesOf(Len(file) - Len(unread), line)
    BY DEF FeedInv, Reading
  <2>3. LinesOf(Len(file), line)
    BY <2>1, <2>2
  <2> QED
    BY <2>3
<1>2. (\E line_1 : LinesOf(Len(file), line_1))'
  BY <1>1 DEF LinesOf
<1> QED
  BY <1>2 DEF FeedInv, Replaying

LEMMA QuotientsAreNat ==
  ASSUME NEW delay \in Nat
  PROVE  Quotients(delay) \subseteq Nat
<1>1. TimeWord \in Nat /\ Speed \in Nat \ {0} /\ DoubleExact \in Nat
  BY LoadAssumption
<1>2. delay \div Speed \in Nat
  BY <1>1
<1> DEFINE near == {q \in 0 .. TimeWord :
                      /\ (q * Speed - delay) * DoubleExact <= 3 * delay
                      /\ (delay - q * Speed) * DoubleExact
                           <= 3 * delay + Speed * DoubleExact}
<1>3. Quotients(delay) = IF delay <= DoubleExact THEN {delay \div Speed}
                         ELSE IF TimeWord \in near THEN 0 .. TimeWord - 1 ELSE near
  BY DEF Quotients
<1>4. near \subseteq 0 .. TimeWord
  OBVIOUS
<1> HIDE DEF near
<1>5. 0 .. TimeWord \subseteq Nat /\ 0 .. TimeWord - 1 \subseteq Nat
  BY <1>1
<1> QED
  BY <1>2, <1>3, <1>4, <1>5

\* What a pass does leaves the snapshots alone.
LEMMA PassKeepsInv ==
  ASSUME FeedInv, Reset \/ Sleep \/ NextSnapshot
  PROVE  FeedInv'
<1>1. UNCHANGED <<file, unread, columns, snapshots>>
  BY DEF Reset, Sleep, NextSnapshot
<1>2. Replaying /\ Replaying' /\ pc' \in {"reset", "peek", "next"}
  BY DEF Reset, Sleep, NextSnapshot, Replaying
<1>3. cursor' \in 0 .. Len(snapshots)
  BY DEF Reset, Sleep, NextSnapshot, FeedInv
<1>4. clock' \in Nat
  <2>1. CASE Sleep
    <3>1. PeekNextDelayMicros \in Nat
      <4>1. \A i \in 1 .. Len(snapshots) : snapshots[i].system_time \in Nat
        <5> SUFFICES ASSUME NEW i \in 1 .. Len(snapshots)
                     PROVE  snapshots[i].system_time \in Nat
          OBVIOUS
        <5>1. snapshots[i] \in Snapshots
          BY DEF FeedInv
        <5> QED
          BY <5>1, SnapshotsTyped, LoadAssumption
      <4>2. Len(snapshots) \in Nat /\ cursor \in 0 .. Len(snapshots)
        BY DEF FeedInv
      <4> QED
        BY <4>1, <4>2 DEF PeekNextDelayMicros, Gap
    <3>2. PICK micros \in Quotients(PeekNextDelayMicros), delay \in Delays :
            clock' = clock + Slept(micros) + delay
      BY <2>1 DEF Sleep
    <3>3. Slept(micros) \in Nat
      <4>1. micros \in Nat
        BY <3>1, <3>2, QuotientsAreNat
      <4> QED
        BY <4>1 DEF Slept
    <3> QED
      BY <3>2, <3>3, LoadAssumption DEF FeedInv
  <2>2. CASE Reset \/ NextSnapshot
    BY <2>2 DEF Reset, NextSnapshot, FeedInv
  <2> QED
    BY <2>1, <2>2
<1>5. snapshots # <<>> /\ \E line : LinesOf(Len(file), line)
  BY <1>2 DEF FeedInv
<1>6. (\E line : LinesOf(Len(file), line))'
  BY <1>1, <1>5 DEF LinesOf
<1> QED
  BY <1>1, <1>2, <1>3, <1>4, <1>5, <1>6 DEF FeedInv

\* Every step keeps the invariant.
THEOREM FeedInvariance ==
  Spec => []FeedInv
<1>1. ASSUME FeedInv, [Next]_vars
      PROVE  FeedInv'
  <2>1. CASE ReadHeader
    BY <1>1, <2>1, HeaderKeepsInv
  <2>2. CASE OpenFails
    BY <1>1, <2>2 DEF OpenFails, FeedInv, Replaying
  <2>3. CASE ReadLine
    BY <1>1, <2>3, LineKeepsInv
  <2>4. CASE EndOfFile
    BY <1>1, <2>4, EndKeepsInv
  <2>5. CASE Reset \/ Sleep \/ NextSnapshot
    BY <1>1, <2>5, PassKeepsInv
  <2>6. CASE UNCHANGED vars
    <3>1. UNCHANGED <<file, pc, unread, columns, snapshots, cursor, clock>>
      BY <2>6 DEF vars
    <3>2. (pc = "lines" => Reading)'
      BY <1>1, <3>1 DEF FeedInv, Reading, LinesOf
    <3>3. (Replaying => snapshots # <<>> /\ \E line : LinesOf(Len(file), line))'
      BY <1>1, <3>1 DEF FeedInv, Replaying, LinesOf
    <3> QED
      BY <1>1, <3>1, <3>2, <3>3 DEF FeedInv
  <2> QED
    BY <1>1, <2>1, <2>2, <2>3, <2>4, <2>5, <2>6 DEF Next, Unavailable
<1> QED
  BY <1>1, FeedInit, PTL DEF Spec

LEMMA TimesAreNat ==
  ASSUME FeedInv
  PROVE  \A i \in 1 .. Len(snapshots) : Time(i) \in 0 .. TimeWord - 1
<1> SUFFICES ASSUME NEW i \in 1 .. Len(snapshots)
             PROVE  Time(i) \in 0 .. TimeWord - 1
  OBVIOUS
<1>1. snapshots[i] \in Snapshots
  BY DEF FeedInv
<1> QED
  BY <1>1, SnapshotsTyped DEF Time

\* Times and counts always fit their words.
THEOREM TypeCorrect ==
  Spec => []TypeOK
<1>1. ASSUME FeedInv
      PROVE  TypeOK
  <2>1. ASSUME NEW i \in DOMAIN snapshots
        PROVE  /\ Time(i) \in 0 .. TimeWord - 1
               /\ {snapshots[i].buys, snapshots[i].sells}
                    \subseteq 0 .. CountWord - 1
    <3>1. snapshots[i] \in Snapshots
      BY <1>1 DEF FeedInv
    <3> QED
      BY <3>1, SnapshotsTyped DEF Time
  <2> QED
    BY <1>1, <2>1 DEF TypeOK, FeedInv, Maps
<1> QED
  BY <1>1, FeedInvariance, PTL

\* The snapshots of a feed that is replayed are the lines of its file.
THEOREM LoadedWhole ==
  Spec => []SnapshotsAreLines
<1>1. ASSUME FeedInv
      PROVE  SnapshotsAreLines
  <2> SUFFICES ASSUME Replaying
               PROVE  /\ snapshots # <<>>
                      /\ \E line \in [DOMAIN snapshots -> 2 .. Len(file)] :
                           /\ {line[i] : i \in DOMAIN snapshots}
                                = {l \in 2 .. Len(file) : file[l] # <<>>}
                           /\ \A i \in DOMAIN snapshots :
                                /\ \A j \in 1 .. i - 1 : line[j] < line[i]
                                /\ snapshots[i].sequence = i - 1
                                /\ snapshots[i].midpoint =
                                     ParseDouble(FieldAt(file[line[i]],
                                                         columns["midpoint"]))
    BY DEF SnapshotsAreLines
  <2>1. snapshots # <<>> /\ DOMAIN snapshots = 1 .. Len(snapshots)
    BY <1>1 DEF FeedInv
  <2>2. PICK line : LinesOf(Len(file), line)
    BY <1>1 DEF FeedInv
  <2>3. line \in [DOMAIN snapshots -> 2 .. Len(file)]
    BY <2>1, <2>2 DEF LinesOf
  <2>4. {line[i] : i \in DOMAIN snapshots} = {l \in 2 .. Len(file) : file[l] # <<>>}
    <3>1. \A i \in DOMAIN snapshots :
            line[i] \in 2 .. Len(file) /\ file[line[i]] # <<>>
      BY <2>1, <2>2, <2>3 DEF LinesOf
    <3>2. \A l \in 2 .. Len(file) :
            file[l] # <<>> => \E i \in DOMAIN snapshots : line[i] = l
      BY <2>1, <2>2 DEF LinesOf
    <3> QED
      BY <3>1, <3>2
  <2>5. \A i \in DOMAIN snapshots :
          /\ \A j \in 1 .. i - 1 : line[j] < line[i]
          /\ snapshots[i].sequence = i - 1
          /\ snapshots[i].midpoint =
               ParseDouble(FieldAt(file[line[i]], columns["midpoint"]))
    BY <2>1, <2>2 DEF LinesOf
  <2> QED
    BY <2>1, <2>3, <2>4, <2>5
<1> QED
  BY <1>1, FeedInvariance, PTL

\* No delay between two ticks is longer than the file spans.
THEOREM SleepsWithinSpan ==
  Spec => []SleepWithinSpan
<1>1. ASSUME FeedInv
      PROVE  SleepWithinSpan
  <2> DEFINE times == {Time(i) : i \in DOMAIN snapshots}
  <2> SUFFICES ASSUME Replaying
               PROVE  PeekNextDelayMicros <= Max(times) - Min(times)
    BY DEF SleepWithinSpan
  <2>1. /\ Len(snapshots) \in Nat /\ Len(snapshots) # 0
        /\ DOMAIN snapshots = 1 .. Len(snapshots)
        /\ cursor \in 0 .. Len(snapshots)
    BY <1>1 DEF FeedInv
  <2>2. TimeWord - 1 \in Nat
    BY LoadAssumption
  <2>3. times \in SUBSET (0 .. TimeWord - 1)
    BY <2>1, <1>1, TimesAreNat
  <2>4. \A i \in 1 .. Len(snapshots) : Time(i) \in times
    BY <2>1
  <2>5. 1 \in 1 .. Len(snapshots)
    BY <2>1
  <2> HIDE DEF times
  <2>6. /\ Max(times) \in times /\ \A x \in times : x <= Max(times)
        /\ Min(times) \in times /\ \A x \in times : Min(times) <= x
    BY <2>2, <2>3, <2>4, <2>5, Extremes
  <2>7. \A x \in times : x \in Nat
    BY <2>2, <2>3
  <2>8. \A i, j \in 1 .. Len(snapshots) : Gap(Time(i), Time(j)) <= Max(times) - Min(times)
    <3> SUFFICES ASSUME NEW x \in times, NEW y \in times
                 PROVE  Gap(x, y) <= Max(times) - Min(times)
      BY <2>4
    <3>1. /\ x \in Nat /\ y \in Nat /\ Max(times) \in Nat /\ Min(times) \in Nat
          /\ y <= Max(times) /\ Min(times) <= x /\ Min(times) <= y
      BY <2>6, <2>7
    <3> QED
      BY <3>1 DEF Gap
  <2>9. CASE cursor = 0 \/ cursor >= Len(snapshots)
    <3>1. PeekNextDelayMicros = 0
      BY <2>9 DEF PeekNextDelayMicros
    <3>2. Min(times) <= Max(times) /\ Max(times) \in Nat /\ Min(times) \in Nat
      BY <2>6, <2>7
    <3> QED
      BY <3>1, <3>2
  <2>10. CASE ~(cursor = 0 \/ cursor >= Len(snapshots))
    <3>1. cursor \in 1 .. Len(snapshots) /\ cursor + 1 \in 1 .. Len(snapshots)
      BY <2>1, <2>10
    <3>2. PeekNextDelayMicros = Gap(Time(cursor), Time(cursor + 1))
      BY <2>10 DEF PeekNextDelayMicros, Time
    <3> QED
      BY <3>1, <3>2, <2>8
  <2> QED
    BY <2>9, <2>10
<1> QED
  BY <1>1, FeedInvariance, PTL

-----------------------------------------------------------------------------
(* The pace of a pass: NoTickEarly speaks of the moment after a tick;       *)
(* between the sleep and the tick the same holds of the tick that is about  *)
(* to go.                                                                   *)

Steady ==
  \A i \in 1 .. Len(snapshots) - 1 : Time(i + 1) - Time(i) \in 0 .. DoubleExact

NotEarly(i) == Time(i) - Time(1) <= Speed * clock + (Speed - 1) * (i - 1)

PaceInv ==
  Steady =>
    /\ pc = "peek" /\ cursor > 0 => NotEarly(cursor)
    /\ pc = "next" /\ cursor > 0 /\ cursor < Len(snapshots) => NotEarly(cursor + 1)

\* A sleep falls short of its gap by less than a microsecond, and whatever
\* else takes time only adds to it.
LEMMA SleepRounds ==
  ASSUME NEW gap \in Nat, NEW speed \in Nat \ {0}, NEW time \in Nat,
         NEW delay \in Nat, NEW n \in Int, NEW distance \in Int,
         distance <= speed * time + (speed - 1) * n
  PROVE  distance + gap
           <= speed * (time + gap \div speed + delay) + (speed - 1) * (n + 1)
<1> DEFINE q == gap \div speed
           r == gap % speed
<1>1. q \in Nat /\ r \in 0 .. speed - 1 /\ gap = speed * q + r
  OBVIOUS
<1> HIDE DEF q, r
<1>2. speed * (time + q + delay) = speed * time + speed * q + speed * delay
  BY <1>1
<1>3. (speed - 1) * (n + 1) = (speed - 1) * n + (speed - 1)
  OBVIOUS
<1>4. speed * delay \in Nat
  OBVIOUS
<1>5. PICK ts \in Int, qs \in Int, ds \in Nat, sn \in Int :
        ts = speed * time /\ qs = speed * q /\ ds = speed * delay /\ sn = (speed - 1) * n
  BY <1>1, <1>4
<1>6. distance + gap <= ts + qs + ds + (sn + (speed - 1))
  BY <1>1, <1>5
<1> QED
  BY <1>2, <1>3, <1>5, <1>6 DEF q

\* Within the integers of a double the sleep is the quotient itself.
LEMMA SleepExact ==
  ASSUME NEW gap \in 0 .. DoubleExact, NEW micros \in Quotients(gap)
  PROVE  Slept(micros) = gap \div Speed
<1>1. gap \in Nat /\ gap <= DoubleExact /\ DoubleExact \in Nat /\ Speed \in Nat \ {0}
      /\ TimeWord \in Nat /\ DoubleExact < TimeWord \div 2
  BY LoadAssumption
<1>2. micros = gap \div Speed
  BY <1>1 DEF Quotients
<1>3. gap \div Speed <= gap
  <2>1. PICK q \in Nat : q = gap \div Speed /\ Speed * q <= gap
    BY <1>1
  <2>2. q <= Speed * q
    BY <1>1, <2>1
  <2> QED
    BY <1>1, <2>1, <2>2
<1>4. gap \div Speed < TimeWord \div 2
  <2>1. gap \div Speed \in Nat /\ TimeWord \div 2 \in Nat
    BY <1>1
  <2> QED
    BY <1>1, <1>3, <2>1
<1> QED
  BY <1>2, <1>4 DEF Slept

LEMMA PaceKept ==
  ASSUME FeedInv, PaceInv, [Next]_vars
  PROVE  PaceInv'
<1> SUFFICES ASSUME Steady'
             PROVE  (/\ pc = "peek" /\ cursor > 0 => NotEarly(cursor)
                     /\ pc = "next" /\ cursor > 0 /\ cursor < Len(snapshots)
                          => NotEarly(cursor + 1))'
  BY DEF PaceInv
<1>1. CASE ReadHeader \/ OpenFails \/ ReadLine \/ EndOfFile
  BY <1>1 DEF ReadHeader, OpenFails, ReadLine, EndOfFile
<1>2. CASE Reset
  BY <1>2 DEF Reset
<1>3. CASE Sleep
  <2> USE <1>3 DEF Sleep
  <2>1. Steady /\ UNCHANGED <<snapshots, cursor>> /\ pc = "peek" /\ pc' = "next"
    BY DEF Steady, Time
  <2>2. CASE ~(cursor > 0 /\ cursor < Len(snapshots))
    BY <2>1, <2>2
  <2>3. CASE cursor > 0 /\ cursor < Len(snapshots)
    <3>1. /\ Len(snapshots) \in Nat /\ cursor \in Nat
          /\ cursor \in 1 .. Len(snapshots) - 1
          /\ {1, cursor, cursor + 1} \subseteq 1 .. Len(snapshots)
      BY <2>3 DEF FeedInv
    <3>2. PICK first \in Nat, this \in Nat, next \in Nat :
            first = Time(1) /\ this = Time(cursor) /\ next = Time(cursor + 1)
      <4>1. TimeWord - 1 \in Nat
        BY LoadAssumption
      <4>2. \A i \in 1 .. Len(snapshots) : Time(i) \in Nat
        BY <4>1, TimesAreNat
      <4> QED
        BY <3>1, <4>2
    <3>3. next - this \in 0 .. DoubleExact
      BY <2>1, <3>1, <3>2 DEF Steady
    <3>4. PeekNextDelayMicros = next - this
      <4>1. PeekNextDelayMicros = Gap(this, next)
        BY <2>3, <3>1, <3>2 DEF PeekNextDelayMicros, Time
      <4> QED
        BY <4>1, <3>2, <3>3 DEF Gap
    <3>5. PICK micros \in Quotients(next - this), delay \in Delays :
            clock' = clock + Slept(micros) + delay
      BY <3>4
    <3>6. /\ Slept(micros) = (next - this) \div Speed
          /\ delay \in Nat /\ clock \in Nat /\ Speed \in Nat \ {0}
      BY <3>3, <3>5, SleepExact, LoadAssumption DEF FeedInv
    <3>7. this - first <= Speed * clock + (Speed - 1) * (cursor - 1)
      BY <2>1, <2>3, <3>2 DEF PaceInv, NotEarly
    <3>8. (this - first) + (next - this)
            <= Speed * (clock + (next - this) \div Speed + delay)
                 + (Speed - 1) * ((cursor - 1) + 1)
      <4>1. next - this \in Nat /\ this - first \in Int /\ cursor - 1 \in Int
        BY <3>1, <3>2, <3>3
      <4> QED
        BY <3>6, <3>7, <4>1, SleepRounds
    <3>9. next - first <= Speed * clock' + (Speed - 1) * ((cursor + 1) - 1)
      <4>1. (this - first) + (next - this) = next - first
            /\ (cursor - 1) + 1 = (cursor + 1) - 1
        BY <3>1, <3>2
      <4>2. clock' = clock + (next - this) \div Speed + delay
        BY <3>5, <3>6
      <4> QED
        BY <3>8, <4>1, <4>2
    <3>10. NotEarly(cursor + 1)'
      BY <2>1, <3>2, <3>9 DEF NotEarly, Time
    <3> QED
      BY <2>1, <3>10
  <2> QED
    BY <2>2, <2>3
<1>4. CASE NextSnapshot
  <2> USE <1>4 DEF NextSnapshot
  <2>1. Steady /\ UNCHANGED snapshots /\ cursor \in 0 .. Len(snapshots)
        /\ Len(snapshots) \in Nat
    BY DEF Steady, Time, FeedInv
  <2>2. CASE cursor >= Len(snapshots)
    BY <2>1, <2>2
  <2>3. CASE cursor < Len(snapshots) /\ cursor > 0
    <3>1. NotEarly(cursor + 1)
      BY <2>1, <2>3 DEF PaceInv
    <3>2. cursor' = cursor + 1 /\ pc' = "peek" /\ clock' = clock
      BY <2>1, <2>3
    <3>3. NotEarly(cursor)'
      BY <2>1, <3>1, <3>2 DEF NotEarly, Time
    <3> QED
      BY <3>2, <3>3
  <2>4. CASE cursor < Len(snapshots) /\ cursor = 0
    <3>1. cursor' = 1 /\ pc' = "peek" /\ clock' = 0
      BY <2>1, <2>4
    <3>2. PICK first \in Nat : first = Time(1)'
      <4>1. TimeWord - 1 \in Nat
        BY LoadAssumption
      <4>2. Time(1) \in Nat
        BY <2>1, <4>1, <2>4, TimesAreNat
      <4> QED
        BY <2>1, <4>2 DEF Time
    <3>3. Speed * 0 = 0 /\ (Speed - 1) * (1 - 1) = 0 /\ first - first <= 0 + 0
      BY <3>2, LoadAssumption
    <3>4. NotEarly(cursor)'
      BY <3>1, <3>2, <3>3 DEF NotEarly, Time
    <3> QED
      BY <3>1, <3>4
  <2> QED
    BY <2>1, <2>2, <2>3, <2>4
<1>5. CASE UNCHANGED vars
  BY <1>5 DEF vars, PaceInv, Steady, NotEarly, Time
<1> QED
  BY <1>1, <1>2, <1>3, <1>4, <1>5 DEF Next, Unavailable

\* For any file whose times rise by steps a double holds, any speed and any
\* delays between the sleeps, no tick of any pass leaves before its recorded
\* distance from the first, less the part of a microsecond each sleep loses.
THEOREM TicksNeverEarly ==
  Spec => []NoTickEarly
<1>1. Init => PaceInv
  BY DEF Init, PaceInv
<1>2. FeedInv /\ PaceInv => NoTickEarly
  BY DEF PaceInv, Steady, NotEarly, NoTickEarly
<1> QED
  BY <1>1, <1>2, PaceKept, FeedInvariance, PTL DEF Spec

=============================================================================
