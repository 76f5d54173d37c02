------------------------------ MODULE FeedLoad ------------------------------
(***************************************************************************)
(* One feed from its file to its ticks (server/market_data_feed.cpp):      *)
(* loadFromCsv line by line, buildColumnMap, parseRow with the parsers of  *)
(* common/utilities.hpp, then the replay worker's reset, pacing and next,  *)
(* pass after pass.                                                        *)
(*                                                                         *)
(* A file is a sequence of lines, a line the sequence of its fields as     *)
(* splitCsvLine returns them, an empty line the empty sequence.  A field   *)
(* is the number at its head, or Unreadable.  A word of 64 bits has        *)
(* TimeWord values here, one of 32 bits CountWord, and a double holds the  *)
(* integers up to DoubleExact.  The 40 book columns are like the others.   *)
(*                                                                         *)
(* The worker asks for one sleep per tick and takes no account of the time *)
(* between two sleeps: waiting for clients_mutex_, sending, waking up      *)
(* late.  That time is one of Delays, anew at each tick.                   *)
(***************************************************************************)
EXTENDS Integers, SequencesExt

CONSTANTS
  Files,         \* the CSV files that may be found
  Unreadable,    \* a field no number can be read from
  Missing,       \* columnIndex of a column the header lacks, -1
  TimeWord,      \* how many values system_time has, 2^64
  CountWord,     \* how many buys and sells have, 2^32
  DoubleExact,   \* up to where a double holds every integer, 2^53
  Speed,         \* UDS_REPLAY_SPEED, a whole number here
  Delays         \* microseconds a tick may take beside its sleep

Fields == Int \cup {Unreadable}

\* A header of names over rows of fields.
ASSUME FileAssumption ==
  \A f \in Files : f = <<>> \/ /\ Head(f) \in Seq(STRING)
                               /\ Tail(f) \in Seq(Seq(Fields))
                               /\ f = <<Head(f)>> \o Tail(f)

ASSUME LoadAssumption ==
  /\ TimeWord \in Nat \ {0} /\ CountWord \in 1 .. TimeWord
  /\ DoubleExact \in Nat \ {0} /\ DoubleExact < TimeWord \div 2
  /\ Speed \in Nat \ {0}
  /\ Delays \subseteq Nat
  /\ Missing \notin Nat

VARIABLES
  file,        \* what the path leads to
  pc,          \* "open", "lines", "failed"; then the worker's "reset", "peek", "next"
  unread,      \* lines getline has not returned yet
  columns,     \* ColumnMap
  snapshots,   \* snapshots_
  cursor,      \* cursor_
  clock        \* history: microseconds since the first tick of the pass left

vars == <<file, pc, unread, columns, snapshots, cursor, clock>>

Names == {"system_time", "midpoint", "buys", "sells"}

Init ==
  /\ file \in Files
  /\ pc = "open"
  /\ unread = file
  /\ columns = [n \in Names |-> Missing]
  /\ snapshots = <<>>
  /\ cursor = 0
  /\ clock = 0

-----------------------------------------------------------------------------
(* The parsers                                                             *)

\* stoull: a minus sign wraps, what is too large throws.
ParseUint64(text) ==
  IF text = Unreadable THEN 0
  ELSE IF text >= TimeWord \/ text <= -TimeWord THEN 0
  ELSE text % TimeWord

\* Mutant: without the cast to 32 bits.
ParseUint64Only(text) == ParseUint64(text)

\* stoul has 64 bits; the cast keeps the low 32.
ParseUint32(text) == ParseUint64(text) % CountWord

ParseDouble(text) == IF text = Unreadable THEN 0 ELSE text

\* The index of each column, the last one of a name given twice.
ColumnMap(header) ==
  [n \in Names |-> LET at == {i \in DOMAIN header : header[i] = n}
                   IN  IF at = {} THEN Missing ELSE Max(at)]

FieldAt(fields, column) ==
  IF column \in DOMAIN fields THEN fields[column] ELSE Unreadable

ParseRow(fields, map) ==
  [sequence    |-> 0,
   system_time |-> ParseUint64(FieldAt(fields, map["system_time"])),
   midpoint    |-> ParseDouble(FieldAt(fields, map["midpoint"])),
   buys        |-> ParseUint32(FieldAt(fields, map["buys"])),
   sells       |-> ParseUint32(FieldAt(fields, map["sells"]))]

-----------------------------------------------------------------------------
(* loadFromCsv                                                             *)

\* The header; no file, an empty one, or no time or midpoint fails.
ReadHeader ==
  /\ pc = "open"
  /\ file # <<>>
  /\ columns' = ColumnMap(Head(file))
  /\ unread' = Tail(file)
  /\ pc' = IF Missing \in {columns'["system_time"], columns'["midpoint"]}
           THEN "failed" ELSE "lines"
  /\ UNCHANGED <<file, snapshots, cursor, clock>>

OpenFails ==
  /\ pc = "open"
  /\ pc' = "failed"
  /\ UNCHANGED <<file, unread, columns, snapshots, cursor, clock>>

\* Mutant: the lines are numbered, skipped ones included.
SequenceOfLine == Len(file) - Len(unread) - 1

\* sequence++
Sequence == Len(snapshots)

\* Only a line without any character is skipped: splitCsvLine never returns
\* an empty vector.
ReadLine ==
  /\ pc = "lines"
  /\ unread # <<>>
  /\ snapshots' = IF Head(unread) = <<>> THEN snapshots
                  ELSE Append(snapshots, [ParseRow(Head(unread), columns)
                                            EXCEPT !.sequence = Sequence])
  /\ unread' = Tail(unread)
  /\ UNCHANGED <<file, pc, columns, cursor, clock>>

EndOfFile ==
  /\ pc = "lines"
  /\ unread = <<>>
  /\ pc' = IF snapshots = <<>> THEN "failed" ELSE "reset"
  /\ UNCHANGED <<file, unread, columns, snapshots, cursor, clock>>

-----------------------------------------------------------------------------
(* The replay worker.  C++ counts snapshots_ from 0, the sequence from 1.  *)

Reset ==
  /\ pc = "reset"
  /\ cursor' = 0
  /\ pc' = "peek"
  /\ UNCHANGED <<file, unread, columns, snapshots, clock>>

\* Mutant: without if (next <= prev) return 0.
GapUnguarded(prev, next) == (next - prev) % TimeWord

Gap(prev, next) == IF next <= prev THEN 0 ELSE next - prev

\* Mutant: the last two snapshots are taken for the end already.
PeekOneShort ==
  IF cursor = 0 \/ cursor + 1 >= Len(snapshots) THEN 0
  ELSE Gap(snapshots[cursor].system_time, snapshots[cursor + 1].system_time)

PeekNextDelayMicros ==
  IF cursor = 0 \/ cursor >= Len(snapshots) THEN 0
  ELSE Gap(snapshots[cursor].system_time, snapshots[cursor + 1].system_time)

\* static_cast<double>(delay) / speed, back to a word of 64 bits.  Beyond
\* DoubleExact the two roundings may each be off by a part in DoubleExact, and
\* a result of TimeWord or more, which a word cannot hold, is any word.
Quotients(delay) ==
  IF delay <= DoubleExact THEN {delay \div Speed}
  ELSE LET near == {q \in 0 .. TimeWord :
                      /\ (q * Speed - delay) * DoubleExact <= 3 * delay
                      /\ (delay - q * Speed) * DoubleExact
                           <= 3 * delay + Speed * DoubleExact}
       IN  IF TimeWord \in near THEN 0 .. TimeWord - 1 ELSE near

\* sleepMicros: the word becomes a signed number of microseconds, and nobody
\* sleeps a negative one.
Slept(micros) == IF micros < TimeWord \div 2 THEN micros ELSE 0

\* The sleep before a tick, and all else that passes before the tick leaves.
Sleep ==
  /\ pc = "peek"
  /\ \E micros \in Quotients(PeekNextDelayMicros), delay \in Delays :
       clock' = clock + Slept(micros) + delay
  /\ pc' = "next"
  /\ UNCHANGED <<file, unread, columns, snapshots, cursor>>

\* next(): the tick at the cursor, or the end of the pass.  The clock of a
\* pass starts with its first tick.
NextSnapshot ==
  /\ pc = "next"
  /\ IF cursor < Len(snapshots)
     THEN cursor' = cursor + 1 /\ pc' = "peek"
     ELSE cursor' = cursor /\ pc' = "reset"
  /\ clock' = IF cursor = 0 THEN 0 ELSE clock
  /\ UNCHANGED <<file, unread, columns, snapshots>>

\* main goes on without the feed.
Unavailable == pc = "failed" /\ UNCHANGED vars

Next ==
  \/ ReadHeader \/ OpenFails \/ ReadLine \/ EndOfFile
  \/ Reset \/ Sleep \/ NextSnapshot \/ Unavailable

Spec == Init /\ [][Next]_vars

-----------------------------------------------------------------------------
Replaying == pc \in {"reset", "peek", "next"}
Time(i) == snapshots[i].system_time

\* Times and counts fit their words, the cursor the snapshots.
TypeOK ==
  /\ \A i \in DOMAIN snapshots :
       /\ Time(i) \in 0 .. TimeWord - 1
       /\ {snapshots[i].buys, snapshots[i].sells} \subseteq 0 .. CountWord - 1
  /\ columns \in [Names -> Nat \cup {Missing}]
  /\ cursor \in 0 .. Len(snapshots)
  /\ clock \in Nat

\* A loaded feed holds the lines of its file that have any character, each
\* once, in order and numbered without a gap, as LastSequence and Rows of
\* MarketDataFeed take for granted.
SnapshotsAreLines ==
  Replaying =>
    /\ snapshots # <<>>
    /\ \E line \in [DOMAIN snapshots -> 2 .. Len(file)] :
         /\ {line[i] : i \in DOMAIN snapshots} = {l \in 2 .. Len(file) : file[l] # <<>>}
         /\ \A i \in DOMAIN snapshots :
              /\ \A j \in 1 .. i - 1 : line[j] < line[i]
              /\ snapshots[i].sequence = i - 1
              /\ snapshots[i].midpoint =
                   ParseDouble(FieldAt(file[line[i]], columns["midpoint"]))

\* Through any times, equal, backward, unreadable or wrapped, the delay the
\* worker divides by its speed is never longer than the file spans: a
\* difference that ran below zero would be one of half a million years.
SleepWithinSpan ==
  Replaying =>
    LET times == {Time(i) : i \in DOMAIN snapshots}
    IN  PeekNextDelayMicros <= Max(times) - Min(times)

\* The pace is a lower bound: in a file whose times rise, by steps a double
\* holds, no tick leaves before its recorded distance from the first one of
\* its pass, divided by the speed, less what the division cut off each sleep,
\* under a microsecond.  How late it leaves is unbounded: the time spent
\* between the sleeps is never made up.
NoTickEarly ==
  (/\ Replaying /\ cursor > 0 /\ pc = "peek"
   /\ \A i \in 1 .. Len(snapshots) - 1 : Time(i + 1) - Time(i) \in 0 .. DoubleExact) =>
     Time(cursor) - Time(1) <= Speed * clock + (Speed - 1) * (cursor - 1)
=============================================================================
