SPECIFICATION Spec
CONSTANTS
  Files <- MCFiles
  Unreadable = Unreadable
  Missing <- MCMissing
  TimeWord = 32
  CountWord = 16
  DoubleExact = 15
  Speed = 2
  Delays = {0, 1, 5}
INVARIANTS TypeOK SnapshotsAreLines SleepWithinSpan NoTickEarly
