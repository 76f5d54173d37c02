SPECIFICATION MCSpec
CONSTANTS
  Window = 5
  FastTicks = 2
  SlowTicks = 4
  InitialCash = 12000
  PositionSize = 1
  SignalThreshold = 1600
  FeeRate = 1
  FeeScale = 100
  MaxSpread = 200
  MinHoldTicks = 2
  IntBits = 8
  Snapshots <- MCAll
  NoSnapshot = NoSnapshot
  MaxTicks = 13
  MaxErrors = 1
INVARIANTS TypeOK NeverQueued BooksBalance Solvent ReportReconciles EveryTickReported DrawdownCoversLoss RingHoldsLatest
PROPERTIES EntriesAgree FlipViaFlat MinimumHold HaltIsFinal
