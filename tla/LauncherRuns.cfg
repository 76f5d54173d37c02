SPECIFICATION FairSpec
CONSTANTS
  Modes = {"all", "server", "client"}
  MaxAttempts = 2
  MaxSignals = 2
INVARIANTS TypeOK NoOrphan
PROPERTY CtrlCEndsAll
