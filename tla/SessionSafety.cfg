SPECIFICATION Spec
CONSTANTS
  c1 = c1
  c2 = c2
  btc = btc
  eth = eth
  xyz = xyz
  none = none
  Conns = {c1, c2}
  Fds = {1, 2}
  NoFd = 0
  NoConn = NoConn
  Symbols = {btc}
  NoSymbol = none
  UnknownSymbol = xyz
  Rows <- MCRows
  PeerRequests <- MCSubscribe
  MaxRequests = 1
  SendBuffer = 1
  LoopForever = TRUE
SYMMETRY ConnSymmetry
INVARIANTS SessionOwnsFd NoFdLeak StopIsComplete
PROPERTY ImplementsService
