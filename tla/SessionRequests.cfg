SPECIFICATION Spec
CONSTANTS
  c1 = c1
  c2 = c2
  btc = btc
  eth = eth
  xyz = xyz
  none = none
  Conns = {c1}
  Fds = {1}
  NoFd = 0
  NoConn = NoConn
  Symbols = {btc, eth}
  NoSymbol = none
  UnknownSymbol = xyz
  Rows <- MCRowsBoth
  PeerRequests <- MCRequestsBoth
  MaxRequests = 2
  SendBuffer = 1
  LoopForever = TRUE
INVARIANTS TypeOK SubscribedHasFeed
PROPERTIES StreamUnbroken ImplementsService
