SPECIFICATION WireSpec
CONSTANTS
  HeaderUnits = 2
  PayloadUnits <- MCPayload
  Buffer = 5
  Requests = {"Subscribe", "Heartbeat"}
  MaxRequests = 2
  MaxPackets = 4
INVARIANT FramesWhole
