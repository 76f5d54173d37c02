SPECIFICATION FairSpec
CONSTANTS
  HeaderUnits = 2
  PayloadUnits <- MCPayloadTwo
  Buffer = 5
  Requests = {}
  MaxRequests = 0
  MaxPackets = 5
  Subscriptions = {"Subscribe", "SubscribeUnknown"}
  MaxSignals = 2
INVARIANTS TypeOK FramesWhole CallbacksFollowStream
PROPERTIES ConnectionEnds PacketsHandled SubscribeTakesEffect
