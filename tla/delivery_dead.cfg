SPECIFICATION Spec
CONSTANTS
  d1 = d1
  d2 = d2
  d3 = d3
  l1 = l1
  l2 = l2
  g1 = g1
  g2 = g2
  Nobody = Nobody
  Creations = {"pending"}
  Operations = {}
  Deliveries = {d1}
  Gateways = {g1}
  Lanes = {l1, l2}
  LaneOf <- TwoLanes
  Outsets <- OneDelivery
  ClaimTTL = 1
  RetryDelay = 1
  MaxAttempts = 2
  MaxConcurrency = 1
  MaxQueueDepth = 1
  CacheSize = 1
  MaxFrames = 1
  MaxDisruptions = 1
INVARIANTS DeliveredIsNotDead
CHECK_DEADLOCK FALSE
