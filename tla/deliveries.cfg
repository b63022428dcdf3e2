SPECIFICATION FairSpec
CONSTANTS
  d1 = d1
  d2 = d2
  d3 = d3
  l1 = l1
  l2 = l2
  g1 = g1
  g2 = g2
  Nobody = Nobody
  Creations = {"pending", "claimed", "sent", "failed", "dead"}
  Operations = {"failed", "dead"}
  Deliveries = {d1, d2, d3}
  Gateways = {g1, g2}
  Lanes = {l1, l2}
  LaneOf <- TwoLanes
  Outsets <- QueueRaceOrRetries
  ClaimTTL = 1
  RetryDelay = 1
  MaxAttempts = 2
  MaxConcurrency = 1
  MaxQueueDepth = 1
  CacheSize = 1
  MaxFrames = 1
  MaxDisruptions = 1
INVARIANTS DeliveryTypeOK SentMeansDelivered NoSecondSend NoLaneStranded
PROPERTIES SettledStays DeliveriesSettle
CHECK_DEADLOCK FALSE
