SPECIFICATION FairSpec
CONSTANTS
  c1 = c1
  c2 = c2
  u1 = u1
  Clients = {c1, c2}
  Topics = {u1}
  TopicOf <- SameUser
  Unknown <- None
  Batch = 1
  MaxPerOrg = 2
  MaxEvents = 1
  MaxFaults = 1
INVARIANTS SlotsReturned
PROPERTIES StreamsCatchUp
