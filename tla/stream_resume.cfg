SPECIFICATION Spec
CONSTANTS
  c1 = c1
  c2 = c2
  u1 = u1
  Clients = {c1}
  Topics = {u1}
  TopicOf <- OneClient
  Unknown <- Second
  Batch = 2
  MaxPerOrg = 1
  MaxEvents = 4
  MaxFaults = 1
INVARIANTS StreamTypeOK NoSilentGap
PROPERTIES NeverGoesBack
