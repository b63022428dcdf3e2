SPECIFICATION Spec
CONSTANTS
  s1 = s1
  s2 = s2
  w1 = w1
  w2 = w2
  c1 = c1
  c2 = c2
  NoWorker = NoWorker
  Sessions = {s1}
  Workers = {w1, w2}
  Commands = {c1, c2}
  SessionOf <- OneSession
  TTL = 1
  RetryAfter = 1
  Skew = 1
  MaxAttempts = 2
  MaxActiveWorkers = 0
  MaxQueuedCommands = 0
  MaxLeaseAttempts = 3
  MaxCheckpointVersion = 2
SYMMETRY WorkerSymmetry
INVARIANTS TypeOK OneAttemptPerLease
PROPERTIES SettledIsFinal OnlyTheHolderDecides ImplementsQueue
