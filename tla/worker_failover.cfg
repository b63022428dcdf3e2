SPECIFICATION WorkerSpec
CONSTANTS
  s1 = s1
  s2 = s2
  w1 = w1
  w2 = w2
  c1 = c1
  c2 = c2
  i1 = i1
  i2 = i2
  NoWorker = NoWorker
  Nil = Nil
  NoCheckpoint = NoCheckpoint
  Sessions = {s1}
  Workers = {w1, w2}
  Commands = {c1}
  Lanes = {i1, i2}
  SessionOf <- OneSession
  WorkerOf <- LanePerWorker
  TTL = 1
  RetryAfter = 1
  Skew = 0
  MaxAttempts = 2
  MaxActiveWorkers = 0
  MaxQueuedCommands = 0
  MaxLeaseAttempts = 2
  MaxCheckpointVersion = 1
  MaxRetries = 2
  MaxLeases = 1
  AutoProcess = FALSE
  MaxRenewals = 1
  MaxEvents = 0
  MaxFaults = 1
SYMMETRY WorkerSymmetry
INVARIANTS LaneOwnsItsCommand AckedHasManifest
PROPERTIES ImplementsStore
