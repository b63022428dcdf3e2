SPECIFICATION WorkerSpec
CONSTANTS
  s1 = s1
  s2 = s2
  w1 = w1
  w2 = w2
  c1 = c1
  c2 = c2
  i1 = i1
  i2 = i2
  NoWorker = NoWorker
  Nil = Nil
  NoCheckpoint = NoCheckpoint
  Sessions = {s1, s2}
  Workers = {w1}
  Commands = {c1, c2}
  Lanes = {i1, i2}
  SessionOf <- TwoSessions
  WorkerOf <- OneWorker
  TTL = 1
  RetryAfter = 1
  Skew = 0
  MaxAttempts = 2
  MaxActiveWorkers = 1
  MaxQueuedCommands = 0
  MaxLeaseAttempts = 1
  MaxCheckpointVersion = 2
  MaxRetries = 2
  MaxLeases = 1
  AutoProcess = TRUE
  MaxRenewals = 0
  MaxEvents = 1
  MaxFaults = 0
SYMMETRY PairSymmetry
INVARIANTS WorkerTypeOK CopiesComeFromTheStore ExclusiveExecution ActiveWorkerQuota
PROPERTIES SavesInOrderCover
