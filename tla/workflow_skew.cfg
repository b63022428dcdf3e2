SPECIFICATION Spec
CONSTANTS
  w1 = w1
  r1 = r1
  r2 = r2
  p1 = p1
  p2 = p2
  NoWorkflow = NoWorkflow
  NoRun = NoRun
  Workflows = {w1}
  Runs = {r1, r2}
  Schedulers = {p1}
  Requests = {p2}
  SlotsOf <- EveryInstant
  ClaimTTL = 1
  MaxAttempts = 2
  Skew = 1
  MaxTime = 3
  MaxDisruptions = 0
INVARIANTS SkewNeverDuplicates
