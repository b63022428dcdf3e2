SPECIFICATION FairSpec
CONSTANTS
  m1 = m1
  m2 = m2
  p1 = p1
  p2 = p2
  Boundary = Boundary
  Runtime = Runtime
  Worker = p1
  Script <- Conversation
  Asks <- Questions
  Casts <- OneAtATime
  Writers <- AnswerAndUpload
  Resolves <- Answers
  ProcOf <- Processes
  MaxDisruptions = 1
INVARIANTS EventsTypeOK TranscriptInOrder CursorIsSafe IdleComesLast ProjectionIsFold SummaryFollows
PROPERTIES SessionGoesIdle
CHECK_DEADLOCK FALSE
