SPECIFICATION Spec
CONSTANTS
  q1 = q1
  r1 = r1
  w2 = w2
  w1 = w1
  NoTask = NoTask
  ReadTasks <- MCReads
  WriteTasks <- MCWrites
  Queues <- MCQueues
  QueueOf <- MCQueueOf
  QueueLen = 2
  MayClose = TRUE
INVARIANTS
  TypeOK
  LiveHandlersExclusive
  HeldOnce
  ReplyDefinite
  TimeoutIsCounted
PROPERTIES
  OnTimeReply
  ImplementsSerialExecutor
CHECK_DEADLOCK FALSE
