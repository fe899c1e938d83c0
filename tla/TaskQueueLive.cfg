SPECIFICATION FairSpec
CONSTANTS
  q1 = q1
  r1 = r1
  w2 = w2
  w1 = w1
  NoTask = NoTask
  ReadTasks <- MCReads
  WriteTasks <- MCOneWrite
  Queues <- MCQueues
  QueueOf <- MCQueueOf
  QueueLen = 1
  MayClose = TRUE
PROPERTIES
  GivenUpIsSkipped
  EveryCallReturns
  AcceptedIsServed
CHECK_DEADLOCK FALSE
