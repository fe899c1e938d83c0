SPECIFICATION FairSpec
CONSTANTS
  s1 = s1
  s2 = s2
  w1 = w1
  None = None
  Sensors <- MCSensors
  Workers <- MCWorkers
  WorkerOf <- MCWorkerOf
  MaxFrames = 3
  ResultCap = 1
  TimeoutCap = 1
  IDsCap = 1
  TimeOut = 1
  Minute = 2
  MaxLag = 0
INVARIANTS
  TypeOK
  NoFrameLost
PROPERTIES
  ImplementsFrameLog
  TimedOutIsFlushed
  IdleIsFlushed
  EveryFrameTaken
