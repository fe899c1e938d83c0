SPECIFICATION FairShutdownSpec
CONSTANTS
  s1 = s1
  s2 = s2
  w1 = w1
  w2 = w2
  None = None
  Start = Start
  Sensors <- MCSensors
  Workers <- MCOneWorker
  WorkerOf <- MCSameWorker
  MaxFrames = 2
  ResultCap = 1
  TimeoutCap = 1
  IDsCap = 1
  TimeOut = 1
  Minute = 1
  MaxLag = 0
  MaxSignals = 0
PROPERTIES
  CloseEnds
  QuitIsFlushed
CHECK_DEADLOCK FALSE
