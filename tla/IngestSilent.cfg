SPECIFICATION FairSpec
CONSTANTS
  s1 = s1
  s2 = s2
  w1 = w1
  None = None
  Sensors <- MCOneSensor
  Workers <- MCWorkers
  WorkerOf <- MCWorkerOf
  MaxFrames = 1
  ResultCap = 1
  TimeoutCap = 1
  IDsCap = 1
  TimeOut = 2
  Minute = 2
  MaxLag = 0
PROPERTIES
  SilentIsFlushed
