SPECIFICATION FairSpec
CONSTANTS
  s1 = s1
  s2 = s2
  w1 = w1
  None = None
  Sensors <- MCOneSensor
  Workers <- MCWorkers
  WorkerOf <- MCWorkerOf
  MaxFrames = 2
  ResultCap = 1
  TimeoutCap = 1
  IDsCap = 1
  TimeOut = 2
  Minute = 4
  MaxLag = 2
PROPERTIES
  LateIsFlushed
