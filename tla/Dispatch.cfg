SPECIFICATION FairSpec
CONSTANTS
  s1 = s1
  s2 = s2
  k1 = k1
  k2 = k2
  w1 = w1
  w2 = w2
  NoKey = NoKey
  None = None
  Streams <- MCStreams
  Keys <- MCKeys
  KeysOf <- MCKeysOf
  Workers <- MCWorkers
  WorkerOf <- MCWorkerOf
  Contents <- MCContents
  GrpcCap = 1
  JobCap = 1
  ResultCap = 1
  MaxMessages <- MCMaxMessages
  MaxFrames = 4
CHECK_DEADLOCK FALSE
INVARIANTS
  TypeOK
  OneWorkerPerSensor
  DoneIsOffered
PROPERTIES
  ImplementsFramePipe
  UnderWayIsDone
