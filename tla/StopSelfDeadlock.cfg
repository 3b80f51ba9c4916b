\* stop() waits for a lock its own thread holds.
SPECIFICATION FairSpec
CONSTANTS
  t1 = t1
  t2 = t2
  t3 = t3
  t4 = t4
  c1 = c1
  c2 = c2
  c3 = c3
  c4 = c4
  Main = Main
  None = None
  Threads <- OneThread
  Conns <- OneConn
  QueueSize = 1
  LeastWorkers = 1
  MostWorkers = 2
  Byte = 4
  SignalThreads <- MainOnly
  SpawnFaults <- NoFaults
PROPERTY StopAlwaysEnds
CHECK_DEADLOCK FALSE
