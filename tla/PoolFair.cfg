\* Clients are served and a shutdown ends: a signal on any thread, at any step.
SPECIFICATION FairSpec
CONSTANTS
  t1 = t1
  t2 = t2
  t3 = t3
  t4 = t4
  c1 = c1
  c2 = c2
  c3 = c3
  c4 = c4
  Main = Main
  None = None
  Threads <- TwoThreads
  Conns <- TwoConns
  QueueSize = 1
  LeastWorkers = 1
  MostWorkers = 2
  Byte = 4
  SignalThreads <- AnyThread
  SpawnFaults <- DetachFault
PROPERTIES ServedUnlessStopped StopAwaitsHandlers StopEnds
\* a signal that finds its thread holding the pool's lock stops everything
CHECK_DEADLOCK FALSE
