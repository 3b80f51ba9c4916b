\* stop() releases the buffers of a worker that has a client.
SPECIFICATION Spec
CONSTANTS
  t1 = t1
  t2 = t2
  t3 = t3
  t4 = t4
  c1 = c1
  c2 = c2
  c3 = c3
  c4 = c4
  Main = Main
  None = None
  Threads <- TwoThreads
  Conns <- TwoConns
  QueueSize = 1
  LeastWorkers = 1
  MostWorkers = 2
  Byte = 4
  SignalThreads <- MainOnly
  SpawnFaults <- NoFaults
INVARIANT HandlesOnLiveSlot
