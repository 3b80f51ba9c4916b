\* The pool grows and shrinks and spawn() fails, no signal arrives.
SPECIFICATION Spec
CONSTANTS
  t1 = t1
  t2 = t2
  t3 = t3
  t4 = t4
  c1 = c1
  c2 = c2
  c3 = c3
  c4 = c4
  Main = Main
  None = None
  Threads <- FourThreads
  Conns <- FourConns
  QueueSize = 2
  LeastWorkers = 1
  MostWorkers = 3
  Byte = 6
  SignalThreads <- NoThreads
  SpawnFaults <- SetupFault
SYMMETRY Interchangeable
INVARIANTS TypeOK RingConsistent EachClientOnce LoadExact OneWorkerPerSlot PoolBounded HandlesOnLiveSlot
PROPERTY ServesClients
