SPECIFICATION FairSpec
CONSTANTS
  Functors = {f1, f2, f3}
  Threads = {t1, t2}
  LoopThread = loop
  Channels = {io}
  Wakeup = wakeup
  PipeCapacity = 5
INVARIANTS TypeOK NoLostWakeup WakeupReadNeverBlocks
PROPERTIES QueuedFunctorRuns QuitStopsLoop ImplementsFunctorQueue
