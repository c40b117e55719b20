SPECIFICATION FairQueueSpec
CONSTANTS
  MaxQueue = 4
  Sockets = {s1, s2, s3, s4, s5}
  NoSocket = NoSocket
INVARIANTS
  QueueTypeOK
  CountIsExact
  ScanTerminates
PROPERTIES
  WaitersAdvance
  ImplementsWaitRoom
  EveryWaiterServed
