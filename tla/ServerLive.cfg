SPECIFICATION FairSpec
CONSTANTS
  MaxQueue = 2
  Sockets = {c1, c2}
  NoSocket = NoSocket
  NoWThreads = 1
  Commands = {"terminate", "change"}
PROPERTIES
  ShutdownCompletes
  AdminSectionEnds
  WaitersServed
