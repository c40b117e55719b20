SPECIFICATION Spec
CONSTANTS
  MaxQueue = 2
  Sockets = {c1, c2, c3}
  NoSocket = NoSocket
  NoWThreads = 2
  Commands = {"terminate"}
SYMMETRY ClientSymmetry
INVARIANTS
  SlotOwnership
  StreamsPrivate
