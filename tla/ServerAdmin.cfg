SPECIFICATION Spec
CONSTANTS
  MaxQueue = 2
  Sockets = {c1, c2}
  NoSocket = NoSocket
  NoWThreads = 2
  Commands = {"change"}
SYMMETRY ClientSymmetry
INVARIANTS
  OldRequestsDrained
PROPERTY
  ImplementsAdminGate
