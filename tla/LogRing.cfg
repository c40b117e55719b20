SPECIFICATION FairSpec
CONSTANTS
  m_qSize = 3
  MaxMessages = 4
INVARIANTS
  FileIsFaithful
  FlushedAtExit
PROPERTIES
  EveryMessageWritten
