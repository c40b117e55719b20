SPECIFICATION FairSpec
CONSTANTS
  Threads = {t1, t2, t3}
  m_DBAgtCnt = 2
  MaxRounds = 2
  Rules = {1}
INVARIANTS
  AgentsPrivate
  RoundMissesNone
PROPERTIES
  LockIsReturned
