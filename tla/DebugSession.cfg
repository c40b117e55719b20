SPECIFICATION FairSpec
CONSTANTS
  Rules <- MCRules
  NameOf <- MCNameOf
  m_MaxSize = 3
  MaxSteps = 4
INVARIANTS
  Lockstep
  MessageIsWhole
  RightRuleLoaded
  IndexConsistent
PROPERTIES
  NextStepReturns
