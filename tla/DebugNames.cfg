SPECIFICATION Spec
CONSTANTS
  Rules <- MCRules
  NameOf <- MCNameOf
  m_MaxSize = 3
  MaxSteps = 4
INVARIANTS
  NamesAreUnique
