SPECIFICATION Spec
CONSTANTS
  Rules = {1, 2, 3}
  Arguments <- MCArguments
  NameParts = {3}
  Columns = {1, 3}
  NoData = {1}
  MaxCalls = 4
INVARIANTS
  AnswersMatch
  RunsOnce
CHECK_DEADLOCK FALSE
