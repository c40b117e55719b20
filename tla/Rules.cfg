SPECIFICATION MCSpec
CONSTANTS
  STR_VALUE_SIZE = 4
  RuleResults <- MCResults
  Items <- MCItems
  Today <- MCToday
  BYTE = 8
  MaxItems = 4
  MaxOcc = 3
  OBJ_MAX_LENGTH = 78
  PgmNodes <- MCPgmNodes
  GivenRules <- MCGivenRules
INVARIANTS
  ExpressionIsTree
  FlowIsProgram
  TableAnswers
  FunctionsAgree
  ReplyIsRows
PROPERTIES
  SortIsStable
  AggregateAnswers
CHECK_DEADLOCK FALSE
