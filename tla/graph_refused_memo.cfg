SPECIFICATION Spec
CONSTANTS
  Obligations = {o1}
  Memo = Memo
  MaxClauses = 1
  MaxRetries = 1
  MaxCalls = 4
  MaxTokens = 9
  CallTokens = {1}
INVARIANT MissingMemoIsExplained
CHECK_DEADLOCK FALSE
