\* Two obligations of up to two clauses, one re-judgement each, five calls of one or two tokens: both
\* limits can be reached by either worker, and a call can be in flight when they
\* are. Fairness of the clock and the event loop, and none of the threads. The
\* graph stops when its outcome is stored and its threads have ended.
SPECIFICATION FairSpec
CONSTANTS
  Obligations = {o1, o2}
  Memo = Memo
  MaxClauses = 2
  MaxRetries = 1
  MaxCalls = 5
  MaxTokens = 5
  CallTokens = {1, 2}
INVARIANTS LimitsHold OutcomeIsTrue FindingsAreHonest
PROPERTIES FindingsSettled RunIsStored
CHECK_DEADLOCK FALSE
