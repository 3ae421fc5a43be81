\* Three launches of one circular and pack with two dates, one crash and one
\* database failure anywhere, under fairness. The system stops when all are served.
SPECIFICATION FairSpec
CONSTANTS
  Requests = {q1, q2, q3}
  Pairs = {p1}
  Dates = {d1, d2}
  NoOne = NoOne
  MaxRestarts = 1
  MaxFaults = 1
INVARIANTS OneActiveRun RowsAgree ActiveRunIsOwned
PROPERTIES TerminalIsFinal LifecycleSpec AcceptedRunEnds RequestAnswered
CHECK_DEADLOCK FALSE
