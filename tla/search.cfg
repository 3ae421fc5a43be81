\* Three requests over two questions, a cache of one entry, a failure and two
\* ticks of the clock around a TTL of two. All requests end.
SPECIFICATION FairSpec
CONSTANTS
  Requests = {r1, r2, r3}
  Queries = {x}
  Filters = {f1, f2}
  NoTask = NoTask
  TTL = 2
  MaxEntries = 1
  MaxTime = 2
  MaxFailures = 1
INVARIANTS OneAtATime AnswersTheQuestion FailsOnlyByItself
PROPERTIES WaitEnds
CHECK_DEADLOCK FALSE
