SPECIFICATION Spec
CONSTANTS
  s1 = s1
  s2 = s2
  f1 = f1
  f2 = f2
  f3 = f3
  NoFile = NoFile
  Warmup = Warmup
  Files <- MCFiles
  Doc <- MCDoc
  Key <- MCKey
  Dates <- MCDates
  Chunks <- MCChunks
  CircularOf <- MCCircularOf
  Searches <- MCSearches
  Asks <- MCAsks
  Edges <- MCEdges
  Stored <- MCStored
  RetrieveTopN = 2
  RerankTopK = 2
  RrfK = 60
  Threshold = 2
  MaxChanges = 1
INVARIANTS AnswersAreSound BannerIsTrue ModelsAreSafe
