\* A seed that is started again after a crash, and nobody else.
SPECIFICATION Spec
CONSTANTS
  Files <- MCFiles
  Doc <- MCDoc
  Key <- MCKey
  Dates = {1, 2, 3}
  NoFile = NoFile
  Seeder = seeder
  Operator = operator
  Processes <- MCProcesses
  Items <- MCItems
  Jobs <- MCJobs
  Pack = pack
  MaxStarts <- MCSeedsOnly
  MaxCrashes = 1
INVARIANTS ReseedIsSafe
CHECK_DEADLOCK FALSE
