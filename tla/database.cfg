\* A seed that may be started again after a crash, and an operator who runs
\* single modules beside it; or analysts who decide on a run's findings.
SPECIFICATION DatabaseSpec
CONSTANTS
  Files <- MCFiles
  Doc <- MCDoc
  Key <- MCKey
  Dates = {1, 2, 3}
  NoFile = NoFile
  Seeder = seeder
  Operator = operator
  Processes <- MCProcesses
  Items <- MCItems
  Jobs <- MCJobs
  Pack = pack
  MaxStarts <- MCMaxStarts
  MaxCrashes = 1
  MaxFindings = 2
  MaxDecisions = 2
  MaxFailures = 1
INVARIANTS DecisionsAreTrue EndedPageIsWhole ReportIsTrue HandoverIsExact SeedIsComplete
PROPERTIES RebuildIsExact
CHECK_DEADLOCK FALSE
