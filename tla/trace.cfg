\* Two concurrent nodes, two breaks of the connection or timeouts, one crash, under
\* fairness. The trace stops when the run is over and the page has been told.
SPECIFICATION FairSpec
CONSTANTS
  Nodes = {n1, n2}
  MaxDrops = 2
  MaxCrashes = 1
INVARIANTS DoneIsFinal TraceIsSound
PROPERTIES StepsNeverGoBack PageConverges
CHECK_DEADLOCK FALSE
