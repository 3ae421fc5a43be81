\* Every input up to these sizes. A target of ten tokens and an overlap of three
\* stand for 400 and 60; the lengths fall on both sides of each.
SPECIFICATION Spec
CONSTANTS
  MaxChars = 5
  MaxLines = 3
  MaxSource = 4
  MaxQuote = 3
  MaxWords = 5
  MaxJudged = 3
  Lengths = {2, 6, 10, 24, 38, 44}
  MaxParas = 5
  MaxRows = 3
  MaxQuoted = 2
  MinSentence = 2
  Target = 10
  Overlap = 3
  Threshold = 15
  CallCap = 3
  TokenCap = 5
INVARIANTS SpansRoundTrip ChunksCover QuotesAreLocated TextIsStable MetricsAreHonest
