\* Every text of four characters and every quote of three that it holds up to
\* white space.
SPECIFICATION Spec
CONSTANTS
  MaxChars = 1
  MaxLines = 1
  MaxSource = 4
  MaxQuote = 3
  MaxWords = 1
  MaxJudged = 1
  Lengths = {2}
  MaxParas = 1
  MaxRows = 1
  MaxQuoted = 2
  MinSentence = 2
  Target = 10
  Overlap = 3
  Threshold = 15
  CallCap = 3
  TokenCap = 5
INVARIANTS OffsetsPointAtTheQuote
