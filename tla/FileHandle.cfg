CONSTANTS
  h1 = h1
  h2 = h2
  Handle = {h1, h2}
  Name <- Names
  RootString <- Root
  MaxDepth = 2
  MaxPath = 1
  MaxMade = 3
SPECIFICATION FairSpec
INVARIANT TypeOK
INVARIANT Accounted
PROPERTY DeletesBelow
PROPERTY DeleteIsWhole
PROPERTY DeleteReturns
CHECK_DEADLOCK FALSE
