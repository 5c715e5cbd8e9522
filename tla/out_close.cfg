SPECIFICATION FairSpec
CONSTANTS
  period_size = 2
  period_count = 2
  MaxWrite = 3
  MaxFrames = 3
  Failures = {}
PROPERTIES
  CloseOutputReturns
