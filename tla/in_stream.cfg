SPECIFICATION FairSpec
CONSTANTS
  rate = 2
  US = 3
  MinOversleep = 1
  period_size = 2
  period_count = 2
  MaxRead = 3
  MaxFrames = 4
  MaxPosition = 4
  Failures = {"open", "read", "alloc"}
INVARIANTS
  TypeOK
  AssertAvailable
  NoLostWakeup
PROPERTIES
  PositionNeverBack
  ReadDecisionsHold
  InCallsReturn
