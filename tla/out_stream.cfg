SPECIFICATION FairSpec
CONSTANTS
  period_size = 2
  period_count = 2
  MaxWrite = 6
  MaxFrames = 7
  Failures = {"open", "write"}
INVARIANTS
  TypeOK
  StandbyPositionExact
  NoLostWakeup
PROPERTIES
  PositionNeverBack
  OutCallsReturn
