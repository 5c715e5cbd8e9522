SPECIFICATION FairSpec
CONSTANTS
  frame_count = 3
  Frames = {f1, f2}
  MaxRequest = 5
INVARIANTS
  TypeOK
  RingConsistent
PROPERTIES
  ImplementsFifo
  CallsReturn
