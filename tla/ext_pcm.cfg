SPECIFICATION FairSpec
CONSTANTS
  Streams = {s1, s2, s3}
  Instances = {i1, i2}
  NULL = NULL
  MIXER_BUFFER_SIZE = 1
  MaxWrite = 2
  OpenFails = TRUE
INVARIANTS
  TypeOK
  RefCountExact
  NoUseAfterFree
  WriterHasMixer
PROPERTIES
  PcmCallsReturn
