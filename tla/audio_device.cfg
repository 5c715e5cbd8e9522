SPECIFICATION Spec
SYMMETRY MCSymmetry
CONSTRAINT MCApart
CONSTANTS
  Openers = {o1, o2}
  Devs = {d1, d2}
  Blocks = {b1, b2}
  None = None
  Addresses = {a1, a2}
  ToneAddresses = {t1, t2, t3}
  Tones = 2
  MaxTone = 3
  Gains = {0, 1}
  Zones = {0, 1}
  MaxPatches = 2
  RequestedRates <- MCRates
INVARIANTS
  TypeOK
  HandlesLive
  
  TonesDistinct
  HfpAgrees
  RefinedIsAccepted
PROPERTIES
  PatchHandlesGrow
