SPECIFICATION Spec
CONSTANTS
  s1 = s1
  s2 = s2
  a1 = a1
  a2 = a2
  Servers = {s1, s2}
  Addresses = {a1, a2}
  Broadcast = Broadcast
  None = None
  Grants <- MCOneGrant
  kInitialTimeout = 1
  kMaxTimeout = 4
  kTimeoutSpan = 1
  TicksPerSecond = 1
  UintMod = 64
  XidMod = 3
  MaxNet = 2
  SendCap = 4
  MaxRestarts = 1
  CanNak = FALSE
  CanFail = FALSE
  NoGateway = FALSE
SYMMETRY Symmetry
INVARIANTS
  LeaseMatchesRequest
