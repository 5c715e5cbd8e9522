SPECIFICATION FairSpec
CONSTANTS
  s1 = s1
  s2 = s2
  a1 = a1
  a2 = a2
  Servers = {s1}
  Addresses = {a1}
  Broadcast = Broadcast
  None = None
  Grants <- MCLongGrant
  kInitialTimeout = 1
  kMaxTimeout = 4
  kTimeoutSpan = 1
  TicksPerSecond = 1
  UintMod = 64
  XidMod = 2
  MaxNet = 2
  SendCap = 4
  MaxRestarts = 0
  CanNak = FALSE
  CanFail = TRUE
  NoGateway = FALSE
PROPERTIES
  RenewingEnds
