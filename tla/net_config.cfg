SPECIFICATION Spec
CONSTANTS
  None = None
  Replies <- MCReplies
  OfferedAddresses <- MCOffered
  ServerAddress <- MCServer
  numDns = 2
  NoGateway = FALSE
INVARIANTS
  SentMessagesArrive
  ParsedAsSent
  ConfiguredAsLeased
  BroadcastOfSubnet
