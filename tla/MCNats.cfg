CONSTANTS
  NoKey = NoKey
  KHash <- MCHash
  Packets <- MCPackets
  Rss <- MCRss
  Fib <- MCFib
  NumCores = 2
  MAX_NUM_SESSIONS = 2
  MAX_NUM_USERS = 4
  EXTERNAL_ADDR = 20
  NUM_EXTERNAL_ADDRS = 1
  EXTERNAL_PORT_LOW = 3
  EXTERNAL_PORT_HIGH = 4
  EI_NAT_SECOND = 0
  LAN_DEVICE = 0
  WAN_DEVICE = 1
  MaxTime = 1
  MaxLag = 0
  MaxRetrying = 1
SPECIFICATION Spec
CHECK_DEADLOCK FALSE
INVARIANTS NatTableSound UserListsSound MostRecentFirst TranslatedBySession
