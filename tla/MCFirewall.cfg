CONSTANTS
  LAN_DEVICE = 0
  WAN_DEVICE = 1
  Devices = {0, 1}
  RootBits = 1
  PlyBits = 2
  IP4_PLY_POOL_CAPACITY = 8
  Prefixes <- MCPrefixes
  MaxRoutes = 4
  Endpoints = {0, 5}
  Flags = {"SYN", "FIN"}
  Tcp <- MCTcp
SPECIFICATION Spec
INVARIANTS FibIsLongestPrefix PliesHangOnce OnlyRepliesEnter FlagsTracked
