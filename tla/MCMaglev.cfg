CONSTANTS
  b1 = b1
  b2 = b2
  b3 = b3
  b4 = b4
  vip = vip
  NoKey = NoKey
  Backends = {b1, b2, b3, b4}
  KHash <- BackendHash
  LanDevices = {1}
  Flows <- MCFlows
  DstOf <- MCDstOf
  Fib <- MCFib
  PktHash <- MCPktHash
  NoDevice = 100
  NumCores = 1
  Size = 3
  backend_capacity = 3
  cht_height = 3
  validity_duration = 0
  INT64_MAX = 100
  MaxTime = 1
  MaxLag = 0
SPECIFICATION MaglevSpec
INVARIANT BackendTableSound
PROPERTIES FlowAffinity PoolServesAll MinimalDisruption
