CONSTANTS
  m1 = m1
  m2 = m2
  m3 = m3
  NoKey = NoKey
  Macs = {m1, m2, m3}
  KHash <- MacHash
  Devices = {0, 1}
  Frames <- MCFrames
  FLOOD_PORT = 100
  Drop = 101
  NumCores = 2
  Size = 2
  validity_duration = 2
  REFRESH_INTERVAL = 1
  INT64_MAX = 100
  MaxTime = 4
  MaxLag = 1
SPECIFICATION BridgeSpec
INVARIANT BridgeTableSound
PROPERTIES PassRemovesOverdue QuietStationsForgotten 
