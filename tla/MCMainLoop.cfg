CONSTANTS
  Ids = {s1, s2}
  Outputs = {1, 100}
  Device = 0
  VIGOR_DEVICES_COUNT = 2
  FLOOD_PORT = 100
  PktSetStates = {1, 2}
  MaxBatch = 3
SPECIFICATION MainSpec
INVARIANTS EachPacketOnce RegisteredSentAsDecided HandlersMatchRegistration OnlyCommittedSetsRegistered SingleSetsRolledBack MbufsReleasedOnce LeavesInOrder
