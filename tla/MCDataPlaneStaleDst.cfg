CONSTANTS
  Ids = {s1, s2}
  Outputs = {out}
  Device = Device
  PktSetStates = {1, 2}
  MaxBatch = 2
SPECIFICATION Spec
INVARIANT SentAsDecided
