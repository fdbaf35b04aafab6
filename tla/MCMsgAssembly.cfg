SPECIFICATION Spec
CONSTANTS
  s1 = s1
  s2 = s2
  Stations = {s1, s2}
  Freqs <- MCFreqs
  MsgTolerance = 5
  RelayTolerance = 10
  MsgTimeout = 2
  RelayTimeout = 3
  MaxFrames = 3
  MaxSends = 2
  MaxLost = 2
INVARIANTS TypeOK RightSender OnceOnly
PROPERTIES WholeIsHandedOver
