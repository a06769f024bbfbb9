CONSTANTS
  Addrs = {d1, d2}
  NoAddr = NoAddr
  MaxCalls = 2
  MaxTransfers = 2
  MaxFtpCalls = 2
  MaxSessions = 1
  MediaDevs = {d1, d2}
  NoDev = NoDev
  MaxLists = 2
  MaxTransports = 2
  MaxAdverts = 2
SPECIFICATION MCSpec
CHECK_DEADLOCK FALSE
INVARIANTS
  DevicesSound
  TransfersSound
  
PROPERTIES
  CallsEnd
