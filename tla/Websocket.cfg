CONSTANTS
  w1 = w1
  w2 = w2
  NULL = NULL
  Addrs <- TwoAddrs
  MaxOpen = 2
  MaxMsg = 2
  SecHandles = {1, 2, 3}
  AppHandles = {3}
  VerHandles = {1, 2}
  Signatures <- MCSignatures
  Chunks = {1, 2}
  MaxChunks = 2
  Threads = {"t1", "t2"}
  MaxCalls = 2
  Streams = {1}
  Uris <- MCUris
  MaxSent = 2
  MaxHeld = 1
  Devices = {1}
  MaxMessages = 2
  MaxHttpHeld = 1
SPECIFICATION MCSpec
CHECK_DEADLOCK FALSE
INVARIANTS
  
  
  CloudSound
PROPERTIES
  WebServes
