CONSTANTS
  NoAddr = NoAddr
  Addrs = {a1}
  Kinds <- AllKinds
  Fails = {}
  UseTls = TRUE
  CallbackOps <- Modest
  Reconnects = FALSE
  MaxConn = 2
  LwAddrs = {n1}
  MaxLwTimers = 3
  MaxLwPosts = 1
  MaxLwObjects = 2
  TyAddrs = {"n1", "n2"}
  MaxTyEvents = 1
  MaxTyStarts = 2
SPECIFICATION MCSpec
CHECK_DEADLOCK FALSE
INVARIANTS
  
  Lwm2mSound
  TinyLwm2mSound
PROPERTIES
  ClientsServe
