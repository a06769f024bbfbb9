CONSTANTS
  NoAddr = NoAddr
  Addrs = {a1}
  Kinds <- ConnectionKinds
  Fails = {}
  UseTls = FALSE
  CallbackOps <- AsInTests
  Reconnects = FALSE
  MaxConn = 1
  LwAddrs = {n1}
  MaxLwTimers = 0
  MaxLwPosts = 0
  MaxLwObjects = 0
  TyAddrs = {"n1"}
  MaxTyEvents = 0
  MaxTyStarts = 0
SPECIFICATION MCSpec
CHECK_DEADLOCK FALSE
INVARIANT DestroyInCallback
