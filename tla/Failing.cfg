CONSTANTS
  t1 = t1
  loop = loop
  http = http
  a1 = a1
  a2 = a2
  NULL = NULL
  Threads <- MCThreads
  Modules <- MCModules
  Resident <- MCResident
  Failures <- MCFailures
  LockReady = FALSE
  MaxNodes = 4
  NoAddr = NoAddr
  Addrs <- MCAddrs
  Kinds <- MCKinds
  Fails <- MCFails
  UseTls = TRUE
  CallbackOps <- Anything
  Reconnects = TRUE
  MaxConn = 2
  m1 = m1
  m2 = m2
  Macs <- MCMacs
  NoMac = nomac
  AskedTime <- MCAsked
  NumLeases = 2
  Reserved = {1}
  OfferTime = 1
  DeclineTime = 1
  LeaseTime = 1
  MinLease = 1
  MaxLease = 2
SPECIFICATION MCSpec
CHECK_DEADLOCK FALSE
INVARIANTS
  HeldIsOpen
  LoopBalanced
  LeasesAgree
PROPERTIES
  TableSteps
