SPECIFICATION FairSpec
CONSTANTS
    t1 = t1
    t2 = t2
    loop = loop
    http = http
    NULL = NULL
    Threads <- MCThreads
    Modules <- MCModules
    Resident <- MCResident
    Failures <- NoMemory
    LockReady = TRUE
    MaxNodes = 3
INVARIANTS
  ManagerSafe
PROPERTIES
  MutexIsReleased
  RegistrySpec
