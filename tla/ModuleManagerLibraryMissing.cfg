SPECIFICATION Spec
CONSTANTS
    t1 = t1
    t2 = t2
    loop = loop
    http = http
    NULL = NULL
    Threads <- MCThreads
    Modules <- MCModules
    Resident <- MCResident
    Failures <- LibraryMissing
    LockReady = TRUE
    MaxNodes = 2
CHECK_DEADLOCK FALSE
INVARIANTS
    NeverFaults
