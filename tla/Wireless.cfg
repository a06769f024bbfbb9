CONSTANTS
  Handles = {1, 2}
  ClientOf <- MCClientOf
  ServerOf <- MCServerOf
  ReportTypes = {"occupancy_sensing", "other"}
  Ssids = {"a", "ab"}
  NameContains <- MCNameContains
  MaxNets = 2
  MaxEvents = 1
SPECIFICATION MCSpec
CHECK_DEADLOCK FALSE
INVARIANTS
  ZigbeeSound
  

  
