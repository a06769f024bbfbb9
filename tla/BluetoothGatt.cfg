CONSTANTS
  MaxServices = 2
  MaxAttrs = 2
  MaxReqs = 2
  GattValues = {1, 2}
  FirstValue = 1
  Peers = {p1, p2}
  Uuids = {u1, hr}
  HeartRate = hr
  MaxClients = 2
  MaxSignals = 2
  MaxAgentReqs = 2
  MaxSppCalls = 2
SPECIFICATION MCSpec
CHECK_DEADLOCK FALSE
INVARIANTS
  
  AgentSound

  
