CONSTANTS
  sv1 = sv1
  sv2 = sv2
  Servers <- TwoServers
  OfferedIp <- TwoOffers
  ForeignIp = 9
  NoServer = none
  Discovers = 2
  Retries = 2
  MaxInbox = 2
  MaxRequests = 2
  HandleVars = {v1, v2}
  MaxStarts = 2
  MaxTimers = 3
  LeaseIps = {1}
  MaxWatchers = 3
  MaxLinks = 3
  NoStatus = null
SPECIFICATION MCSpec
CHECK_DEADLOCK FALSE
INVARIANTS
  DhcpcSound
  DhcpClientSound
  OnlineSound
PROPERTIES
  NetworkSettles
