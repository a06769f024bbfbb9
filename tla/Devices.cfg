CONSTANTS
  MaxFds = 2
  MaxRefs = 2
  MaxWatches = 2
  Pins = {p1}
  NoPin = NoPin
  Ports = {s1}
  NoPort = NoPort
  MaxChunks = 1
  PwmPins = {1, 65537}
  PwmValues = {0, 1, 2}
  Buses = {1}
  Addresses = {a1, a2}
  AdcPins = {0}
  BusFds = 10
  MaxSounds = 3
  SensorChannels = {1}
  MaxHeld = 2
  MaxObjects = 2
  MaxMisused = 1
SPECIFICATION MCSpec
CHECK_DEADLOCK FALSE
INVARIANTS
  
  MediaSound
  SensorSound
  
PROPERTIES
  DevicesServe
