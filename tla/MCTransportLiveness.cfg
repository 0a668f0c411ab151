SPECIFICATION FairSpec
CONSTANTS
  MaxQueue = 1
  MaxSaves = 1
CHECK_DEADLOCK FALSE
PROPERTIES
  TransportSettles
