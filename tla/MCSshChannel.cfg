SPECIFICATION FairSpec
CHECK_DEADLOCK FALSE
CONSTANTS
  LocalMax = 4
  RemoteMax = 2
  MaxWrite = 3
  MaxPending = 2
INVARIANTS
  TypeOK
PROPERTIES
  ChannelIsSound
  ChannelMovesOn
