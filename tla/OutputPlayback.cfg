CONSTANTS
  u1 = u1
  u2 = u2
  i8 = i8
  u8 = u8
  f32 = f32
  Units <- MCUnits
  Name <- MCName
  Formats <- MCFormats
  Width <- MCWidth
  Configs <- MCConfigs
  AutoReconnect = TRUE
  Total = 4
  MaxBlock = 2
  RingFrames = 2
  MaxPull = 2
  MaxChanges = 2
  MaxNotices = 1

SPECIFICATION FairSpec
CHECK_DEADLOCK FALSE

INVARIANTS
  NoBlockRefused
  FramesStayWhole
  NoGapWhileBound

PROPERTIES
  NothingReplayed
  BoundFormatIsOffered
  RunEnds
