SPECIFICATION FairSpec
CONSTANTS
  BufCap = 8
  BlockFrames = 4
  Files <- AllFiles
  Snapshots <- MCSnapshots
  Preferences <- MCPreferences
  MaxSeeks = 1
  MaxRebinds = 1
  MayFail = TRUE
INVARIANTS
  CodecInStep
  ReadsToTheEnd
  SplitIndependent
  WorkspaceSuffices
  NoNeedlessConversion
  EncodingFaithful
PROPERTIES
  StreamEnds
CHECK_DEADLOCK FALSE
