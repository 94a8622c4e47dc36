SPECIFICATION Spec
CONSTANTS
  BufCap = 8
  BlockFrames = 4
  Files <- Aligned
  Snapshots <- MCSnapshots
  Preferences <- MCPreferences
  MaxSeeks = 0
  MaxRebinds = 0
  MayFail = FALSE
INVARIANT DeliversTheData
CHECK_DEADLOCK FALSE
