\* Two calls at a time, with a dependency cycle.
SPECIFICATION FairSpec
CONSTANTS
  x = x
  y = y
  z = z
  w = w
  fx = fx
  fx2 = fx2
  fy = fy
  fz = fz
  None = None
  Extensions = {x, y, z}
  Files = {fx, fx2, fy, fz}
  FilesOf <- MCFilesOf
  ReloadFiles <- MCReloadFiles
  DependsOn <- MCCycle
  NeedsSlots <- MCNoSlots
  BadApi = {}
  HostSlots = {}
  OwnSlots <- MCNoSlots
  Provides <- MCNoSlots
  Operations = {"load", "unload", "reload"}
  MaxCalls = 3
  MaxFrames = 12
  MaxConcurrent = 2
INVARIANTS ClaimsExclusive CyclesRefused
PROPERTY CallsReturn
CHECK_DEADLOCK FALSE
