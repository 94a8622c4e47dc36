\* Two loads at a time: a library is opened and initialised once.
SPECIFICATION Spec
CONSTANTS
  x = x
  y = y
  z = z
  w = w
  fx = fx
  fx2 = fx2
  fy = fy
  fz = fz
  None = None
  Extensions = {x, y, z, w}
  Files = {fx, fx2, fy, fz}
  FilesOf <- MCFilesOf
  ReloadFiles <- MCReloadFiles
  DependsOn <- MCDependsOn
  NeedsSlots <- MCNeedsSlots
  BadApi = {fz}
  HostSlots = {"Codec"}
  OwnSlots <- MCOwnSlots
  Provides <- MCProvides
  Operations = {"load"}
  MaxCalls = 2
  MaxFrames = 4
  MaxConcurrent = 2
INVARIANT LoadsOnce
CHECK_DEADLOCK FALSE
