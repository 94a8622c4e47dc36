\* One call at a time: loads, unloads and two-phase reloads in any order.
SPECIFICATION Spec
CONSTANTS
  x = x
  y = y
  z = z
  w = w
  fx = fx
  fx2 = fx2
  fy = fy
  fz = fz
  None = None
  Extensions = {x, y, z, w}
  Files = {fx, fx2, fy, fz}
  FilesOf <- MCFilesOf
  ReloadFiles <- MCReloadFiles
  DependsOn <- MCDependsOn
  NeedsSlots <- MCNeedsSlots
  BadApi = {fz}
  HostSlots = {"Codec"}
  OwnSlots <- MCOwnSlots
  Provides <- MCProvides
  Operations = {"scan", "load", "unload", "reload"}
  MaxCalls = 4
  MaxFrames = 8
  MaxConcurrent = 1
INVARIANTS NoDanglingEntries RegistersLive NothingLeft
PROPERTY ImplementsRegistry
CHECK_DEADLOCK FALSE
