\* A daemon and a play process, started in any order, and one caller.
SPECIFICATION FairSpec
CONSTANTS
  p1 = p1
  p2 = p2
  c1 = c1
  c2 = c2
  None = None
  Procs = {p1, p2}
  ServeProcs = {p1}
  PlayProcs = {p1, p2}
  FixedTcp = {p2}
  Clients = {c1}
  Commands = {"shutdown"}
  MayCrash = {p1}
INVARIANTS SoleInstance ExecutedOnce
PROPERTIES RefusedOnlyByLive CallsEnd ShutdownExits
CHECK_DEADLOCK FALSE
