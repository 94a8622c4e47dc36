\* A play process alone: its track ends while it listens on the native socket.
SPECIFICATION FairSpec
CONSTANTS
  p1 = p1
  p2 = p2
  c1 = c1
  c2 = c2
  None = None
  Procs = {p1}
  ServeProcs = {}
  PlayProcs = {p1}
  FixedTcp = {}
  Clients = {c1}
  Commands = {"query"}
  MayCrash = {}
PROPERTY PlayExits
CHECK_DEADLOCK FALSE
