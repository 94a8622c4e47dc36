\* A play process that runs a second stream for a client.
SPECIFICATION FairSpec
CONSTANTS
  c1 = c1
  c2 = c2
  u1 = u1
  None = None
  MaxStreams = 2
  MaxSends = 3
  Clients = {c1}
  Peers = {}
  Programs = {"play"}
INVARIANTS PausedIsResumable
CHECK_DEADLOCK FALSE
