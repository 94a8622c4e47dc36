\* Both programs, two streams, a client and a sender of datagrams.
SPECIFICATION FairSpec
CONSTANTS
  c1 = c1
  c2 = c2
  u1 = u1
  None = None
  MaxStreams = 2
  MaxSends = 3
  Clients = {c1}
  Peers = {u1}
  Programs = {"serve", "play"}
INVARIANTS StatusMissesNothing
PROPERTIES CommandsAnswered StopsAreCarriedOut
CHECK_DEADLOCK FALSE
