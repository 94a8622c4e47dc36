\* One stream played synchronously, with pauses, seeks, device loss and stop.
SPECIFICATION FairSpec
CONSTANTS
  s1 = s1
  r1 = r1
  none = none
  Streams = {s1}
  Runs = {r1}
  AsyncRuns = {}
  NoStream = none
  AutoReconnect = TRUE
  SampleRate = 2000
  TrackFrames = 2
  BlockFrames = 1
  Commands = {"pause", "resume", "stop", "shutdown", "deviceLost"}
  SeekTargets = {0, 1}
  MaxSeeks = 1
INVARIANTS PauseTakesHold StopTakesHold PositionNotAhead
PROPERTIES StopEventuallyRemoves SeekIsServed ShutdownQuiesces
CHECK_DEADLOCK FALSE
