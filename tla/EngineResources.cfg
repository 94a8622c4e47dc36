\* Two streams, two run calls that may both name either stream.
SPECIFICATION Spec
CONSTANTS
  s1 = s1
  s2 = s2
  r1 = r1
  r2 = r2
  none = none
  Streams = {s1, s2}
  Runs = {r1, r2}
  AsyncRuns = {r1, r2}
  NoStream = none
  AutoReconnect = FALSE
  SampleRate = 2000
  TrackFrames = 1
  BlockFrames = 1
  Commands = {"stopAll", "deviceLost"}
  SeekTargets = {}
  MaxSeeks = 0
SYMMETRY MCSymmetry
INVARIANTS TypeOK LoopOwnsResources ReaderOutlivesCodec NothingLeaks RunningIsReachable
PROPERTY ImplementsLifecycle
CHECK_DEADLOCK FALSE
