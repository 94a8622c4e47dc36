---------------------------- MODULE StreamEngine ----------------------------
(***************************************************************************)
(* The playback engine of around-engine (pipeline.rs): one Engine holds a  *)
(* map of streams behind a reader-writer lock.  A stream is prepared (its  *)
(* codec stream and reader are opened and handed to the map), then run by  *)
(* a call of run_stream or run_stream_async, which takes both resources    *)
(* out of the map, decodes block by block, releases them and removes the   *)
(* stream.  Meanwhile any number of IPC handlers pause, resume, seek and   *)
(* stop it through atomics, a seek channel and a cancellation token.       *)
(*                                                                         *)
(* One action is one access to state shared between the decode loops and   *)
(* the handlers.  Two stores are merged only where no other actor can tell *)
(* the difference; the action says so.                                     *)
(***************************************************************************)
EXTENDS Naturals, Sequences

CONSTANTS
  Streams,        \* stream ids, each used by one call of prepare
  Runs,           \* calls of run_stream / run_stream_async
  AsyncRuns,      \* the calls that are run_stream_async (the IPC play path)
  AutoReconnect,  \* EngineConfig.output_auto_reconnect
  SampleRate,     \* frames per second of the source
  TrackFrames,    \* frames the codec can produce
  BlockFrames,    \* frames of one decoded block
  Commands,       \* bound: the commands that clients of this instance use
  SeekTargets,    \* positions (ms) that clients ask for
  MaxSeeks,       \* bound: seeks that clients send to one stream
  NoStream        \* what sid holds before a run names a stream

ASSUME ConstantsAssumption ==
  /\ AsyncRuns \subseteq Runs
  /\ AutoReconnect \in BOOLEAN
  /\ SampleRate \in Nat \ {0}
  /\ TrackFrames \in Nat \ {0}
  /\ BlockFrames \in Nat \ {0}
  /\ SeekTargets \subseteq Nat
  /\ MaxSeeks \in Nat
  /\ Commands \subseteq {"pause", "resume", "stop", "stopAll", "shutdown", "deviceLost"}
  /\ NoStream \notin Streams
  /\ Runs \cap {"none", "opening", "map", "freed"} = {}

VARIABLES
  slot,        \* where a stream is in its life: the engine's map and prepare()
  status,      \* StreamState.status
  active,      \* StreamState.active
  lost,        \* StreamState.device_lost
  frames,      \* total_frames_decoded; position_ms is FramesToMs(frames)
  cancel,      \* the stream's own cancellation token
  codec,       \* who owns the opaque codec stream
  reader,      \* who owns the reader the codec calls back into
  media,       \* the frame the codec will decode next (codec side)
  seeks,       \* the seek channel
  marking,     \* streams whose seek handler has sent but not yet stored Buffering
  shutdown,    \* Engine.shutdown_token is cancelled
  deviceLost,  \* Engine.device_lost
  notifying,   \* notify_device_lost has set the flag but not yet stopped streams
  dropped,     \* the Engine value has been dropped
  pc, sid,     \* where each run is, and the stream it runs
  errs,        \* consecutive_errors of a run
  failed,      \* decode_error.is_some() of a run
  history      \* what clients asked for and heard: no counterpart in the code

streamVars == <<status, active, lost, frames>>
ownerVars  == <<codec, reader>>
engineVars == <<shutdown, deviceLost, notifying, dropped>>
runVars    == <<pc, sid, errs, failed>>
vars == <<slot, streamVars, cancel, ownerVars, media, seeks, marking,
          engineVars, runVars, history>>
-----------------------------------------------------------------------------
Statuses == {"Playing", "Paused", "Stopped", "Buffering", "Error"}
Slots    == {"absent", "opening", "refused", "mapped", "removed"}
Owners   == {"none", "opening", "map", "freed"} \cup Runs

\* Program points of a run: before it owns the stream, the decode loop, the exit.
Setup == {"spec", "take"}
Loop  == {"start", "cancelled", "device", "rebind", "paused", "drain",
          "decode", "relink"}
Exit  == {"final", "inactive", "dropCodec", "dropReader", "remove"}
Points == {"idle", "done"} \cup Setup \cup Loop \cup Exit

\* The conversions between the frame counter and the milliseconds clients see.
FramesToMs(f) == (f * 1000) \div SampleRate
MsToFrames(p) == (p * SampleRate) \div 1000

\* Some(duration_ms) of a track with a known length.
DurationMs == FramesToMs(TrackFrames)

Min2(a, b) == IF a < b THEN a ELSE b

\* Mutant of Cancelled: a token that is not a child of the engine's.
OwnTokenOnly(s) == cancel[s]

\* A child token is cancelled with its parent, the engine's shutdown token.
Cancelled(s) == cancel[s] \/ shutdown

\* The map's lock is held for reading by every seek handler in progress.
WriteLockFree == marking = {}

NoHistory == [seeksSent |-> 0, pausedBlocks |-> 0, lateBlocks |-> 0]

Init ==
  /\ slot = [s \in Streams |-> "absent"]
  /\ status = [s \in Streams |-> "Stopped"]
  /\ active = [s \in Streams |-> FALSE]
  /\ lost = [s \in Streams |-> FALSE]
  /\ frames = [s \in Streams |-> 0]
  /\ cancel = [s \in Streams |-> FALSE]
  /\ codec = [s \in Streams |-> "none"]
  /\ reader = [s \in Streams |-> "none"]
  /\ media = [s \in Streams |-> 0]
  /\ seeks = [s \in Streams |-> <<>>]
  /\ marking = {}
  /\ shutdown = FALSE
  /\ deviceLost = FALSE
  /\ notifying = FALSE
  /\ dropped = FALSE
  /\ pc = [r \in Runs |-> "idle"]
  /\ sid = [r \in Runs |-> NoStream]
  /\ errs = [r \in Runs |-> 0]
  /\ failed = [r \in Runs |-> FALSE]
  /\ history = [s \in Streams |-> NoHistory]
-----------------------------------------------------------------------------
(***************************************************************************)
(* prepare: open the codec, check what it reported, publish the stream.    *)
(***************************************************************************)

\* open_codec succeeds: the call owns the codec stream and the reader.
OpenCodec(s) ==
  /\ ~dropped
  /\ slot[s] = "absent"
  /\ slot' = [slot EXCEPT ![s] = "opening"]
  /\ codec' = [codec EXCEPT ![s] = "opening"]
  /\ reader' = [reader EXCEPT ![s] = "opening"]
  /\ UNCHANGED <<streamVars, cancel, media, seeks, marking, engineVars, runVars, history>>

\* No codec opens the source: the fresh reader is dropped, nothing is published.
OpenCodecFails(s) ==
  /\ ~dropped
  /\ slot[s] = "absent"
  /\ slot' = [slot EXCEPT ![s] = "refused"]
  /\ reader' = [reader EXCEPT ![s] = "freed"]
  /\ UNCHANGED <<streamVars, cancel, codec, media, seeks, marking, engineVars, runVars, history>>

\* Mutant of RefuseStream: the early return forgets both resources.
RefuseStreamLeaks(s) ==
  /\ slot[s] = "opening"
  /\ slot' = [slot EXCEPT ![s] = "refused"]
  /\ UNCHANGED <<streamVars, cancel, ownerVars, media, seeks, marking,
                 engineVars, runVars, history>>

\* sample_rate = 0 or an invalid format: codec stream dropped, then the reader.
RefuseStream(s) ==
  /\ slot[s] = "opening"
  /\ slot' = [slot EXCEPT ![s] = "refused"]
  /\ codec' = [codec EXCEPT ![s] = "freed"]
  /\ reader' = [reader EXCEPT ![s] = "freed"]
  /\ UNCHANGED <<streamVars, cancel, media, seeks, marking, engineVars, runVars, history>>

\* The stream enters the map, Buffering and active, owning its resources.
InsertStream(s) ==
  /\ slot[s] = "opening"
  /\ WriteLockFree
  /\ slot' = [slot EXCEPT ![s] = "mapped"]
  /\ status' = [status EXCEPT ![s] = "Buffering"]
  /\ active' = [active EXCEPT ![s] = TRUE]
  /\ frames' = [frames EXCEPT ![s] = 0]
  /\ codec' = [codec EXCEPT ![s] = "map"]
  /\ reader' = [reader EXCEPT ![s] = "map"]
  /\ UNCHANGED <<lost, cancel, media, seeks, marking, engineVars, runVars, history>>
-----------------------------------------------------------------------------
(***************************************************************************)
(* run_stream / run_stream_async, up to the loop.                          *)
(***************************************************************************)

\* The run returns: its locals are gone.
Return(r) == pc' = [pc EXCEPT ![r] = "done"]

\* open_output_session finds the stream and the session opens.
OpenOutput(r, s) ==
  /\ ~dropped
  /\ pc[r] = "idle"
  /\ slot[s] = "mapped"
  /\ pc' = [pc EXCEPT ![r] = "spec"]
  /\ sid' = [sid EXCEPT ![r] = s]
  /\ UNCHANGED <<slot, streamVars, cancel, ownerVars, media, seeks, marking,
                 engineVars, errs, failed, history>>

\* The stream is gone, or planning or binding an output fails: `?` returns.
OpenOutputFails(r, s) ==
  /\ ~dropped
  /\ pc[r] = "idle"
  /\ slot[s] \in {"mapped", "removed"}
  /\ Return(r)
  /\ sid' = [sid EXCEPT ![r] = s]
  /\ UNCHANGED <<slot, streamVars, cancel, ownerVars, media, seeks, marking,
                 engineVars, errs, failed, history>>

\* set_stream_output_spec: the stream may have been removed since.
SetOutputSpec(r) ==
  /\ pc[r] = "spec"
  /\ WriteLockFree
  /\ IF slot[sid[r]] = "mapped" THEN pc' = [pc EXCEPT ![r] = "take"] ELSE Return(r)
  /\ UNCHANGED <<slot, streamVars, cancel, ownerVars, media, seeks, marking,
                 engineVars, sid, errs, failed, history>>

\* Mutant of Available: the resources are copied out, not taken.
AvailableForever(s) == slot[s] = "mapped"

\* Option::take succeeds once: only while the map still owns the resources.
Available(s) == slot[s] = "mapped" /\ codec[s] = "map"

\* Under the write lock the run takes codec stream, reader and seek receiver.
TakeResources(r) ==
  LET s == sid[r] IN
  /\ pc[r] = "take"
  /\ WriteLockFree
  /\ IF Available(s)
     THEN /\ codec' = [codec EXCEPT ![s] = r]
          /\ reader' = [reader EXCEPT ![s] = r]
          /\ pc' = [pc EXCEPT ![r] = "start"]
     ELSE Return(r) /\ UNCHANGED ownerVars
  /\ UNCHANGED <<slot, streamVars, cancel, media, seeks, marking, engineVars,
                 sid, errs, failed, history>>

\* set_status(Playing), whatever a handler has stored since prepare.
StartPlaying(r) ==
  /\ pc[r] = "start"
  /\ status' = [status EXCEPT ![sid[r]] = "Playing"]
  /\ pc' = [pc EXCEPT ![r] = "cancelled"]
  /\ UNCHANGED <<slot, active, lost, frames, cancel, ownerVars, media, seeks,
                 marking, engineVars, sid, errs, failed, history>>
-----------------------------------------------------------------------------
(***************************************************************************)
(* The decode loop.                                                        *)
(***************************************************************************)

\* Mutant of CheckCancelled: the token is polled only by a paused loop.
CheckCancelledWhenPaused(r) ==
  /\ pc[r] = "cancelled"
  /\ pc' = [pc EXCEPT ![r] = IF Cancelled(sid[r]) /\ status[sid[r]] = "Paused"
                             THEN "final" ELSE "device"]
  /\ UNCHANGED <<slot, streamVars, cancel, ownerVars, media, seeks, marking,
                 engineVars, sid, errs, failed, history>>

CheckCancelled(r) ==
  /\ pc[r] = "cancelled"
  /\ pc' = [pc EXCEPT ![r] = IF Cancelled(sid[r]) THEN "final" ELSE "device"]
  /\ UNCHANGED <<slot, streamVars, cancel, ownerVars, media, seeks, marking,
                 engineVars, sid, errs, failed, history>>

\* device_lost.swap(false): one loop consumes the engine-wide flag.  The store
\* to StreamState.device_lost (read only by status queries) is part of the step.
CheckDeviceLost(r) ==
  LET s == sid[r] IN
  /\ pc[r] = "device"
  /\ deviceLost' = FALSE
  /\ lost' = [lost EXCEPT ![s] = @ \/ deviceLost]
  /\ \/ /\ ~deviceLost
        /\ pc' = [pc EXCEPT ![r] = "paused"]
        /\ UNCHANGED status
     \/ /\ deviceLost /\ AutoReconnect
        /\ pc' = [pc EXCEPT ![r] = "rebind"]
        /\ UNCHANGED status
     \/ /\ deviceLost /\ ~AutoReconnect
        /\ status' = [status EXCEPT ![s] = "Error"]
        /\ pc' = [pc EXCEPT ![r] = "final"]
  /\ UNCHANGED <<slot, active, frames, cancel, ownerVars, media, seeks, marking,
                 shutdown, notifying, dropped, sid, errs, failed, history>>

\* The error exits of the loop: Error is stored and decode_error recorded.
FailRun(r) ==
  /\ status' = [status EXCEPT ![sid[r]] = "Error"]
  /\ failed' = [failed EXCEPT ![r] = TRUE]
  /\ pc' = [pc EXCEPT ![r] = "final"]

\* output_session.rebind() after a device-lost notice.
RebindAfterNotice(r) ==
  /\ pc[r] = "rebind"
  /\ \/ /\ lost' = [lost EXCEPT ![sid[r]] = FALSE]
        /\ pc' = [pc EXCEPT ![r] = "paused"]
        /\ UNCHANGED <<status, failed>>
     \/ FailRun(r) /\ UNCHANGED lost
  /\ UNCHANGED <<slot, active, frames, cancel, ownerVars, media, seeks, marking,
                 engineVars, sid, errs, history>>

\* Mutants of AfterPauseCheck: pause is ignored, the wait does not poll the
\* token, and Buffering waits like Paused.
PauseIgnored(st) == "drain"
PauseSpins(st) == IF st = "Paused" THEN "paused" ELSE "drain"
BufferingWaits(st) == IF st \in {"Paused", "Buffering"} THEN "cancelled" ELSE "drain"

\* A paused loop sleeps 20 ms and starts over: it still polls cancel and device.
AfterPauseCheck(st) == IF st = "Paused" THEN "cancelled" ELSE "drain"

CheckPaused(r) ==
  /\ pc[r] = "paused"
  /\ pc' = [pc EXCEPT ![r] = AfterPauseCheck(status[sid[r]])]
  /\ UNCHANGED <<slot, streamVars, cancel, ownerVars, media, seeks, marking,
                 engineVars, sid, errs, failed, history>>

\* Where a codec lands when asked for frame f: there, or clamped into the track.
SeekLandings(f) == {f, Min2(f, TrackFrames - 1)}

\* Mutant of SeekedFrames: a synchronous run records the request too.
SeekedFramesRequested(r, f, g) == f

\* The position a run records for a seek that asked for f and landed on g: the
\* synchronous loop believes the codec, the asynchronous one its own request.
SeekedFrames(r, f, g) == IF r \in AsyncRuns THEN f ELSE g

\* try_recv yields a request and codec.seek succeeds: Playing, even if a pause
\* came in between (as it would if it came just before this step).
ApplySeek(r) ==
  LET s == sid[r]
      f == MsToFrames(Head(seeks[s]))
  IN
  /\ pc[r] = "drain"
  /\ seeks[s] # <<>>
  /\ seeks' = [seeks EXCEPT ![s] = Tail(@)]
  /\ \E g \in SeekLandings(f) :
       /\ media' = [media EXCEPT ![s] = g]
       /\ frames' = [frames EXCEPT ![s] = SeekedFrames(r, f, g)]
  /\ status' = [status EXCEPT ![s] = "Playing"]
  /\ UNCHANGED <<slot, active, lost, cancel, ownerVars, marking, engineVars,
                 runVars, history>>

\* codec.seek returns a negative value: a warning, and nothing else changes.
SeekFails(r) ==
  LET s == sid[r] IN
  /\ pc[r] = "drain"
  /\ seeks[s] # <<>>
  /\ seeks' = [seeks EXCEPT ![s] = Tail(@)]
  /\ UNCHANGED <<slot, streamVars, cancel, ownerVars, media, marking,
                 engineVars, runVars, history>>

SeeksDrained(r) ==
  /\ pc[r] = "drain"
  /\ seeks[sid[r]] = <<>>
  /\ pc' = [pc EXCEPT ![r] = "decode"]
  /\ UNCHANGED <<slot, streamVars, cancel, ownerVars, media, seeks, marking,
                 engineVars, sid, errs, failed, history>>

\* The codec decodes a block: its position moves.
ReadBlock(s) ==
  /\ media[s] < TrackFrames
  /\ media' = [media EXCEPT ![s] = Min2(@ + BlockFrames, TrackFrames)]

\* History: a block reached the output although the client had paused / stopped.
Heard(s) ==
  history' = [history EXCEPT
    ![s].pausedBlocks = IF status[s] = "Paused" THEN Min2(@ + 1, 2) ELSE @,
    ![s].lateBlocks = IF Cancelled(s) THEN Min2(@ + 1, 2) ELSE @]

\* n > 0 and the output session accepts the block.
DecodeBlock(r) ==
  LET s == sid[r] IN
  /\ pc[r] = "decode"
  /\ ReadBlock(s)
  /\ frames' = [frames EXCEPT ![s] = @ + (media'[s] - media[s])]
  /\ errs' = [errs EXCEPT ![r] = 0]
  /\ pc' = [pc EXCEPT ![r] = "cancelled"]
  /\ Heard(s)
  /\ UNCHANGED <<slot, status, active, lost, cancel, ownerVars, seeks, marking,
                 engineVars, sid, failed>>

\* n > 0 and submit reports OutputError::Lost under auto-reconnect: the block is
\* not submitted again, Buffering is stored and the session is bound anew.
OutputLost(r) ==
  /\ pc[r] = "decode"
  /\ AutoReconnect
  /\ ReadBlock(sid[r])
  /\ status' = [status EXCEPT ![sid[r]] = "Buffering"]
  /\ pc' = [pc EXCEPT ![r] = "relink"]
  /\ UNCHANGED <<slot, active, lost, frames, cancel, ownerVars, seeks, marking,
                 engineVars, sid, errs, failed, history>>

RebindAfterLost(r) ==
  /\ pc[r] = "relink"
  /\ \/ /\ status' = [status EXCEPT ![sid[r]] = "Playing"]
        /\ pc' = [pc EXCEPT ![r] = "cancelled"]
        /\ UNCHANGED failed
     \/ FailRun(r)
  /\ UNCHANGED <<slot, active, lost, frames, cancel, ownerVars, media, seeks,
                 marking, engineVars, sid, errs, history>>

\* n > 0 and submit fails in any other way (or is Lost without auto-reconnect).
OutputFails(r) ==
  /\ pc[r] = "decode"
  /\ ReadBlock(sid[r])
  /\ FailRun(r)
  /\ UNCHANGED <<slot, active, lost, frames, cancel, ownerVars, seeks, marking,
                 engineVars, sid, errs, history>>

\* n = 0: end of the track, or of what the codec can read of it.
DecodeEof(r) ==
  /\ pc[r] = "decode"
  /\ pc' = [pc EXCEPT ![r] = "final"]
  /\ UNCHANGED <<slot, streamVars, cancel, ownerVars, media, seeks, marking,
                 engineVars, sid, errs, failed, history>>

MaxConsecutiveErrors == 3

\* Mutant of TooManyErrors: the limit is passed before it is noticed.
TooManyErrorsLate(n) == n > MaxConsecutiveErrors

TooManyErrors(n) == n >= MaxConsecutiveErrors

\* n < 0: the damaged block is skipped, the third in a row ends the run.
DecodeError(r) ==
  /\ pc[r] = "decode"
  /\ errs' = [errs EXCEPT ![r] = @ + 1]
  /\ IF TooManyErrors(errs[r] + 1)
     THEN FailRun(r)
     ELSE pc' = [pc EXCEPT ![r] = "cancelled"] /\ UNCHANGED <<status, failed>>
  /\ UNCHANGED <<slot, active, lost, frames, cancel, ownerVars, media, seeks,
                 marking, engineVars, sid, history>>

\* run_stream_async only: the blocking decode task panicked.
DecodePanics(r) ==
  /\ pc[r] = "decode"
  /\ r \in AsyncRuns
  /\ FailRun(r)
  /\ UNCHANGED <<slot, active, lost, frames, cancel, ownerVars, media, seeks,
                 marking, engineVars, sid, errs, history>>
-----------------------------------------------------------------------------
(***************************************************************************)
(* Leaving the loop.                                                       *)
(***************************************************************************)

\* Stopped, unless a decode error was recorded.
SetFinalStatus(r) ==
  /\ pc[r] = "final"
  /\ status' = [status EXCEPT ![sid[r]] = IF failed[r] THEN @ ELSE "Stopped"]
  /\ pc' = [pc EXCEPT ![r] = "inactive"]
  /\ UNCHANGED <<slot, active, lost, frames, cancel, ownerVars, media, seeks,
                 marking, engineVars, sid, errs, failed, history>>

ClearActive(r) ==
  /\ pc[r] = "inactive"
  /\ active' = [active EXCEPT ![sid[r]] = FALSE]
  /\ pc' = [pc EXCEPT ![r] = "dropCodec"]
  /\ UNCHANGED <<slot, status, lost, frames, cancel, ownerVars, media, seeks,
                 marking, engineVars, sid, errs, failed, history>>

\* Mutant of DropCodec: the reader goes first.
DropReaderFirst(r) ==
  /\ pc[r] = "dropCodec"
  /\ reader' = [reader EXCEPT ![sid[r]] = "freed"]
  /\ pc' = [pc EXCEPT ![r] = "dropReader"]
  /\ UNCHANGED <<slot, streamVars, cancel, codec, media, seeks, marking,
                 engineVars, sid, errs, failed, history>>

\* codec_ref.drop(stream_ptr): the codec may still call its reader.
DropCodec(r) ==
  /\ pc[r] = "dropCodec"
  /\ codec' = [codec EXCEPT ![sid[r]] = "freed"]
  /\ pc' = [pc EXCEPT ![r] = "dropReader"]
  /\ UNCHANGED <<slot, streamVars, cancel, reader, media, seeks, marking,
                 engineVars, sid, errs, failed, history>>

DropReader(r) ==
  /\ pc[r] = "dropReader"
  /\ reader' = [reader EXCEPT ![sid[r]] = "freed"]
  /\ pc' = [pc EXCEPT ![r] = "remove"]
  /\ UNCHANGED <<slot, streamVars, cancel, codec, media, seeks, marking,
                 engineVars, sid, errs, failed, history>>

\* The removed ActiveStream finds nothing left to drop.
RemoveStream(r) ==
  /\ pc[r] = "remove"
  /\ WriteLockFree
  /\ slot' = [slot EXCEPT ![sid[r]] = "removed"]
  /\ Return(r)
  /\ UNCHANGED <<streamVars, cancel, ownerVars, media, seeks, marking,
                 engineVars, sid, errs, failed, history>>
-----------------------------------------------------------------------------
(***************************************************************************)
(* What clients and the platform do.                                       *)
(***************************************************************************)

PauseStream(s) ==
  /\ "pause" \in Commands
  /\ slot[s] = "mapped"
  /\ status' = [status EXCEPT ![s] = "Paused"]
  /\ history' = [history EXCEPT
       ![s].pausedBlocks = IF status[s] = "Paused" THEN @ ELSE 0]
  /\ UNCHANGED <<slot, active, lost, frames, cancel, ownerVars, media, seeks,
                 marking, engineVars, runVars>>

ResumeStream(s) ==
  /\ "resume" \in Commands
  /\ slot[s] = "mapped"
  /\ status' = [status EXCEPT ![s] = "Playing"]
  /\ UNCHANGED <<slot, active, lost, frames, cancel, ownerVars, media, seeks,
                 marking, engineVars, runVars, history>>

\* seek_stream, first half: the checks and the send.  The read lock stays held.
SendSeek(s, p) ==
  /\ slot[s] = "mapped"
  /\ s \notin marking
  /\ p <= DurationMs
  /\ status[s] \notin {"Stopped", "Error"}
  /\ history[s].seeksSent < MaxSeeks
  /\ seeks' = [seeks EXCEPT ![s] = Append(@, p)]
  /\ marking' = marking \cup {s}
  /\ history' = [history EXCEPT ![s].seeksSent = @ + 1]
  /\ UNCHANGED <<slot, streamVars, cancel, ownerVars, media, engineVars, runVars>>

\* seek_stream, second half: the loop may have served the request by now.
MarkBuffering(s) ==
  /\ s \in marking
  /\ status' = [status EXCEPT ![s] = "Buffering"]
  /\ marking' = marking \ {s}
  /\ UNCHANGED <<slot, active, lost, frames, cancel, ownerVars, media, seeks,
                 engineVars, runVars, history>>

\* stop_stream's effect on a set of streams: token, then Stopped.  A loop that
\* sees the token between the two stores ends by storing Stopped itself.
StopSet(S) ==
  /\ cancel' = [s \in Streams |-> cancel[s] \/ s \in S]
  /\ status' = [s \in Streams |-> IF s \in S THEN "Stopped" ELSE status[s]]

\* The streams a loop over Engine.streams visits.
Mapped == {s \in Streams : slot[s] = "mapped"}

StopStream(s) ==
  /\ "stop" \in Commands
  /\ slot[s] = "mapped"
  /\ StopSet({s})
  /\ UNCHANGED <<slot, active, lost, frames, ownerVars, media, seeks, marking,
                 engineVars, runVars, history>>

\* Mutant of StopAll: stopping also takes the streams out of the map.
StopAllRemoves ==
  /\ "stopAll" \in Commands
  /\ ~dropped
  /\ Mapped # {}
  /\ StopSet(Mapped)
  /\ slot' = [s \in Streams |-> IF s \in Mapped THEN "removed" ELSE slot[s]]
  /\ UNCHANGED <<active, lost, frames, ownerVars, media, seeks, marking,
                 engineVars, runVars, history>>

StopAll ==
  /\ "stopAll" \in Commands
  /\ ~dropped
  /\ Mapped # {}
  /\ StopSet(Mapped)
  /\ UNCHANGED <<slot, active, lost, frames, ownerVars, media, seeks, marking,
                 engineVars, runVars, history>>

\* Engine::shutdown cancels the root token, and with it every child; it returns
\* at once.
Shutdown ==
  /\ "shutdown" \in Commands
  /\ ~dropped
  /\ shutdown' = TRUE
  /\ UNCHANGED <<slot, streamVars, cancel, ownerVars, media, seeks, marking,
                 deviceLost, notifying, dropped, runVars, history>>

\* notify_device_lost, first half.
NotifyDeviceLost ==
  /\ "deviceLost" \in Commands
  /\ ~dropped /\ ~notifying
  /\ deviceLost' = TRUE
  /\ notifying' = ~AutoReconnect
  /\ UNCHANGED <<slot, streamVars, cancel, ownerVars, media, seeks, marking,
                 shutdown, dropped, runVars, history>>

\* notify_device_lost, second half: without auto-reconnect every stream stops.
NotifyStops ==
  /\ notifying
  /\ StopSet(Mapped)
  /\ notifying' = FALSE
  /\ UNCHANGED <<slot, active, lost, frames, ownerVars, media, seeks, marking,
                 shutdown, deviceLost, dropped, runVars, history>>

\* The last reference to the Engine goes away: no call is in progress.  Drop
\* shuts down, and each ActiveStream left in the map drops what it still owns.
DropEngine ==
  /\ ~dropped /\ ~notifying
  /\ marking = {}
  /\ \A r \in Runs : pc[r] \in {"idle", "done"}
  /\ \A s \in Streams : slot[s] # "opening"
  /\ dropped' = TRUE
  /\ shutdown' = TRUE
  /\ codec' = [s \in Streams |-> IF codec[s] = "map" THEN "freed" ELSE codec[s]]
  /\ reader' = [s \in Streams |-> IF reader[s] = "map" THEN "freed" ELSE reader[s]]
  /\ slot' = [s \in Streams |-> IF slot[s] = "mapped" THEN "removed" ELSE slot[s]]
  /\ UNCHANGED <<streamVars, cancel, media, seeks, marking, deviceLost,
                 notifying, runVars, history>>
-----------------------------------------------------------------------------
Prepare(s) == OpenCodec(s) \/ OpenCodecFails(s) \/ RefuseStream(s) \/ InsertStream(s)

Call(r) == \E s \in Streams : OpenOutput(r, s) \/ OpenOutputFails(r, s)

\* The steps of a run that take the map's lock for writing.
LockStep(r) == SetOutputSpec(r) \/ TakeResources(r) \/ RemoveStream(r)

LoopStep(r) ==
  \/ StartPlaying(r) \/ CheckCancelled(r) \/ CheckDeviceLost(r)
  \/ RebindAfterNotice(r) \/ CheckPaused(r)
  \/ ApplySeek(r) \/ SeekFails(r) \/ SeeksDrained(r)
  \/ DecodeBlock(r) \/ OutputLost(r) \/ RebindAfterLost(r) \/ OutputFails(r)
  \/ DecodeEof(r) \/ DecodeError(r) \/ DecodePanics(r)

ExitStep(r) == SetFinalStatus(r) \/ ClearActive(r) \/ DropCodec(r) \/ DropReader(r)

Command(s) ==
  \/ PauseStream(s) \/ ResumeStream(s) \/ StopStream(s) \/ MarkBuffering(s)
  \/ \E p \in SeekTargets : SendSeek(s, p)

Next ==
  \/ \E s \in Streams : Prepare(s) \/ Command(s)
  \/ \E r \in Runs : Call(r) \/ LockStep(r) \/ LoopStep(r) \/ ExitStep(r)
  \/ StopAll \/ Shutdown \/ NotifyDeviceLost \/ NotifyStops \/ DropEngine

Spec == Init /\ [][Next]_vars

\* A run's thread or task is scheduled, its output session returns from every
\* write and bind, and handlers finish.  The map's lock hands over to a waiting
\* writer, so a write-locking step that is enabled again and again happens.
Fairness ==
  /\ \A r \in Runs : WF_vars(LoopStep(r)) /\ WF_vars(ExitStep(r)) /\ SF_vars(LockStep(r))
  /\ \A s \in Streams : WF_vars(MarkBuffering(s))
  /\ WF_vars(NotifyStops)

FairSpec == Spec /\ Fairness
=============================================================================
