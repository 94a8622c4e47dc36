# Verification of `around`

`around` is an audio playback engine in Rust: one process-wide engine that plays
any number of streams, an extension framework that loads codecs and filters
from shared libraries, an output layer over CPAL, and an IPC server with which
clients control playback. This directory holds TLA+ models of the engine, the
output, the way of the samples, the extension framework and the IPC service, the
TLC runs that check them and TLAPS proofs about them. Paths below are
relative to `src/`.

Run a model with `tlc -config EnginePlayback.cfg MCStreamEngine`, check proofs
with `tlapm StreamEngine_proofs.tla`. `PROJECT.json` lists every run, the code
lines each definition stands for, the mutants that show each property can fail,
the hazards and the findings.

## 1. The system

| Component | State | Operations | Interacts with |
|---|---|---|---|
| Engine, `around-engine/src/pipeline.rs` | map of streams behind a RwLock; per stream: atomics (status, active, position, device_lost), cancellation token, seek channel, owned codec stream and reader; engine-wide device_lost flag and shutdown token | `prepare`, `run_stream`, `run_stream_async`, `pause/resume/seek/stop_stream`, `shutdown`, `notify_device_lost`, queries | codec vtables, output session, IPC handlers |
| Output session, `output_session.rs` | plan, filter chain, binding | `open`, `submit`, `rebind`, `drop` | planner, adapter; called by the decode loop |
| CPAL adapter and ring, `cpal_adapter.rs`, `output.rs` | byte ring, `lost` flag, snapshot revision | `snapshot`, `bind`, `write`, `close`; device callback, error callback | audio driver threads |
| Output planner, `output_plan.rs` | none | `validate`, `plan_output`, `compare_plan` | device snapshots, preferences |
| Filter chain, `filter_chain.rs`, `pcm_buffer.rs` | resampler phase and carried frame; workspace | `build`, `reconfigure_output`, `process_to_output` | output session |
| WAV codec, `around-codec-wav` | per stream: frame position, announced frames; the reader behind its callbacks | `probe`, `open`, `read`, `seek`, `drop` | engine (reader callbacks) |
| IPC handlers, `ipc/handlers.rs` | none; codec files in the temporary directory | one per command | engine operations; share a thread with decode tasks |
| IPC connections and wire, `ipc/connection.rs`, `codec*.rs`, `transport_udp.rs` | per connection: the codec chosen | `serve`, `handle_connection`, `serve_udp`, `read_command` | handlers |
| IPC transports, `ipc/transport_manager.rs`, `transport_unix.rs` | socket file, port file, accept tasks | `check_running_instance`, `start`, `join` | file system, other instances, shutdown token |
| Command line, `around-cli/src/main.rs` | the threads of a process | `cmd_serve`, `cmd_play`, `send_ipc_command` | transports, engine |
| Extension framework, `around-extensions/src/lib.rs` | maps loading, index, loaded, loaded_meta, slot_map, each with its own lock | `scan`, `attach_register`, `load`, `unload`, `prepare_reload`, `commit_reload`, `reload` | dlopen, around_init/around_deinit, registers |
| Registers, `around-extensions-macros` | entries (vtable, data, metadata) | `push`, `remove_by_meta`, `probe` | framework, engine |
| Trust counters and hooks, `trust.rs`, `lifecycle.rs` | counters, hook lists | `record_*`, `broadcast` | framework |
| Sources, core types, configuration | values | | engine |

What is hard in this code, and where (the full list is `hazards` in
`PROJECT.json`):

- The decode loop and the handlers share a stream through independent atomics.
  Pause, resume, seek, stop and device loss may arrive between any two steps of
  the loop, which stores Playing and Buffering itself.
- A codec stream holds a raw pointer into its reader. Both are handed from
  `prepare` to the map to one of several run calls, and must be freed once, in
  order, on every path.
- The framework never holds a lock across a call. Load, unload and reload touch
  four maps one after the other, with error returns between. A reload installs a file
  with dependencies and slots of its own.
- A connection's format is guessed from whatever its first read returns.
- Shutdown is cooperative: it cancels tokens, and loops and accept loops look.
- Instances find each other by files that any of them may remove, and a process
  may be killed between any two file-system calls.
- Listeners, handlers and decode tasks of a process share one thread, which a write
  to a full ring blocks.
- A stream's samples pass through four counters (reader, codec, loop, resampler) that
  short reads, seeks, lost devices and rebinds move separately.

Correctness, per component: *engine*: single ownership and ordered release of
resources; pause and stop take hold within a block; position not ahead of the
codec; stop, seek and shutdown eventually take effect. *Framework*: exclusive
claims; cycles refused; no entry, register or library outlives what it points
to; extensions loaded after their dependencies, and these not taken away; calls return. *Output*: a
block always fits the binding and is heard once, in whole frames and without gaps;
a write ends when the driver goes on or reports an error. *Samples*: codec, reader
and counters stay in step; the resampler's output does not depend on where blocks
are cut; no conversion without need; every stream ends. *IPC*: one instance serves
and is found; a command is executed once and answered; a stop is carried out; a
process that is told to end does.

## 2. Modules

### StreamEngine (and StreamLifecycle, StreamProperties)

`StreamEngine` models `pipeline.rs`. A step is one access to state that decode
loops and handlers share. Where two stores are merged, no other actor can tell:
each such action says why.

| Model | Code |
|---|---|
| `slot` | the key's presence in `Engine.streams`, and how far `prepare` is |
| `status`, `active`, `lost`, `frames` | `StreamState` (position_ms is `FramesToMs(frames)`) |
| `cancel`, `shutdown` | the stream's child token, the engine's token |
| `codec`, `reader` | who owns the opaque codec stream and the `ReaderBridge` |
| `seeks`, `marking` | the seek channel; handlers between `send` and `set_status(Buffering)` |
| `pc`, `sid`, `errs`, `failed` | locals of a run; `consecutive_errors`, `decode_error` |
| `history` | what clients asked for and heard; no counterpart, never read by an action's guard except as the bound on seeks |

`run_stream` and `run_stream_async` share the actions; they differ where the code
does (`SeekedFrames`: which position a seek records; `DecodePanics`). Codec, reader and
output are environments: every call may succeed or fail in each way the code
distinguishes. Streams here are seekable and have a known length: for others
`seek_stream` refuses or skips the duration check. A refused prepare and the drop
of the engine free codec stream and reader in one step (the code frees the codec
first); the end of a run frees them in two.

`StreamLifecycle` is the abstract promise: a stream is opened, published at most
once, played by at most one run, and over only when both resources have been given
back, codec first. `ImplementsLifecycle` is the refinement, with phase and held
resources read off the map and the owners.

### ExtensionFramework (and ExtensionRegistry, FrameworkProperties)

A call is a frame; `load` pushes a frame for each dependency. A step is one critical
section of the code. A frame's number also names the library handle and the
metadata box the call creates. `dlopen` returns the image that is already mapped
when the file is open, and the last handle to close unmaps the image with its
statics and registers (`DropLibraries`, `MappedBy`: external).

What an extension depends on, the slots it requires and defines, its `api_version` and
the slots it has entries for belong to its file (`DependsOn`, `NeedsSlots`, `OwnSlots`,
`BadApi`, `Provides`), as `AROUND_META` and `AROUND_SLOTS` do. `load` looks at them;
`prepare_reload` and `commit_reload` only read them (lib.rs:1198, 445), so that a reload
may install a version whose dependencies are not loaded, and the model does.

Abstractions: a file holds one extension and reloads only that one (its name is
compiled into it, `FrameworkAssumption`); freed metadata
addresses are not reused; callers drop the library that `load` returns at once;
every slot has one provider. `push_raw` is `extern "C"`: on the pinned toolchain a
panic in it aborts the process, so `push_result` is never an error and the
`pending` list stays empty; neither is modelled. Entries created by
`prepare_reload` and never pushed are plain pointers that nothing frees; the
model has no allocation for them. Lifecycle hooks and trust counters
change nothing that is modelled.

`ExtensionRegistry` is the abstract promise for serialised calls: an extension is loaded
after what its file depends on, and none is unloaded or taken out for a new version
while the version in use of another depends on it. The new version of a reload takes its
place whether or not what it depends on is there; that is less than the comment at
lib.rs:80 says ("must be loaded first"), and all that the code does.

### OutputSession (and OutputProperties)

One stream's output: the session, the CPAL adapter with its ring, and the decode loop
as their only caller. The ring is a sequence of bytes, each known by its place in the
track; formats are opaque, each with its width in bytes per frame.

| Model | Code |
|---|---|
| `hw` | what `output_devices()` reports; `DeviceId` is the fingerprint (name and widths), so formats of one width share an id |
| `draft` | the `OutputPlan` between `plan_output` and `bind`, two separate looks at `hw` |
| `spec`, `binding`, `workspace` | the chain's and the plan's target format, the binding with `lost` and `closed`, the `PcmBuffer` |
| `ring`, `rest` | the `HeapRb<u8>`, and what `write` has still to push |
| `block`, `next` | the block being submitted, the codec's position |
| `heard` | the last byte the driver took; no counterpart |

`plan_output` may choose any mode of any device: the properties hold for whatever the
ranking prefers. Steps of the loop that touch only its own fields are merged: the
close of the old binding and the installation of the new one are one step, since the
new ring is empty and a callback on the old one only takes from a queue that is
about to go. The binding's check of the revision number is left out, each session
has an adapter and a revision of its own. Source and device have one rate here; the
resampler is in `MediaPath`, pauses and seeks are left out, and so is the memory adapter (tests,
null driver).

### WavCodec, OutputPlanner, FilterChain, MediaPath (and MediaProperties)

The way of one stream's samples from the file to the output. The first three modules
are operators, one per function of the code; `MediaPath` composes them into the
decode loop.

| Model | Code |
|---|---|
| `file` | size, chunks, format fields as they stand in the header; field widths are kept (`Byte`: a channel count of 258 is 2) |
| `reader` | the `BufReader` behind the codec's callbacks: what it holds and where it is, so that a read at the end of the buffer is short |
| `wav`, `block`, `decoded` | `WavStream`, the decoded frames by their byte offsets, `total_frames_decoded` |
| `plan`, `chain`, `work` | `OutputPlan`, `FilterChain`, `PcmBuffer` |
| `snapshot`, `sent`, `dropped`, `failed` | history: what was planned from, what the last block became, what was lost |

A frame is known by its place; an output frame is a base frame, the one after it and
a phase. The resampler's position is an exact fraction here and an f64 in the code;
how far the two drift apart over a long track is not modelled. `PlanOutput` is the
minimum under `compare_plan`'s whole key. Preference lists, snapshots and files are
constants. Samples at the borders of a depth are encoded with the integer arithmetic
that `write_sample` does in floating point; depths over 16 are outside TLC's integers.
A codec other than WAV only wins the probe.

### IpcService (and IpcProperties)

Processes (`around serve`, `around play`), the socket file and the port file by which
they find each other, and the command line calls that connect.

| Model | Code |
|---|---|
| `main`, `stage`, `task` | the main thread; `run_ipc_server` up to `join`, one file-system or socket call a step; the accept loop of each transport |
| `queue`, `cur` | connections the kernel holds for a listener; the one being served |
| `sock`, `port` | whose listener the file leads to |
| `call`, `ran` | `send_ipc_command` with its fallback; how often the command was executed |
| `raced` | history: starts or exits overlapped (`Disturbed`) |

A killed process leaves its files. The tasks of a process share a thread that is only
given up at an await, so listeners serve once the start-up has reached `join`. A
delegating `around play` is a caller. Not in this module: what commands do, datagrams,
the Windows pipe.

### IpcCommands (and IpcCommandProperties)

One process from the inside: connections, datagrams, the wire formats and every
command, with the decode tasks that share the runtime's thread and, in `around play`,
the main thread's own stream.

| Model | Code |
|---|---|
| `thread` | the task that holds the runtime's only thread; a handler has no await, a decode task one per turn |
| `stream`, `nextId` | the engine's map, each with status, token and loop |
| `conn`, `listen` | a peer's connection or datagram; each listener, which serves one peer at a time |
| `wire` | the message a peer has sent: its format, and the bytes its listener gets to see first |
| `cmd` | a command that takes several looks at the map (status, seek) |
| `Sniff`, `Reads` | the format guessed from those bytes, and whether its reader gets a command |
| `temp` | `around_codec_*` files, of this process and of others |

A message is a command in JSON, one in Protobuf, or neither of the two, which stands for
unknown commands, damaged frames and lines and messages over the limits (64 KiB, 16 blank
lines, 64 MiB). Its first bytes are white space, a brace or others, and may break off
after the white space, as the segments of a connection do: `handle_connection` calls
`fill_buf` once, and what it then holds decides. `CommandsAnswered` is stated for the
commands whose sender may expect an answer (`Expectable`, which says so without `Sniff`):
JSON with its brace among the first bytes, Protobuf that does not open with a brace, a
datagram in Protobuf, and later commands in the format of the first.

Positions, devices and rebinds are left to `StreamEngine` and `MediaPath`. A runtime
without a timer panics in `sleep` (`Panic`).

## 3. Runs

| Run | Instance | Shows |
|---|---|---|
| `engine_resources` | 2 streams, 2 asynchronous runs that may name either, stop-all, device loss without auto-reconnect; symmetric | types, single ownership and ordered release, refinement of `StreamLifecycle` |
| `engine_playback` | 1 stream, 1 synchronous run, 2 blocks, 1 seek to either of 2 targets, all commands, auto-reconnect | pause and stop take hold, position not ahead, and, with fairness, stop removes, seeks are served, shutdown quiesces |
| `framework_concurrent` | 3 extensions with a cycle between two, 3 calls, 2 at a time | claims exclusive and given back, no member of a cycle initialised, every call returns |
| `framework_sequential` | 4 extensions (one with a dependency, one for another API version, one missing), a version of one of them to reload to, which depends on the missing one and defines another slot, a host slot, 4 calls one at a time with reloads left prepared | no dangling entry, no register without its library, error returns leak nothing, refinement of `ExtensionRegistry`: load brings dependencies first, nothing in use loses one to an unload or reload |
| `output_playback` | 2 devices of one name, 3 formats of which 2 share a width, a track of 4 frames, blocks and ring of 2, 2 plug events, 1 notice | blocks are never refused, frames stay whole, no gap while bound, nothing replayed, only formats on offer are bound, the run ends |
| `media_path` | 10 files (4 depths, wrong and missing lengths, refused ones), 6 snapshots, 2 preference lists, buffer of 8 bytes, blocks of 4 frames, 1 seek, 1 lost device, 1 failing read | codec, reader and counter in step, no early end, output independent of block cuts, workspace always sufficient, no needless conversion, encoding faithful, every stream ends |
| `ipc_service` | a daemon that may be killed at any step, a play process with a TCP port of its own, 1 caller | one instance serves and is found, no start refused by what a killed one left, commands executed once, calls end, shutdown ends processes |
| `ipc_commands` | both programs, 2 streams, 3 requests, a connection and a datagram sender, both formats and neither, first bytes with and without white space and cut short | commands that may expect an answer get it, stops carried out whatever follows, status leaves out no stream |

Runs that are expected to fail, each against a sentence of the repository:

| Run | The repository says | The code |
|---|---|---|
| `load_twice` | the claim prevents TOCTOU races (`around-extensions/src/lib.rs:775`) | the loaded map is not looked at again after the claim |
| `wav_header_decoded` | seek to data_start (`around-codec-wav/src/lib.rs:277`) | data_start is 0 for every file, so the header is decoded as samples |
| `paused_task_dies` | resuming from the same position is possible (`specs/001-core-playback-engine/spec.md:87-88`) | the wait of a paused loop panics on the runtime of `around play` |
| `play_never_exits` | signal the server, then unblock accept() (`around-cli/src/main.rs:350`) | connects to a TCP port that only a port file names; with the native socket there is none |

Other disagreements the models show and no run states (they are in `hazards`, with
the sentences they contradict): a pause is overwritten by Playing at start, after a
seek and after a rebind; Buffering stays after a refused seek or one that was served
before the handler stored it; `shutdown` returns before the loops have ended; a failed
output open leaves its stream mapped; the ring is dropped with decoded frames in it; a
reload calls init before deinit; a reload installs a version whose dependencies are not
loaded; a JSON command whose blank line arrives on its own is taken for Protobuf.

Bounds, and why they are enough. Two runs on two streams is the smallest
instance where two calls compete for one stream while another stream is live.
Playback needs two blocks, so that a block can slip through and another must not.
`MaxSeeks = 1` is enough for a seek that races the handler's second store; it
also excludes a client that sends seeks for ever, which can keep a loop in
`while try_recv` and away from its cancel check. Overlapping framework calls
need two at a time and a third to meet what the first two left behind; `MaxFrames`
is larger than any chain of nested loads those calls can make. The output
run needs a ring smaller than the track and formats of different width, so that pushes
stop halfway and a rebind changes the workspace. The media run needs a buffer that
ends inside a block and frames that do not divide it, rates above and below the
source's, and a preference list whose first entries match nothing. Two processes and
a caller show every pairing of probe, bind, removal and connect; a third process adds
only further starts, which `raced` excludes when they overlap. Three requests are a
play, a pause or stop and one that races it. Deadlock is not
checked: when the bounded calls have been made, the system may rest.

Fairness. A run's thread or task is scheduled, and its output session returns
from each call (weak fairness of loop and exit steps). The write lock is handed to
a waiting writer (parking_lot does not starve writers; strong fairness of the
steps that take it). Handlers that hold the read lock finish. Threads inside a
framework call are scheduled. In `IpcService` every process, thread and task that can
go on does (weak fairness); nobody is obliged to start, signal or kill a process. In
`IpcCommands` tasks compete for one thread: tokio polls ready tasks in turn, so one
that is ready again and again is run (strong fairness), and a client closes its
connection in the end. Otherwise nothing is assumed of clients. That writes return
is an assumption in `StreamEngine`; `OutputSession` reduces it (`RunEnds`) to one about
the driver: one that has not reported an error keeps calling back. The CPAL write
loop looks only at its `lost` flag, so a driver that does neither holds the stream.

## 4. Proofs

Every safety property of the passing runs, both refinements included, is proved for
every value of the constants: 30 of the 40 properties. The ten others are about
liveness. Each theorem is named in `PROJECT.json` with the property it states.

| Module | Proves | For any |
|---|---|---|
| `StreamEngine_proofs` | `TypeOK`, `LoopOwnsResources`, `ReaderOutlivesCodec`, `NothingLeaks`, `RunningIsReachable`, `ImplementsLifecycle`; beyond the runs the inductive `OwnershipInvariant` and `RemovedIsFinal` | streams, runs, seek targets, track and block length, commands |
| `StreamPlayback_proofs` | `PauseTakesHold`, `StopTakesHold`, `PositionNotAhead` | the same |
| `OutputSession_proofs` | `NoBlockRefused`, `BoundFormatIsOffered`, `FramesStayWhole`, `NoGapWhileBound`, `NothingReplayed` | devices, formats, widths, track, block, ring and read sizes |
| `ExtensionFramework_proofs` | `ClaimsExclusive`, `CyclesRefused`; with calls one at a time `NothingLeft`, `RegistersLive`, `ImplementsRegistry`, and beyond the runs `LoadedSupplied` | extensions, files, dependency graphs, slots, number of calls |
| `FrameworkEntries_proofs` | with calls one at a time and conditions on reloads `NoDanglingEntries`; beyond the runs `EntriesAtRest` and `ImagesInitialised`; without reload the first and the last with no such condition | the same |
| `IpcService_proofs` | `SoleInstance`, `RefusedOnlyByLive`, `ExecutedOnce` | processes of each kind, callers, which may be killed |
| `IpcCommands_proofs` | `StatusMissesNothing` | streams, peers, requests |
| `MediaPath_proofs` | `CodecInStep`, `ReadsToTheEnd`, `SplitIndependent`, `WorkspaceSuffices`, `NoNeedlessConversion`, `EncodingFaithful` | files, snapshots, preferences, buffer and block sizes |

### From which assumptions

The named assumptions on the constants, which TLC evaluates on the instances. Most
give the constants their types. Those that say more, and why the code
justifies them:

- `FrameworkAssumption`: no file holds two extensions; the name is part of the
  metadata a library exports (`AROUND_META`).
- `ServiceAssumption`: a process with a fixed TCP port is an `around play`, and
  processes, callers and the marks for none are told apart.
- `MediaAssumption`: the reader's buffer holds more than a frame, and a whole number
  of frames or fewer bytes than a block (8192 bytes, at most 32 bytes a frame, 4096
  frames a block); `prepare` refuses a rate of 0.
- `InputAssumption`: what is read has the types of the source's structs, and modes
  of one device have different ids (discovery numbers them).
- `NoneIsNoRegister`: the mark for a free slot is no register.
- `NothingIsLeft`, `RegistersAreLive`, `RefinesRegistry` and what
  `FrameworkEntries_proofs` shows have `MaxConcurrent = 1` as a hypothesis: the framework
  does not promise these for calls that overlap (the run `load_twice` shows why).
- `EntriesAreLive` and `EntriesAreOfTheLoaded` have two more. `OneOwner`: the host and
  the extensions, each in all its versions, define slots of different names, as all of
  the repository do. Else an
  extension that takes over a slot takes the entries in the first one's register out of
  the unload's sight. `[]ImagesClose`: while a file is closed the client has no other
  reload of it prepared. Else that one keeps the image with its register mapped, and the
  unload of an extension that had filled it does not look there. TLC finds a dangling
  entry in both cases, on instances with two reloads of one file and with shared slots.
- `ImagesAreInitialised` has `[]ImagesApart`: no file is torn down that the version which
  takes its place, or another prepared reload, was opened from. The code initialises the
  new version first (lib.rs:1177), so that a reload from the loaded file ends with the
  extension torn down; TLC finds that too. Both conditions are about the client's reloads
  only, and the corollaries `...WithoutReload` have neither.
- `SamplesAreEncodedFaithfully` has `PowersArePositive` as a hypothesis, that 2^n is a
  positive number for every natural n. It is true, but takes an induction that no
  installed prover can do (see below), and constants like 2^63 are beyond their
  arithmetic and TLC's.

### Along which argument

*Engine.* None of the ownership properties is inductive: that a loop owns its
codec stream depends on no second run having taken it, which depends on `take`
succeeding only while the map owns it, which depends on where every stream and
run is. `OwnershipInvariant` says, point by point, what each run in progress holds
(`RunsHold`), that two runs in progress have different streams (`OneRunPerStream`),
and who owns the resources at each stage of a stream (`SlotsHold`); with `TypeOK`
and the bound on errors (`ErrorsEndRuns`) it is inductive. The proof has one lemma
per group of actions; most steps move neither owners nor slots, and one lemma
(`IdleOwnership`, `MoveOwnership`) covers them. The refinement follows step by
step: each step moves at most one stream (`OnlyOneMoves`) or none.

`PauseTakesHold` needs `PauseInv`: once a block has slipped past a pause, the loop
is before its check again. `StopTakesHold` needs `StopInv`: after one late block the
loop is at its check again and no other run can take the stream, since its
resources are not in the map. `PositionNotAhead` needs that a run's stream, once
named, does not change.

*Output.* `NoBlockRefused` follows from `AgreementInv`: while the session is in use,
chain and binding have one format and the workspace was sized for it, also when a
rebind fails between its steps. `RingInv` describes queue and rest byte by byte
(`NoGapInv`): they carry on from the last byte heard, up to the last decoded frame, or
up to the block in hand while it is being submitted; and heard, queue and rest are
multiples of the frame's width (`WholeInv`), which needs that the ring's capacity is
one. `NothingReplayed` needs `BehindDecoder`: also after blocks were given up, what was
heard and what is queued reach at most to the last decoded frame, which is where a new
binding begins.

*Framework.* `ClaimsExclusive` is inductive with the types of the frames. For
`CyclesRefused` the invariant `CycleInv` says how far the load of a cyclic extension
can get: it waits for a dependency that is cyclic too, so it never reaches `init`; that
the first dependency in its list that is cyclic must fail is the step that needs
`Cyclic` to be closed under the need for another member. It is stated for every
extension from which a cycle can be reached, through any number of others.

With calls one at a time, frames that are not done form a stack (`StackInv`): all but
the last wait for the load of a dependency, which is the next one. `DataInv` then says
who has every library and metadata box, step by step: a map, a prepared reload or the
frame at the top, so that whoever fails gives back what it has. `RegInv` adds that
registers in the slot map come from a library that is loaded, being loaded or being
replaced, and are out of it before that library is closed. `RegistryInv` adds that the
version in use of an extension is one of its files (`LiveFiles`), that a load past the
dependencies of its file still has them, and that a removal past the check of its
dependents still has none; every step is then one of the abstract registry or a stutter. From the
registry alone follows `LoadedKeepTheirDependencies`: only a version that a reload brought
can be in use without an extension it depends on.

`NoDanglingEntries` is far from inductive: whether the entries of an extension are found
when it is removed depends on where every register it ever filled is by then. `EntryInv`
says of every entry that the call which made it is past all steps that may fail, so that
no error return frees its metadata, and that its register is in the slot map (`Seen`),
or is one that the call in progress has taken out and whose image it is about to close
(`Detached`): when the image goes, the entries in it go. A frame past `removeEntries` has
no entry of the metadata it will free (`Emptied`). A reload from the loaded file is the
hard case: the old handle is closed, the image stays with what others have put into its
registers, and `attach` brings the same registers back. `OneImage` shows that nothing
else can keep an image that a call closes: files of two extensions differ, and the
library of the extension is in no map by then. `ImageInv` says that a library's image is
initialised unless the library has yet to be (`init`, `initNew`) or is about to be closed
after its `around_deinit` (`Uninit`), and that no image is initialised that no library is
open for.

*IPC.* `StageInv` ties the listeners of a process to how far its start or exit is.
`FoundInv` says, while nothing has overlapped, that at most one process has a listener
a file leads to, and that whoever is past a probe has found nothing there. `CallInv`
follows a caller's connection: it is in exactly one queue, or in hand with one
listener, exactly while the caller waits there, and the number of executions is what
that place implies. `StatusInv` carries the streams that were in the map since a status
began: each is still to be listed or has been.

*Samples.* `CountInv` relates the three counters through seeks and lost blocks, and
`ReaderInv` the reader's offset to them, for buffers that hold whole frames and for
those that do not. The planner's order is shown to be a strict total order on
candidates (ids of modes and devices tell them apart, `KeysTellApart`), and a finite
set has a first one, so that `PlanOutput` is what its definition says (`PlanIsFirst`).
`SessionInv` says that the chain, the workspace and the plan are those of one
snapshot. `ConvertInv` gives the resampler's state in closed form: as many frames have
been made as multiples of the source's rate lie before the last frame fed, and the
phase is the remainder (`Steady`, `Placed`); that a block takes at most the frames the
workspace was sized for follows by arithmetic on these (`EveryBlockFits`), and so does
`SplitIndependent`. `EncodingFaithful` rests on lemmas about rounding for every scale
and width (`RoundIsNear`, `RoundIsMonotone`, `SignedCodeIs`, `UnsignedCodeIs`), and holds
for all samples of a depth and not only those TLC tries (`WriteSampleFaithful`).

### What is only model-checked

- The liveness properties (`StopEventuallyRemoves`, `SeekIsServed`, `ShutdownQuiesces`,
  `CallsReturn`, `RunEnds`, `StreamEnds`, `CallsEnd`, `ShutdownExits`, `CommandsAnswered`,
  `StopsAreCarriedOut`): fairness and ENABLED are out of the prover's reach.
- Inductions over data, `PowersArePositive` among them: the provers cannot
  instantiate an induction theorem.

## 5. Not modelled, and the plan

Left out for good: the fields of responses, argument parsing, printing, configuration
values, error enums and traits (conversion without protocol state); FFI layout;
sample values and the rounding of f64; lifecycle hooks (nothing registers one) and
trust counters (nothing reads them); the Windows pipe; the fixtures of the tests.
In the framework: two providers of one slot name, the `pending` list and reuse of
freed addresses.

What the plan has left are the hazards of `PROJECT.json` that no property covers. Where
their notes say that the code does not give a guarantee, the model has the steps in the
code's order and a property waits for the code to decide what it should promise.
