---------------------------- MODULE OutputSession ----------------------------
(***************************************************************************)
(* The output of one stream: the output session (output_session.rs), the   *)
(* CPAL adapter with its byte ring (cpal_adapter.rs, output.rs), and the   *)
(* decode loop as their only caller (pipeline.rs, run_stream_async).       *)
(*                                                                         *)
(* Four actors: the decode loop, the driver's data callback, the driver's  *)
(* error callback, and the user who plugs devices in and out.  Frames of   *)
(* the track are numbered from 1; a byte is known by its place in the      *)
(* track in the format it was encoded in.  Source and device run at one    *)
(* rate, so a frame in is a frame out.  A paused loop does not touch its   *)
(* output and is left out, and so are seeks.                               *)
(***************************************************************************)
EXTENDS Integers, Sequences

CONSTANTS
  Units,        \* the output devices that can be plugged in
  Name,         \* the name each of them reports
  Formats,      \* sample formats
  Width,        \* bytes per frame of each format
  Configs,      \* the format lists a device may report; <<>> when it is absent
  AutoReconnect,\* config.output_auto_reconnect
  Total,        \* frames of the track
  MaxBlock,     \* frames a codec read returns at most (4096 in the code)
  RingFrames,   \* frames the ring holds (16384 in the code)
  MaxPull,      \* frames the driver asks for at most
  MaxChanges,   \* bound: how often devices are plugged in, out or changed
  MaxNotices    \* bound: how often notify_device_lost is called

ASSUME ConstantsAssumption ==
  /\ Width \in [Formats -> Nat \ {0}]
  /\ Configs \subseteq Seq(Formats)
  /\ AutoReconnect \in BOOLEAN
  /\ {Total, MaxBlock, RingFrames, MaxPull} \subseteq Nat \ {0}
  /\ {MaxChanges, MaxNotices} \subseteq Nat

VARIABLES
  hw,        \* what each unit reports now
  changes,   \* plug events so far
  notices,   \* device-loss notices served so far
  pc,        \* where the decode loop is
  draft,     \* the plan that open or rebind is about to bind
  spec,      \* chain.output_spec and plan.target_spec
  binding,   \* the session's binding: its format, lost and closed flags
  workspace, \* bytes of the PcmBuffer's output region
  ring,      \* bytes queued for the driver, oldest first
  rest,      \* bytes of the block that write has not pushed yet
  block,     \* frames of the block being submitted
  next,      \* the frame the codec reads next
  heard,     \* history: the last byte the driver took, in the binding's
             \* format; a new binding starts after what was decoded so far
  outcome    \* how the run ended

session == <<spec, binding, workspace>>
env     == <<hw, changes>>
vars    == <<env, notices, pc, draft, session, ring, rest, block, next, heard,
             outcome>>

Min2(a, b) == IF a < b THEN a ELSE b

(***************************************************************************)
(* Devices.  An id is a hash of the name and of the widths of the formats, *)
(* so two formats of one width give one id.                                *)
(***************************************************************************)
Present      == {u \in Units : hw[u] # <<>>}
DeviceId(u)  == <<Name[u], [i \in DOMAIN hw[u] |-> Width[hw[u][i]]]>>
UniqueIds    == \A u, v \in Present : u # v => DeviceId(u) # DeviceId(v)

\* What plan_output may choose: any mode of any device.
Candidates ==
  UNION {{[device |-> DeviceId(u), mode |-> i, spec |-> hw[u][i]] :
            i \in DOMAIN hw[u]} : u \in Present}

\* Mutant: the id is taken to determine the formats.
OffersById(u, plan) == u \in Present /\ DeviceId(u) = plan.device

\* bind compares id, mode number and format with what the unit reports now.
Offers(u, plan) ==
  /\ u \in Present
  /\ DeviceId(u) = plan.device
  /\ plan.mode \in DOMAIN hw[u]
  /\ hw[u][plan.mode] = plan.spec

NoPlan         == [device |-> <<>>, mode |-> 0, spec |-> <<>>]
NewBinding(f)  == [spec |-> f, lost |-> FALSE, closed |-> FALSE]
NoBinding      == [spec |-> <<>>, lost |-> FALSE, closed |-> TRUE]
WorkspaceFor(f) == (MaxBlock + 2) * Width[f]

\* Mutant: a fixed number of bytes.
CapacityInBytes == RingFrames + 1

\* The ring's size in bytes: a whole number of frames.
Capacity == RingFrames * Width[binding.spec]

\* The bytes of frames from .. to in format f.
Encode(from, to, f) ==
  [i \in 1 .. (to - from + 1) * Width[f] |-> (from - 1) * Width[f] + i]

Init ==
  /\ hw \in [Units -> Configs]
  /\ changes = 0 /\ notices = 0
  /\ pc = "open" /\ draft = NoPlan
  /\ spec = <<>> /\ binding = NoBinding /\ workspace = 0
  /\ ring = <<>> /\ rest = <<>> /\ block = 0
  /\ next = 1 /\ heard = 0
  /\ outcome = "none"

(***************************************************************************)
(* open and rebind: snapshot, plan, bind.                                  *)
(***************************************************************************)
\* The device list is read once for the plan ...
Plan ==
  /\ pc \in {"open", "rebind"}
  /\ UniqueIds
  /\ \E c \in Candidates : draft' = c
  /\ pc' = IF pc = "open" THEN "bindNew" ELSE "bindAgain"
  /\ UNCHANGED <<env, notices, session, ring, rest, block, next, heard, outcome>>

\* Mutant: the workspace of the first binding is kept.
BindsOnOldWorkspace(f) ==
  /\ spec' = f
  /\ binding' = NewBinding(f)
  /\ workspace' = IF workspace = 0 THEN WorkspaceFor(f) ELSE workspace
  /\ ring' = <<>>
  /\ heard' = (next - 1) * Width[f]
  /\ draft' = NoPlan
  /\ pc' = "ready"

\* ... and once more to bind it.
BindsOn(f) ==
  /\ spec' = f
  /\ binding' = NewBinding(f)
  /\ workspace' = WorkspaceFor(f)
  /\ ring' = <<>>
  /\ heard' = (next - 1) * Width[f]
  /\ draft' = NoPlan
  /\ pc' = "ready"

Open ==
  /\ pc = "bindNew"
  /\ \E u \in Units : Offers(u, draft)
  /\ BindsOn(draft.spec)
  /\ UNCHANGED <<env, notices, rest, block, next, outcome>>

\* The old binding is closed and its ring goes with it.
Rebind ==
  /\ pc = "bindAgain"
  /\ \E u \in Units : Offers(u, draft)
  /\ BindsOn(draft.spec)
  /\ UNCHANGED <<env, notices, rest, block, next, outcome>>

\* pause() of the old stream fails: the new binding is dropped, the old one
\* stays, closed.
CloseFails ==
  /\ pc = "bindAgain"
  /\ \E u \in Units : Offers(u, draft)
  /\ binding' = [binding EXCEPT !.closed = TRUE]
  /\ ring' = <<>>
  /\ draft' = NoPlan
  /\ pc' = "ending" /\ outcome' = "error"
  /\ UNCHANGED <<env, notices, spec, workspace, rest, block, next, heard>>

\* No device list, colliding ids, no candidate, device gone or changed since
\* the plan, stream not built or not started.
OutputFails ==
  /\ pc \in {"open", "rebind", "bindNew", "bindAgain"}
  /\ pc' = IF pc \in {"open", "bindNew"} THEN "done" ELSE "ending"
  /\ outcome' = "error"
  /\ draft' = NoPlan
  /\ UNCHANGED <<env, notices, session, ring, rest, block, next, heard>>

(***************************************************************************)
(* The decode loop.                                                        *)
(***************************************************************************)
\* cancel.is_cancelled(), or the third decode error in a row.
Break ==
  /\ pc = "ready"
  /\ pc' = "ending" /\ outcome' \in {"stopped", "error"}
  /\ UNCHANGED <<env, notices, draft, session, ring, rest, block, next, heard>>

AfterLoss ==
  IF AutoReconnect THEN pc' = "rebind" /\ UNCHANGED outcome
                   ELSE pc' = "ending" /\ outcome' = "error"

\* device_lost.swap(false) found the engine-wide notice.
DeviceNotice ==
  /\ pc = "ready" /\ notices < MaxNotices
  /\ notices' = notices + 1
  /\ AfterLoss
  /\ UNCHANGED <<env, draft, session, ring, rest, block, next, heard>>

Decode ==
  /\ pc = "ready"
  /\ \E n \in 1 .. MaxBlock :
       /\ next + n - 1 <= Total
       /\ block' = n
       /\ next' = next + n
  /\ pc' = "submit"
  /\ UNCHANGED <<env, notices, draft, session, ring, rest, heard, outcome>>

EndOfTrack ==
  /\ pc = "ready" /\ next > Total
  /\ pc' = "ending" /\ outcome' = "complete"
  /\ UNCHANGED <<env, notices, draft, session, ring, rest, block, next, heard>>

\* Mutant: the block is decoded and submitted again after the rebind.
LoseBlockRetry ==
  /\ block' = 0 /\ rest' = <<>>
  /\ next' = next - block
  /\ AfterLoss

\* Lost: the block is given up, also what of it is not pushed.
LoseBlock ==
  /\ block' = 0 /\ rest' = <<>>
  /\ AfterLoss
  /\ UNCHANGED next

\* FilterChain's and write's refusals: no room in the workspace, another
\* format than the binding's, or a closed binding.
Refused ==
  \/ block * Width[spec] > workspace
  \/ spec # binding.spec
  \/ binding.closed

\* submit_workspace up to the push loop.  The lost flag is read twice with only
\* the chain's work between, so the second read stands for both.
Submit ==
  /\ pc = "submit"
  /\ IF binding.lost THEN LoseBlock
     ELSE /\ IF Refused
             THEN pc' = "ending" /\ outcome' = "refused" /\ UNCHANGED rest
             ELSE /\ rest' = Encode(next - block, next - 1, spec)
                  /\ pc' = "push" /\ UNCHANGED outcome
          /\ UNCHANGED <<block, next>>
  /\ UNCHANGED <<env, notices, draft, session, ring, heard>>

\* Mutant: what does not fit is dropped.
PushOnce ==
  LET k == Min2(Capacity - Len(ring), Len(rest)) IN
  /\ pc = "push"
  /\ ring' = ring \o SubSeq(rest, 1, k)
  /\ rest' = <<>>
  /\ pc' = "ready" /\ block' = 0
  /\ UNCHANGED <<env, notices, draft, session, next, heard, outcome>>

\* One turn of write's loop that finds room.
Push ==
  LET k == Min2(Capacity - Len(ring), Len(rest)) IN
  /\ pc = "push" /\ k > 0
  /\ ring' = ring \o SubSeq(rest, 1, k)
  /\ rest' = SubSeq(rest, k + 1, Len(rest))
  /\ IF rest' = <<>> THEN pc' = "ready" /\ block' = 0
                     ELSE UNCHANGED <<pc, block>>
  /\ UNCHANGED <<env, notices, draft, session, next, heard, outcome>>

\* Mutant: a full ring is waited for whatever the flag says.
PushWaits == pc = "push" /\ Len(ring) >= Capacity /\ UNCHANGED vars

\* A turn that finds the ring full and the flag set; otherwise it sleeps.
PushLost ==
  /\ pc = "push" /\ Len(ring) >= Capacity
  /\ binding.lost
  /\ LoseBlock
  /\ UNCHANGED <<env, notices, draft, session, ring, heard>>

\* The session is dropped: its stream stops and the ring goes with it.
DropSession ==
  /\ pc = "ending"
  /\ pc' = "done"
  /\ binding' = [binding EXCEPT !.closed = TRUE]
  /\ ring' = <<>>
  /\ UNCHANGED <<env, notices, draft, spec, workspace, rest, block, next, heard,
                 outcome>>

(***************************************************************************)
(* The driver and the user.                                                *)
(***************************************************************************)
\* The data callback takes what is there and fills the remainder with silence.
Callback ==
  /\ ~binding.closed /\ ring # <<>>
  /\ \E n \in 1 .. MaxPull :
       LET k == Min2(n * Width[binding.spec], Len(ring)) IN
       /\ heard' = ring[k]
       /\ ring' = SubSeq(ring, k + 1, Len(ring))
  /\ UNCHANGED <<env, notices, pc, draft, session, rest, block, next, outcome>>

\* The error callback sets the flag; data callbacks may go on or stop.
ErrorCallback ==
  /\ ~binding.closed /\ ~binding.lost
  /\ binding' = [binding EXCEPT !.lost = TRUE]
  /\ UNCHANGED <<env, notices, pc, draft, spec, workspace, ring, rest, block,
                 next, heard, outcome>>

Replug ==
  /\ changes < MaxChanges
  /\ changes' = changes + 1
  /\ \E u \in Units : \E c \in Configs \ {hw[u]} : hw' = [hw EXCEPT ![u] = c]
  /\ UNCHANGED <<notices, pc, draft, session, ring, rest, block, next, heard,
                 outcome>>

Loop == \/ Plan \/ Open \/ Rebind \/ CloseFails \/ OutputFails
        \/ Break \/ DeviceNotice \/ Decode \/ EndOfTrack
        \/ Submit \/ Push \/ PushLost \/ DropSession

Next == Loop \/ Callback \/ ErrorCallback \/ Replug

(***************************************************************************)
(* The loop's thread is scheduled, and a driver that has not reported an   *)
(* error keeps calling.  Nothing is assumed of a driver that has.          *)
(***************************************************************************)
Spec == Init /\ [][Next]_vars
FairSpec == Spec /\ WF_vars(Loop) /\ WF_vars(~binding.lost /\ Callback)
=============================================================================
