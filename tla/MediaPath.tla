----------------------------- MODULE MediaPath ------------------------------
(***************************************************************************)
(* The way of one stream's samples: the WAV codec reads them from a file,  *)
(* the FilterChain converts them into the mode the planner chose, and the  *)
(* output takes them, one block per turn of the decode loop.  Seeks, a     *)
(* device that is lost (before a read, or found out when a block is        *)
(* submitted) and the replanning that follows happen between the blocks.   *)
(***************************************************************************)
EXTENDS WavCodec, FilterChain

CONSTANTS
  Files,          \* files that may be played
  Snapshots,      \* device snapshots that discovery may return
  Preferences,    \* preference lists of an OutputSession
  BlockFrames,    \* frames of a block (4096 in the program)
  MaxSeeks,       \* bound on the seeks of one stream
  MaxRebinds,     \* bound on the losses of a device
  MayFail         \* whether the file may, once, fail to be read

ASSUME MediaAssumption ==
  /\ BlockFrames \in Nat \ {0} /\ MaxSeeks \in Nat /\ MaxRebinds \in Nat
  /\ MayFail \in BOOLEAN
  \* the buffer holds more than a frame, and a whole number of frames or less than
  \* a block (8192 bytes and 4096 frames); prepare refuses a rate of 0
  /\ \A f \in Files : Parses(f) =>
       /\ BytesPerFrame(f) < BufCap
       /\ BufCap % BytesPerFrame(f) = 0 \/ BufCap < BlockFrames * BytesPerFrame(f)
       /\ f.rate > 0

\* The types of what is read; discovery numbers the modes of a device.
ASSUME InputAssumption ==
  /\ \A f \in Files :
       /\ f.chunks \in Seq([id : STRING, len : Nat])
       /\ f.channels \in Nat /\ f.depth \in Nat /\ f.rate \in Nat /\ f.size \in Nat
  /\ Preferences \subseteq Seq([selector : DeviceSelector, mode : ModePreference])
  /\ Snapshots \subseteq Seq(OutputDevice)
  /\ \A snap \in Snapshots : \A i \in DOMAIN snap :
       /\ IsFiniteSet(snap[i].modes)
       /\ \A m, n \in snap[i].modes : m.id = n.id => m = n

VARIABLES
  file,       \* the file played
  prefs,      \* the preferences of its session
  phase,      \* where run_stream is
  reader,     \* the BufReader behind the codec's callbacks
  wav,        \* the codec's stream state
  block,      \* decoded frames of the block at hand, by their byte offsets
  chain,      \* the session's FilterChain
  work,       \* the PcmBuffer
  plan,       \* the session's OutputPlan
  snapshot,   \* history: the snapshot it was planned from
  sent,       \* history: the frames made of the last block
  decoded,    \* total_frames_decoded
  dropped,    \* history: frames of blocks a lost device swallowed
  failed,     \* history: a read of the file failed
  seeks, rebinds

codecVars   == <<reader, wav, block, decoded, dropped, failed>>
sessionVars == <<chain, work, plan, snapshot, sent>>
inputVars   == <<file, prefs>>
vars        == <<inputVars, phase, codecVars, sessionVars, seeks, rebinds>>

None == [pref |-> 0]     \* no plan, no chain, no workspace

Bpf        == BytesPerFrame(file)
SourceSpec == [rate |-> file.rate, channels |-> Channels(file), encoding |-> "F32"]
MaxSamples == BlockFrames * Channels(file)

Final == {"unsupported", "rival", "noOutput", "ended", "failed", "tooSmall"}

Init ==
  /\ file \in Files /\ prefs \in Preferences
  /\ phase = "new"
  /\ reader = SeekBytes(0) /\ wav = [total |-> 0, position |-> 0] /\ block = <<>>
  /\ chain = None /\ work = None /\ plan = None /\ snapshot = <<>> /\ sent = <<>>
  /\ decoded = 0 /\ dropped = 0 /\ failed = FALSE
  /\ seeks = 0 /\ rebinds = 0

\* The probe loop: the first codec of the highest confidence, if it is 50 or
\* more, and else the built-in WAV codec.  The other codec was registered first.
ChosenCodec(f) == IF f.rival >= 50 /\ f.rival >= Probe(f) THEN "rival" ELSE "wav"

\* open_codec.  The WAV codec leaves the reader where it says the data begins;
\* what another codec does is not modelled.
OpenCodec ==
  /\ phase = "new"
  /\ IF ChosenCodec(file) = "wav" /\ Parses(file)
     THEN /\ phase' = "prepared"
          /\ wav' = OpenStream(file)
          /\ reader' = SeekBytes(DataStart(file))
     ELSE /\ phase' = IF ChosenCodec(file) = "wav" THEN "unsupported" ELSE "rival"
          /\ UNCHANGED <<wav, reader>>
  /\ UNCHANGED <<inputVars, block, decoded, dropped, failed, sessionVars, seeks, rebinds>>

\* OutputSession::open, and the workspace of run_stream.
OpenOutput(snap) ==
  /\ phase = "prepared"
  /\ IF Plannable(snap, SourceSpec, prefs)
     THEN LET p == PlanOutput(snap, SourceSpec, prefs)
              c == BuildChain(SourceSpec, p.spec)
          IN  /\ phase' = "top"
              /\ plan' = p /\ chain' = c /\ work' = Workspace(c, MaxSamples)
              /\ snapshot' = snap
     ELSE phase' = "noOutput" /\ UNCHANGED <<plan, chain, work, snapshot>>
  /\ UNCHANGED <<inputVars, codecVars, sent, seeks, rebinds>>

-----------------------------------------------------------------------------
(* Losing the device.                                                      *)

\* The bug of a workspace that stays as large as the old mode needed it.
RebindKeepingWorkspace(snap) ==
  LET p == PlanOutput(snap, SourceSpec, prefs)
  IN  /\ plan' = p /\ chain' = ReconfigureOutput(chain, p.spec)
      /\ snapshot' = snap /\ sent' = <<>> /\ UNCHANGED work

\* OutputSession::rebind, and the new workspace the loop then makes.
Rebind(snap) ==
  LET p == PlanOutput(snap, SourceSpec, prefs)
      c == ReconfigureOutput(chain, p.spec)
  IN  /\ plan' = p /\ chain' = c /\ work' = Workspace(c, MaxSamples)
      /\ snapshot' = snap /\ sent' = <<>>

\* The flag of a lost device, looked at in every turn of the loop (a paused
\* stream turns without reading).
DeviceLost(snap) ==
  /\ phase = "top" /\ rebinds < MaxRebinds
  /\ Plannable(snap, SourceSpec, prefs)
  /\ Rebind(snap)
  /\ rebinds' = rebinds + 1
  /\ UNCHANGED <<inputVars, phase, codecVars, seeks>>

\* A block submitted to a lost device is gone: the loop goes on with the next.
SubmitLost(snap) ==
  /\ phase = "submit" /\ rebinds < MaxRebinds
  /\ Plannable(snap, SourceSpec, prefs)
  /\ Rebind(snap)
  /\ rebinds' = rebinds + 1
  /\ phase' = "top" /\ block' = <<>> /\ dropped' = dropped + Len(block)
  /\ UNCHANGED <<inputVars, reader, wav, decoded, failed, seeks>>

\* No device to go on with, no reconnecting, or a write that fails.
OutputFails ==
  /\ phase \in {"top", "submit"} /\ rebinds < MaxRebinds
  /\ phase' = "failed"
  /\ UNCHANGED <<inputVars, codecVars, sessionVars, seeks, rebinds>>

-----------------------------------------------------------------------------
(* One turn of the loop: seeks, a read, a submission.                      *)

\* The bug of counting on from the requested frame, not from the one reached.
SeekAsRequested(frame) ==
  LET target == SeekTarget(wav, frame)
  IN  /\ phase \in {"top", "seeks"} /\ seeks < MaxSeeks
      /\ reader' = SeekBytes(DataStart(file) + target * Bpf)
      /\ wav' = [wav EXCEPT !.position = target]
      /\ decoded' = frame /\ dropped' = 0
      /\ seeks' = seeks + 1 /\ phase' = "seeks"
      /\ UNCHANGED <<inputVars, block, failed, sessionVars, rebinds>>

Seek(frame) ==
  LET target == SeekTarget(wav, frame)
  IN  /\ phase \in {"top", "seeks"} /\ seeks < MaxSeeks
      /\ reader' = SeekBytes(DataStart(file) + target * Bpf)
      /\ wav' = [wav EXCEPT !.position = target]
      /\ decoded' = target /\ dropped' = 0
      /\ seeks' = seeks + 1 /\ phase' = "seeks"
      /\ UNCHANGED <<inputVars, block, failed, sessionVars, rebinds>>

BeginRead ==
  /\ phase \in {"top", "seeks"}
  /\ phase' = "read" /\ block' = <<>>
  /\ UNCHANGED <<inputVars, reader, wav, decoded, dropped, failed, sessionVars, seeks, rebinds>>

MoreToRead == phase = "read" /\ Len(block) < BlockFrames /\ ~AtTotal(wav)

\* The bug of going on after a read that gave nothing.
SubmitAlways(b) == IF b = <<>> THEN "top" ELSE "submit"

\* What the loop does with what read returned: nothing is the end.
AfterRead(b) == IF b = <<>> THEN "ended" ELSE "submit"

\* One frame of codec.read.
ReadFrame ==
  LET r == ReadBytes(reader, Bpf, file.size)
  IN  /\ MoreToRead /\ r.got = Bpf
      /\ reader' = r.reader
      /\ block' = Append(block, reader.pos)
      /\ wav' = [wav EXCEPT !.position = @ + 1]
      /\ UNCHANGED <<inputVars, phase, decoded, dropped, failed, sessionVars, seeks, rebinds>>

\* Fewer bytes than a frame end the call; they are not put back.
ShortRead ==
  LET r == ReadBytes(reader, Bpf, file.size)
  IN  /\ MoreToRead /\ r.got < Bpf
      /\ reader' = r.reader
      /\ phase' = AfterRead(block)
      /\ UNCHANGED <<inputVars, wav, block, decoded, dropped, failed, sessionVars, seeks, rebinds>>

\* So does an error of the read callback.
ReadFails ==
  /\ MoreToRead /\ MayFail /\ ~failed
  /\ failed' = TRUE
  /\ phase' = AfterRead(block)
  /\ UNCHANGED <<inputVars, reader, wav, block, decoded, dropped, sessionVars, seeks, rebinds>>

\* A full block, or the frames the header announced.
EndRead ==
  /\ phase = "read" /\ (Len(block) = BlockFrames \/ AtTotal(wav))
  /\ phase' = AfterRead(block)
  /\ UNCHANGED <<inputVars, codecVars, sessionVars, seeks, rebinds>>

\* submit_workspace: an error of the chain ends the stream.
Submit ==
  /\ phase = "submit"
  /\ IF Fits(chain, Len(block), work)
     THEN LET r == Convert(chain, Len(block), work)
          IN  /\ chain' = r.chain /\ sent' = r.frames
              /\ decoded' = decoded + Len(block) /\ block' = <<>>
              /\ phase' = "top"
     ELSE phase' = "tooSmall" /\ UNCHANGED <<chain, sent, decoded, block>>
  /\ UNCHANGED <<inputVars, reader, wav, dropped, failed, work, plan, snapshot, seeks, rebinds>>

-----------------------------------------------------------------------------

Loop == OpenCodec \/ BeginRead \/ ReadFrame \/ ShortRead \/ EndRead \/ Submit

Next ==
  \/ Loop
  \/ ReadFails \/ OutputFails
  \/ \E snap \in Snapshots : OpenOutput(snap) \/ DeviceLost(snap) \/ SubmitLost(snap)
  \/ \E frame \in 0..(wav.total + 1) : Seek(frame)

Spec == Init /\ [][Next]_vars

\* The decode loop is one thread that never waits for another: it goes on.
FairSpec ==
  Spec /\ WF_vars(Loop) /\ WF_vars(\E snap \in Snapshots : OpenOutput(snap))
=============================================================================
