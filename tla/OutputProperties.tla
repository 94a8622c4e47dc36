-------------------------- MODULE OutputProperties --------------------------
(***************************************************************************)
(* What the output of a stream promises.                                   *)
(***************************************************************************)
EXTENDS OutputSession

\* What open and rebind must leave behind for a block to be taken: while the
\* session is in use its chain has the format of its open binding, and the
\* workspace was sized for that format (OutputSession::open and rebind,
\* run_stream_async after a rebind).
SessionAgrees ==
  /\ pc \in {"ready", "submit", "push", "rebind", "bindAgain"} =>
       /\ spec \in Formats /\ binding.spec = spec /\ ~binding.closed
       /\ workspace = WorkspaceFor(spec)
  /\ pc \in {"bindNew", "bindAgain"} => draft.spec \in Formats
  /\ block \in 0 .. MaxBlock

\* After every open and rebind, whatever the formats before and after, plan,
\* filter chain, workspace and binding agree: neither the chain nor write ever
\* turns a block down (filter_chain.rs WorkspaceTooSmall, cpal_adapter.rs
\* "output block does not match binding").
NoBlockRefused == outcome # "refused"

\* Whole frames of the bound format.
WholeFrames(bytes) == \E q \in 0 .. bytes : bytes = q * Width[binding.spec]

\* Ring, pushes and reads stay on frame boundaries: the driver's next buffer
\* begins with the first byte of a frame, so channels never swap
\* (cpal_adapter.rs, capacity in frames; write's check of whole frames).
FramesStayWhole ==
  ring # <<>> => WholeFrames(Len(ring)) /\ WholeFrames(Head(ring) - 1)

\* Backpressure rather than loss: while a binding lasts, what the driver took,
\* what is queued and what write still holds follow each other without a gap up
\* to the last decoded frame (cpal_adapter.rs, write's loop).
NoGapWhileBound ==
  LET queued == ring \o rest IN
  pc \in {"ready", "push"} =>
    /\ \A i \in DOMAIN queued : queued[i] = heard + i
    /\ heard + Len(queued) = (next - 1) * Width[binding.spec]

LastFrameHeard ==
  IF binding.spec \in Formats
  THEN (heard + Width[binding.spec] - 1) \div Width[binding.spec] ELSE 0

\* Nothing is heard twice: over losses and rebinds the track, which is not sought
\* in here, only moves forward
\* (run_stream_async gives a lost block up, rebind drops the queue).
NothingReplayed == [][LastFrameHeard' >= LastFrameHeard]_vars

\* A binding is only made in a format that some device with the planned id
\* reports at that moment, although the id does not tell formats of one width
\* apart and devices change between plan and bind (bind's stale checks).
BoundFormatIsOffered ==
  [][\/ binding'.spec # binding.spec
     \/ pc' = "ready" /\ pc \in {"bindNew", "bindAgain"}
     => \E u \in Present : /\ DeviceId(u) = draft.device
                           /\ \E i \in DOMAIN hw[u] : hw[u][i] = binding'.spec]_vars

\* The run ends: no write outlasts a driver that keeps calling or reports an
\* error (write's loop looks at lost whenever the ring is full).
RunEnds == <>(pc = "done")
=============================================================================
