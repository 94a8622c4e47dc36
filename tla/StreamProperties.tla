------------------------- MODULE StreamProperties ---------------------------
(***************************************************************************)
(* What StreamEngine guarantees.                                           *)
(***************************************************************************)
EXTENDS StreamEngine

Histories ==
  [seeksSent : 0..MaxSeeks, pausedBlocks : 0..2, lateBlocks : 0..2]

\* Types of all variables (StreamState, ActiveStream, Engine, run locals).
TypeOK ==
  /\ slot \in [Streams -> Slots]
  /\ status \in [Streams -> Statuses]
  /\ active \in [Streams -> BOOLEAN]
  /\ lost \in [Streams -> BOOLEAN]
  /\ frames \in [Streams -> Nat]
  /\ cancel \in [Streams -> BOOLEAN]
  /\ codec \in [Streams -> Owners]
  /\ reader \in [Streams -> Owners]
  /\ media \in [Streams -> Nat]
  /\ seeks \in [Streams -> Seq(SeekTargets)]
  /\ marking \subseteq Streams
  /\ shutdown \in BOOLEAN
  /\ deviceLost \in BOOLEAN
  /\ notifying \in BOOLEAN
  /\ dropped \in BOOLEAN
  /\ pc \in [Runs -> Points]
  /\ sid \in [Runs -> Streams \cup {NoStream}]
  /\ errs \in [Runs -> 0..MaxConsecutiveErrors]
  /\ failed \in [Runs -> BOOLEAN]
  /\ history \in [Streams -> Histories]
-----------------------------------------------------------------------------
(***************************************************************************)
(* Safety.                                                                 *)
(***************************************************************************)

\* Where a run may call the codec, which may call its reader.
UsesCodec(r)  == pc[r] \in Loop \cup {"final", "inactive", "dropCodec"}
UsesReader(r) == UsesCodec(r) \/ pc[r] = "dropReader"

\* Every codec call of a decode loop is made on a codec stream and a reader that
\* this run, and no other, owns: two calls of run_stream on one stream never
\* decode it together, and nothing is used or freed twice.
LoopOwnsResources ==
  \A r \in Runs :
    /\ UsesCodec(r) => codec[sid[r]] = r
    /\ UsesReader(r) => reader[sid[r]] = r

\* When a run ends, its reader is freed only after the codec stream that calls into
\* it, whatever happens between the two.  (A refused prepare and the engine's drop
\* free both with nobody else able to look; they are one step each.)
ReaderOutlivesCodec ==
  \A s \in Streams : reader[s] = "freed" => codec[s] \in {"none", "freed"}

\* A stream that has left the engine, or never entered it, has freed both.
NothingLeaks ==
  \A s \in Streams :
    slot[s] \in {"refused", "removed"} => /\ codec[s] \in {"none", "freed"}
                                          /\ reader[s] = "freed"

\* A live decode loop's stream is in the map, active, where stop_stream and
\* shutdown can find it; and it leaves the map only through that loop's end.
RunningIsReachable ==
  \A r \in Runs :
    /\ pc[r] \in Loop \cup Exit => slot[sid[r]] = "mapped"
    /\ pc[r] \in Loop => active[sid[r]]

\* Pause takes hold: while a stream stays Paused at most one more block, the one
\* already past the loop's check, reaches the output.
PauseTakesHold ==
  \A s \in Streams : status[s] = "Paused" => history[s].pausedBlocks <= 1

\* Stop takes hold: after stop_stream or shutdown at most one more block of a
\* stream reaches the output, whatever pause, resume and seek calls follow.
StopTakesHold ==
  \A s \in Streams : history[s].lateBlocks <= 1

\* The reported position never runs ahead of what the codec has produced: it lags
\* by the blocks lost in rebinds.  (run_stream trusts the codec's answer to a
\* seek; run_stream_async does not, so streams it runs are exempt.)
PositionNotAhead ==
  \A s \in Streams : (\E r \in AsyncRuns : sid[r] = s) \/ frames[s] <= media[s]

\* A stream that was removed is never written again: no handler or loop holds a
\* way to change what clients last saw of it.
RemovedIsFinal ==
  [][\A s \in Streams : slot[s] = "removed" =>
       /\ slot'[s] = "removed"
       /\ status'[s] = status[s]
       /\ active'[s] = active[s]
       /\ frames'[s] = frames[s]]_vars
-----------------------------------------------------------------------------
(***************************************************************************)
(* The inductive invariant behind the ownership properties.                *)
(***************************************************************************)

\* A run that owns, or has just released, the resources of its stream.
InUse(r) == pc[r] \in Loop \cup Exit

\* Every call but one not yet made names a stream.
RunsNamed == \A r \in Runs : pc[r] # "idle" => sid[r] \in Streams

\* A run that has met its limit of decode errors is on its way out.
ErrorsEndRuns ==
  \A r \in Runs : pc[r] \notin Exit \cup {"done"} => errs[r] < MaxConsecutiveErrors

\* What a run in progress owns, point by point.
RunsHold ==
  \A r \in Runs : InUse(r) =>
    /\ slot[sid[r]] = "mapped"
    /\ codec[sid[r]] = IF UsesCodec(r) THEN r ELSE "freed"
    /\ reader[sid[r]] = IF UsesReader(r) THEN r ELSE "freed"
    /\ pc[r] \in Loop \cup {"final", "inactive"} => active[sid[r]]

OneRunPerStream ==
  \A r, q \in Runs : InUse(r) /\ InUse(q) /\ sid[r] = sid[q] => r = q

\* Who owns a stream's resources at each stage of its life.
SlotsHold ==
  \A s \in Streams :
    /\ slot[s] = "absent" => codec[s] = "none" /\ reader[s] = "none"
    /\ slot[s] = "opening" => codec[s] = "opening" /\ reader[s] = "opening"
    /\ slot[s] = "refused" => codec[s] \in {"none", "freed"} /\ reader[s] = "freed"
    /\ slot[s] = "removed" => codec[s] = "freed" /\ reader[s] = "freed"
    /\ slot[s] = "mapped" =>
         \/ codec[s] = "map" /\ reader[s] = "map" /\ active[s]
         \/ \E r \in Runs : InUse(r) /\ sid[r] = s

MarkingMapped == \A s \in marking : slot[s] = "mapped"

\* Between the calls that hand them on, a stream's two resources are with the
\* map, with the one run that took them, or freed, in step with the stream's
\* place in the engine: the strengthening of the four properties above.
OwnershipInvariant ==
  RunsNamed /\ ErrorsEndRuns /\ RunsHold /\ OneRunPerStream /\ SlotsHold /\ MarkingMapped
-----------------------------------------------------------------------------
(***************************************************************************)
(* The engine implements StreamLifecycle.                                  *)
(***************************************************************************)

\* The phase of a stream, read off the map and the owner of its codec stream.
PhaseOf(s) ==
  CASE slot[s] \in {"absent", "opening"} -> "new"
    [] slot[s] = "refused" -> "refused"
    [] slot[s] = "removed" -> "over"
    [] slot[s] = "mapped" -> IF codec[s] = "map" THEN "ready" ELSE "playing"

HeldOf(s) ==
  (IF codec[s] \in {"none", "freed"} THEN {} ELSE {"codec"}) \cup
  (IF reader[s] \in {"none", "freed"} THEN {} ELSE {"reader"})

Lifecycle == INSTANCE StreamLifecycle WITH
  phase <- [s \in Streams |-> PhaseOf(s)],
  held <- [s \in Streams |-> HeldOf(s)]

\* Every behaviour of the engine is, for each stream, a behaviour of the abstract
\* lifecycle: opened, published once, played by one run, given back in order.
ImplementsLifecycle == Lifecycle!Spec
-----------------------------------------------------------------------------
(***************************************************************************)
(* Liveness, under FairSpec.                                               *)
(***************************************************************************)

\* A decode loop whose stream is cancelled, even one that is paused, ends and its
\* stream leaves the map.
StopEventuallyRemoves ==
  \A r \in Runs : \A s \in Streams :
    (pc[r] \in Loop /\ sid[r] = s /\ Cancelled(s)) ~> slot[s] = "removed"

\* A seek queued on a stream that is being played is served, unless the stream
\* ends or is paused first.
SeekIsServed ==
  \A r \in Runs : \A s \in Streams :
    (pc[r] \in Loop /\ sid[r] = s /\ seeks[s] # <<>>) ~>
      (seeks[s] = <<>> \/ status[s] = "Paused" \/ pc[r] \notin Loop)

\* After shutdown every run, also one that starts later, returns.
ShutdownQuiesces ==
  shutdown ~> \A r \in Runs : pc[r] \in {"idle", "done"}
=============================================================================
