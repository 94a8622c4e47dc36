----------------------- MODULE StreamPlayback_proofs ------------------------
(***************************************************************************)
(* Proofs that pause and stop take hold, and that the position a client    *)
(* sees never runs ahead of the codec.  Each property is strengthened to   *)
(* one that the loop's program points preserve.                            *)
(***************************************************************************)
EXTENDS StreamEngine_proofs

\* Once a block has slipped past a pause, the loop is before its check again.
PauseInv ==
  \A s \in Streams : status[s] = "Paused" =>
    /\ history[s].pausedBlocks <= 1
    /\ history[s].pausedBlocks = 1 =>
         \A r \in Runs : sid[r] = s => pc[r] \notin {"drain", "decode"}

\* Once a block has slipped past a stop, the loop is at its check again, and the
\* stream's resources are not in the map for another run to take.
StopInv ==
  \A s \in Streams :
    /\ history[s].lateBlocks <= 1
    /\ history[s].lateBlocks = 1 =>
         /\ Cancelled(s)
         /\ codec[s] \notin {"none", "opening", "map"}
         /\ \A r \in Runs : sid[r] = s /\ pc[r] \in Loop => pc[r] = "cancelled"

\* A run names its stream once, so a stream an asynchronous run has named stays
\* exempt from PositionNotAhead.
PositionInv ==
  /\ \A r \in Runs : pc[r] = "idle" => sid[r] = NoStream
  /\ PositionNotAhead

\* What a decoded block adds to the history of its stream, and of no other.
LEMMA HeardCounts ==
  ASSUME IInv, NEW s \in Streams, Heard(s)
  PROVE  /\ history'[s].pausedBlocks = IF status[s] = "Paused"
                                       THEN Min2(history[s].pausedBlocks + 1, 2)
                                       ELSE history[s].pausedBlocks
         /\ history'[s].lateBlocks = IF Cancelled(s)
                                     THEN Min2(history[s].lateBlocks + 1, 2)
                                     ELSE history[s].lateBlocks
         /\ \A t \in Streams : t # s => history'[t] = history[t]
  BY DEF Heard, IInv, TypeOK, Histories

\* The counters of the history are bounded.
LEMMA CountsAreSmall ==
  ASSUME IInv, NEW s \in Streams
  PROVE  history[s].pausedBlocks \in 0..2 /\ history[s].lateBlocks \in 0..2
<1>1. history[s] \in Histories
  BY DEF IInv, TypeOK
<1> QED
  BY <1>1 DEF Histories
-----------------------------------------------------------------------------
(***************************************************************************)
(* Pause takes hold.                                                       *)
(***************************************************************************)

\* A step that stores no Paused, leaves the history alone and brings no run to
\* the far side of the check keeps PauseInv.
LEMMA PauseQuiet ==
  ASSUME IInv, PauseInv, UNCHANGED history,
         \A s \in Streams : status'[s] = "Paused" => status[s] = "Paused",
         \A r \in Runs : pc'[r] \in {"drain", "decode"} =>
            /\ sid'[r] = sid[r]
            /\ \/ pc[r] \in {"drain", "decode"}
               \/ status'[sid[r]] # "Paused"
  PROVE  PauseInv'
  BY DEF PauseInv

\* The decode loop.
LEMMA PauseLoop ==
  ASSUME IInv, PauseInv, NEW r \in Runs, LoopStep(r)
  PROVE  PauseInv'
<1> USE DEF streamVars, ownerVars, engineVars, runVars
<1>0. pc[r] \in Loop /\ sid[r] \in Streams
  <2>1. pc[r] \in Loop
    BY DEF LoopStep, StartPlaying, CheckCancelled, CheckDeviceLost, RebindAfterNotice,
           CheckPaused, ApplySeek, SeekFails, SeeksDrained, DecodeBlock, OutputLost,
           RebindAfterLost, OutputFails, DecodeEof, DecodeError, DecodePanics, Loop
  <2> QED
    BY <2>1 DEF IInv, OwnershipInvariant, RunsNamed, Loop
<1>1. CASE DecodeBlock(r)
  <2> DEFINE s == sid[r]
  <2>1. \A q \in Runs : q # r /\ sid[q] = s => pc[q] \notin {"drain", "decode"}
    <3>1. \A q \in Runs : pc[q] \in {"drain", "decode"} => InUse(q)
      BY DEF InUse, Loop
    <3> QED
      BY <1>0, <3>1 DEF IInv, OwnershipInvariant, OneRunPerStream, InUse
  <2>2. pc'[r] = "cancelled" /\ \A q \in Runs : q # r => pc'[q] = pc[q]
    BY <1>1 DEF DecodeBlock, IInv, TypeOK
  <2>3. UNCHANGED <<status, sid>> /\ Heard(s) /\ pc[r] = "decode"
    BY <1>1 DEF DecodeBlock
  <2>4. history[s].pausedBlocks \in 0..2
    BY <1>0, CountsAreSmall
  <2>5. status[s] = "Paused" => history'[s].pausedBlocks <= 1
    <3>1. status[s] = "Paused" => history[s].pausedBlocks = 0
      BY <1>0, <2>3, <2>4 DEF PauseInv
    <3>2. status[s] = "Paused" =>
            history'[s].pausedBlocks = Min2(history[s].pausedBlocks + 1, 2)
      BY <1>0, <2>3, HeardCounts
    <3> QED
      BY <3>1, <3>2 DEF Min2
  <2> SUFFICES ASSUME NEW t \in Streams, status'[t] = "Paused"
               PROVE  /\ history'[t].pausedBlocks <= 1
                      /\ history'[t].pausedBlocks = 1 =>
                           \A q \in Runs : sid'[q] = t => pc'[q] \notin {"drain", "decode"}
    BY DEF PauseInv
  <2>6. CASE t = s
    BY <2>1, <2>2, <2>3, <2>5, <2>6
  <2>7. CASE t # s
    <3>1. history'[t] = history[t]
      BY <1>0, <2>3, <2>7, HeardCounts
    <3> QED
      BY <2>2, <2>3, <2>7, <3>1 DEF PauseInv
  <2> QED
    BY <2>6, <2>7
<1>2. CASE CheckPaused(r)
  BY <1>0, <1>2, PauseQuiet DEF CheckPaused, AfterPauseCheck, IInv, TypeOK
<1>3. CASE LoopStep(r) /\ ~DecodeBlock(r) /\ ~CheckPaused(r)
  <2> USE DEF StartPlaying, CheckCancelled, CheckDeviceLost, RebindAfterNotice,
              ApplySeek, SeekFails, SeeksDrained, OutputLost, RebindAfterLost,
              OutputFails, DecodeEof, DecodeError, DecodePanics, FailRun
  <2>1. UNCHANGED <<history, sid>>
    BY <1>3 DEF LoopStep
  <2>2. \A s \in Streams : status'[s] = "Paused" => status[s] = "Paused"
    BY <1>0, <1>3 DEF LoopStep, IInv, TypeOK
  <2>3. \A q \in Runs : pc'[q] \in {"drain", "decode"} => pc[q] \in {"drain", "decode"}
    BY <1>3 DEF LoopStep, IInv, TypeOK
  <2> QED
    BY <2>1, <2>2, <2>3, PauseQuiet
<1> QED
  BY <1>1, <1>2, <1>3

\* Every step keeps what is known of a paused stream.
LEMMA PauseStep ==
  ASSUME IInv, PauseInv, [Next]_vars
  PROVE  PauseInv'
<1> USE DEF streamVars, ownerVars, engineVars, runVars
<1>1. CASE UNCHANGED vars
  BY <1>1 DEF vars, PauseInv
<1>2. ASSUME NEW s \in Streams, Prepare(s) PROVE PauseInv'
  BY <1>2, PauseQuiet DEF Prepare, OpenCodec, OpenCodecFails, RefuseStream, InsertStream,
                          IInv, TypeOK
<1>3. ASSUME NEW s \in Streams, Command(s) PROVE PauseInv'
  <2>1. CASE PauseStream(s)
    <3>1. history'[s].pausedBlocks = IF status[s] = "Paused" THEN history[s].pausedBlocks ELSE 0
      BY <2>1 DEF PauseStream, IInv, TypeOK, Histories
    <3>2. \A t \in Streams : t # s => history'[t] = history[t] /\ status'[t] = status[t]
      BY <2>1 DEF PauseStream, IInv, TypeOK
    <3>3. UNCHANGED <<pc, sid>>
      BY <2>1 DEF PauseStream
    <3> QED
      BY <3>1, <3>2, <3>3 DEF PauseInv
  <2>2. CASE ~PauseStream(s)
    <3>1. UNCHANGED <<pc, sid>>
      BY <1>3, <2>2 DEF Command, ResumeStream, StopStream, MarkBuffering, SendSeek
    <3>2. \A t \in Streams : status'[t] = "Paused" => status[t] = "Paused"
      BY <1>3, <2>2 DEF Command, ResumeStream, StopStream, StopSet, MarkBuffering, SendSeek,
                        IInv, TypeOK
    <3>3. \A t \in Streams : history'[t].pausedBlocks = history[t].pausedBlocks
      <4>1. CASE ResumeStream(s)
        BY <4>1 DEF ResumeStream, IInv, TypeOK, Histories
      <4>2. ASSUME NEW p \in SeekTargets, SendSeek(s, p)
            PROVE  \A t \in Streams : history'[t].pausedBlocks = history[t].pausedBlocks
        BY <4>2 DEF SendSeek, IInv, TypeOK, Histories
      <4>3. CASE StopStream(s) \/ MarkBuffering(s)
        BY <4>3 DEF StopStream, MarkBuffering
      <4> QED
        BY <1>3, <2>2, <4>1, <4>2, <4>3 DEF Command
    <3> QED
      BY <3>1, <3>2, <3>3 DEF PauseInv
  <2> QED
    BY <2>1, <2>2
<1>4. ASSUME NEW r \in Runs, Call(r) \/ LockStep(r) PROVE PauseInv'
  <2>1. \A q \in Runs : pc'[q] \in {"drain", "decode"} => q # r /\ pc'[q] = pc[q] /\ sid'[q] = sid[q]
    BY <1>4 DEF Call, LockStep, OpenOutput, OpenOutputFails, SetOutputSpec, TakeResources,
                RemoveStream, Return, IInv, TypeOK
  <2>2. UNCHANGED <<history, status>>
    BY <1>4 DEF Call, LockStep, OpenOutput, OpenOutputFails, SetOutputSpec, TakeResources,
                RemoveStream
  <2> QED
    BY <2>1, <2>2, PauseQuiet
<1>5. ASSUME NEW r \in Runs, ExitStep(r) PROVE PauseInv'
  <2>1. \A q \in Runs : pc'[q] \in {"drain", "decode"} => pc'[q] = pc[q]
    BY <1>5 DEF ExitStep, SetFinalStatus, ClearActive, DropCodec, DropReader, IInv, TypeOK
  <2>2. UNCHANGED <<history, sid>>
    BY <1>5 DEF ExitStep, SetFinalStatus, ClearActive, DropCodec, DropReader
  <2>3. \A t \in Streams : status'[t] = "Paused" => status[t] = "Paused"
    BY <1>5 DEF ExitStep, SetFinalStatus, ClearActive, DropCodec, DropReader, IInv, TypeOK
  <2> QED
    BY <2>1, <2>2, <2>3, PauseQuiet
<1>6. CASE StopAll \/ Shutdown \/ NotifyDeviceLost \/ NotifyStops \/ DropEngine
  BY <1>6, PauseQuiet
  DEF StopAll, Shutdown, NotifyDeviceLost, NotifyStops, DropEngine, StopSet
<1> QED
  BY <1>1, <1>2, <1>3, <1>4, <1>5, <1>6, PauseLoop DEF Next

\* While a stream stays Paused at most one block, the one already past the check
\* in its decode loop, reaches the output.
THEOREM PauseHolds == Spec => []PauseTakesHold
<1>1. Init => PauseInv
  BY DEF Init, PauseInv
<1>2. IInv /\ PauseInv /\ [Next]_vars => PauseInv'
  BY PauseStep
<1>3. PauseInv => PauseTakesHold
  BY DEF PauseInv, PauseTakesHold
<1> QED
  BY <1>1, <1>2, <1>3, InvariantHolds, PTL DEF Spec
-----------------------------------------------------------------------------
(***************************************************************************)
(* Stop takes hold.                                                        *)
(***************************************************************************)

\* A cancelled stream stays cancelled.
LEMMA CancelIsFinal ==
  ASSUME IInv, [Next]_vars, NEW s \in Streams, Cancelled(s)
  PROVE  Cancelled(s)'
<1> USE DEF streamVars, ownerVars, engineVars, runVars
<1>1. (cancel[s] => cancel'[s]) /\ (shutdown => shutdown')
  <2>1. CASE UNCHANGED vars
    BY <2>1 DEF vars
  <2>2. ASSUME NEW t \in Streams, Prepare(t) \/ Command(t)
        PROVE  (cancel[s] => cancel'[s]) /\ UNCHANGED shutdown
    BY <2>2 DEF Prepare, OpenCodec, OpenCodecFails, RefuseStream, InsertStream, Command,
                PauseStream, ResumeStream, StopStream, StopSet, MarkBuffering, SendSeek
  <2>3. ASSUME NEW r \in Runs, Call(r) \/ LockStep(r) \/ ExitStep(r)
        PROVE  UNCHANGED <<cancel, shutdown>>
    BY <2>3 DEF Call, LockStep, OpenOutput, OpenOutputFails, SetOutputSpec, TakeResources,
                RemoveStream, ExitStep, SetFinalStatus, ClearActive, DropCodec, DropReader
  <2>4. ASSUME NEW r \in Runs, LoopStep(r)
        PROVE  UNCHANGED <<cancel, shutdown>>
    BY <2>4 DEF LoopStep, StartPlaying, CheckCancelled, CheckDeviceLost, RebindAfterNotice,
                CheckPaused, ApplySeek, SeekFails, SeeksDrained, DecodeBlock, OutputLost,
                RebindAfterLost, OutputFails, DecodeEof, DecodeError, DecodePanics
  <2>5. CASE StopAll \/ Shutdown \/ NotifyDeviceLost \/ NotifyStops \/ DropEngine
    <3>1. CASE StopAll \/ NotifyStops
      <4>1. UNCHANGED shutdown /\ StopSet(Mapped)
        BY <3>1 DEF StopAll, NotifyStops
      <4>2. cancel'[s] = (cancel[s] \/ s \in Mapped)
        BY <4>1 DEF StopSet
      <4> QED
        BY <4>1, <4>2, Zenon
    <3>2. CASE NotifyDeviceLost
      BY <3>2 DEF NotifyDeviceLost
    <3>3. CASE Shutdown \/ DropEngine
      <4>1. cancel' = cancel
        BY <3>3 DEF Shutdown, DropEngine
      <4>2. shutdown' = TRUE
        BY <3>3 DEF Shutdown, DropEngine
      <4> QED
        BY <4>1, <4>2
    <3> QED
      BY <2>5, <3>1, <3>2, <3>3
  <2> QED
    BY <2>1, <2>2, <2>3, <2>4, <2>5 DEF Next
<1> QED
  BY <1>1 DEF Cancelled

\* A step that records no late block, gives no codec stream back to the map and
\* brings no run of a stopped stream further keeps StopInv.
LEMMA StopQuiet ==
  ASSUME IInv, StopInv, [Next]_vars,
         \A s \in Streams : history'[s].lateBlocks = history[s].lateBlocks,
         \A s \in Streams : codec[s] \notin {"none", "opening", "map"} =>
                             codec'[s] \notin {"none", "opening", "map"},
         \A r \in Runs : pc'[r] \in Loop =>
            /\ sid'[r] = sid[r]
            /\ \/ pc'[r] = pc[r] \/ pc'[r] = "cancelled"
               \/ sid[r] \in Streams => history[sid[r]].lateBlocks # 1
  PROVE  StopInv'
<1> SUFFICES ASSUME NEW s \in Streams
             PROVE  /\ history'[s].lateBlocks <= 1
                    /\ history'[s].lateBlocks = 1 =>
                         /\ Cancelled(s)'
                         /\ codec'[s] \notin {"none", "opening", "map"}
                         /\ \A r \in Runs : sid'[r] = s /\ pc'[r] \in Loop => pc'[r] = "cancelled"
  BY DEF StopInv
<1>1. history'[s].lateBlocks = 1 => Cancelled(s)'
  BY CancelIsFinal DEF StopInv
<1> QED
  BY <1>1 DEF StopInv

\* A step of the loop lets at most one block past a stop.
LEMMA StopLoop ==
  ASSUME IInv, StopInv, NEW r \in Runs, LoopStep(r), [Next]_vars
  PROVE  StopInv'
<1> USE DEF streamVars, ownerVars, engineVars, runVars
<1> DEFINE s == sid[r]
<1>0. pc[r] \in Loop /\ s \in Streams
  <2>1. pc[r] \in Loop
    BY DEF LoopStep, StartPlaying, CheckCancelled, CheckDeviceLost, RebindAfterNotice,
           CheckPaused, ApplySeek, SeekFails, SeeksDrained, DecodeBlock, OutputLost,
           RebindAfterLost, OutputFails, DecodeEof, DecodeError, DecodePanics, Loop
  <2> QED
    BY <2>1 DEF IInv, OwnershipInvariant, RunsNamed, Loop
<1>1. CASE DecodeBlock(r)
  <2>1. \A q \in Runs : q # r /\ sid[q] = s => pc[q] \notin Loop
    BY <1>0 DEF IInv, OwnershipInvariant, OneRunPerStream, InUse
  <2>2. pc'[r] = "cancelled" /\ \A q \in Runs : q # r => pc'[q] = pc[q]
    BY <1>1 DEF DecodeBlock, IInv, TypeOK
  <2>3. UNCHANGED <<codec, sid, cancel, shutdown>> /\ Heard(s) /\ pc[r] = "decode"
    BY <1>1 DEF DecodeBlock
  <2>4. history[s].lateBlocks = 0
    <3>1. history[s].lateBlocks # 1 /\ history[s].lateBlocks <= 1
      BY <1>0, <2>3 DEF StopInv
    <3>2. history[s].lateBlocks \in 0..2
      BY <1>0, CountsAreSmall
    <3> QED
      BY <3>1, <3>2
  <2>5. codec[s] \notin {"none", "opening", "map"}
    <3>1. codec[s] = r
      BY <1>0 DEF IInv, OwnershipInvariant, RunsHold, InUse, UsesCodec
    <3> QED
      BY <3>1, ConstantsAssumption
  <2>6. history'[s].lateBlocks <= 1 /\ (history'[s].lateBlocks = 1 => Cancelled(s))
    BY <1>0, <2>3, <2>4, HeardCounts DEF Min2
  <2> SUFFICES ASSUME NEW t \in Streams
               PROVE  /\ history'[t].lateBlocks <= 1
                      /\ history'[t].lateBlocks = 1 =>
                           /\ Cancelled(t)'
                           /\ codec'[t] \notin {"none", "opening", "map"}
                           /\ \A q \in Runs : sid'[q] = t /\ pc'[q] \in Loop => pc'[q] = "cancelled"
    BY DEF StopInv
  <2>7. CASE t = s
    BY <2>1, <2>2, <2>3, <2>5, <2>6, <2>7 DEF Cancelled
  <2>8. CASE t # s
    <3>1. history'[t] = history[t]
      BY <1>0, <2>3, <2>8, HeardCounts
    <3> QED
      BY <2>2, <2>3, <2>8, <3>1 DEF StopInv, Cancelled
  <2> QED
    BY <2>7, <2>8
<1>2. CASE ~DecodeBlock(r)
  <2> USE DEF StartPlaying, CheckCancelled, CheckDeviceLost, RebindAfterNotice, CheckPaused,
              ApplySeek, SeekFails, SeeksDrained, OutputLost, RebindAfterLost,
              OutputFails, DecodeEof, DecodeError, DecodePanics
  <2>1. UNCHANGED <<history, codec, sid>>
    BY <1>2 DEF LoopStep
  <2>2. \A q \in Runs : q # r => pc'[q] = pc[q]
    BY <1>2 DEF LoopStep, FailRun, IInv, TypeOK
  <2>3. history[s].lateBlocks = 1 => pc[r] = "cancelled" /\ Cancelled(s)
    BY <1>0 DEF StopInv
  <2>4. pc'[r] \in Loop => pc'[r] = pc[r] \/ history[s].lateBlocks # 1
    <3>1. CASE CheckCancelled(r)
      BY <2>3, <3>1 DEF IInv, TypeOK, Loop
    <3>2. CASE ~CheckCancelled(r)
      BY <1>2, <2>3, <3>2 DEF LoopStep
    <3> QED
      BY <3>1, <3>2
  <2> QED
    BY <2>1, <2>2, <2>4, StopQuiet
<1> QED
  BY <1>1, <1>2

\* So does every other step.
LEMMA StopStep ==
  ASSUME IInv, StopInv, [Next]_vars
  PROVE  StopInv'
<1> USE DEF streamVars, ownerVars, engineVars, runVars
<1>1. CASE UNCHANGED vars
  BY <1>1, StopQuiet DEF vars
<1>2. ASSUME NEW s \in Streams, Prepare(s) PROVE StopInv'
  <2>1. codec[s] \in {"none", "opening"}
    BY <1>2 DEF Prepare, OpenCodec, OpenCodecFails, RefuseStream, InsertStream, IInv,
                OwnershipInvariant, SlotsHold
  <2>2. UNCHANGED <<history, pc, sid>>
    BY <1>2 DEF Prepare, OpenCodec, OpenCodecFails, RefuseStream, InsertStream
  <2>3. \A t \in Streams : t # s => codec'[t] = codec[t]
    BY <1>2 DEF Prepare, OpenCodec, OpenCodecFails, RefuseStream, InsertStream, IInv, TypeOK
  <2> QED
    BY <2>1, <2>2, <2>3, StopQuiet
<1>3. ASSUME NEW s \in Streams, Command(s) PROVE StopInv'
  <2>1. UNCHANGED <<pc, sid, codec>>
    BY <1>3 DEF Command, PauseStream, ResumeStream, StopStream, MarkBuffering, SendSeek
  <2>2. \A t \in Streams : history'[t].lateBlocks = history[t].lateBlocks
    <3>1. CASE PauseStream(s)
      BY <3>1 DEF PauseStream, IInv, TypeOK, Histories
    <3>2. CASE ResumeStream(s)
      BY <3>2 DEF ResumeStream, IInv, TypeOK, Histories
    <3>3. ASSUME NEW p \in SeekTargets, SendSeek(s, p)
          PROVE  \A t \in Streams : history'[t].lateBlocks = history[t].lateBlocks
      BY <3>3 DEF SendSeek, IInv, TypeOK, Histories
    <3>4. CASE StopStream(s) \/ MarkBuffering(s)
      BY <3>4 DEF StopStream, MarkBuffering
    <3> QED
      BY <1>3, <3>1, <3>2, <3>3, <3>4 DEF Command
  <2> QED
    BY <2>1, <2>2, StopQuiet
<1>4. ASSUME NEW r \in Runs, Call(r) \/ LockStep(r) PROVE StopInv'
  <2>1. UNCHANGED history
    BY <1>4 DEF Call, LockStep, OpenOutput, OpenOutputFails, SetOutputSpec, TakeResources,
                RemoveStream
  <2>2. CASE TakeResources(r) /\ Available(sid[r])
    <3>1. sid[r] \in Streams /\ codec[sid[r]] = "map"
      BY <2>2 DEF TakeResources, Available, IInv, OwnershipInvariant, RunsNamed
    <3>2. history[sid[r]].lateBlocks # 1
      BY <3>1 DEF StopInv
    <3>3. UNCHANGED sid /\ \A q \in Runs : q # r => pc'[q] = pc[q]
      BY <2>2 DEF TakeResources, IInv, TypeOK
    <3>4. \A t \in Streams : codec'[t] = codec[t] \/ codec'[t] = r
      BY <2>2 DEF TakeResources, IInv, TypeOK
    <3> QED
      BY <2>1, <3>2, <3>3, <3>4, StopQuiet, ConstantsAssumption
  <2>3. CASE ~(TakeResources(r) /\ Available(sid[r]))
    <3>1. UNCHANGED codec
      BY <1>4, <2>3 DEF Call, LockStep, OpenOutput, OpenOutputFails, SetOutputSpec,
                        TakeResources, RemoveStream
    <3>2. \A q \in Runs : pc'[q] \in Loop => pc'[q] = pc[q] /\ sid'[q] = sid[q]
      BY <1>4, <2>3 DEF Call, LockStep, OpenOutput, OpenOutputFails, SetOutputSpec,
                        TakeResources, RemoveStream, Return, IInv, TypeOK, Loop
    <3> QED
      BY <2>1, <3>1, <3>2, StopQuiet
  <2> QED
    BY <2>2, <2>3
<1>5. ASSUME NEW r \in Runs, ExitStep(r) PROVE StopInv'
  <2>1. UNCHANGED <<history, sid>>
    BY <1>5 DEF ExitStep, SetFinalStatus, ClearActive, DropCodec, DropReader
  <2>2. \A t \in Streams : codec'[t] = codec[t] \/ codec'[t] = "freed"
    BY <1>5 DEF ExitStep, SetFinalStatus, ClearActive, DropCodec, DropReader, IInv, TypeOK
  <2>3. \A q \in Runs : pc'[q] \in Loop => pc'[q] = pc[q]
    BY <1>5 DEF ExitStep, SetFinalStatus, ClearActive, DropCodec, DropReader, IInv, TypeOK, Loop
  <2> QED
    BY <2>1, <2>2, <2>3, StopQuiet
<1>6. CASE StopAll \/ Shutdown \/ NotifyDeviceLost \/ NotifyStops \/ DropEngine
  <2>1. UNCHANGED <<history, pc, sid>>
    BY <1>6 DEF StopAll, Shutdown, NotifyDeviceLost, NotifyStops, DropEngine
  <2>2. \A t \in Streams : codec'[t] = codec[t] \/ codec'[t] = "freed"
    BY <1>6 DEF StopAll, Shutdown, NotifyDeviceLost, NotifyStops, DropEngine
  <2> QED
    BY <2>1, <2>2, StopQuiet
<1> QED
  BY <1>1, <1>2, <1>3, <1>4, <1>5, <1>6, StopLoop DEF Next

\* After stop_stream or shutdown at most one more block of a stream is heard.
THEOREM StopHolds == Spec => []StopTakesHold
<1>1. Init => StopInv
  <2>1. ASSUME Init, NEW s \in Streams PROVE history[s].lateBlocks = 0
    BY <2>1 DEF Init, NoHistory
  <2>2. ~(0 = 1) /\ 0 <= 1
    OBVIOUS
  <2> QED
    BY <2>1, <2>2, Zenon DEF StopInv
<1>2. IInv /\ StopInv /\ [Next]_vars => StopInv'
  BY StopStep
<1>3. StopInv => StopTakesHold
  BY DEF StopInv, StopTakesHold
<1> QED
  BY <1>1, <1>2, <1>3, InvariantHolds, PTL DEF Spec
-----------------------------------------------------------------------------
(***************************************************************************)
(* The position never runs ahead.                                          *)
(***************************************************************************)

\* A step that keeps the frame counters, or lets only the codec advance.
LEMMA PositionQuiet ==
  ASSUME IInv, PositionInv,
         \A s \in Streams : frames'[s] <= frames[s] /\ media[s] <= media'[s]
                            /\ frames'[s] \in Nat /\ media'[s] \in Nat,
         \A r \in Runs : /\ pc'[r] = "idle" => pc[r] = "idle"
                         /\ sid'[r] = sid[r] \/ (pc[r] = "idle" /\ pc'[r] # "idle")
  PROVE  PositionInv'
<1>1. \A r \in Runs : pc'[r] = "idle" => sid'[r] = NoStream
  BY DEF PositionInv
<1>2. \A r \in Runs, s \in Streams : sid[r] = s => sid'[r] = s
  BY ConstantsAssumption DEF PositionInv
<1>3. \A s \in Streams : frames[s] <= media[s] => frames'[s] <= media'[s]
  BY DEF IInv, TypeOK
<1>4. PositionNotAhead'
  <2> SUFFICES ASSUME NEW s \in Streams, ~\E r \in AsyncRuns : sid'[r] = s
               PROVE  frames'[s] <= media'[s]
    BY DEF PositionNotAhead
  <2>1. ~\E r \in AsyncRuns : sid[r] = s
    BY <1>2, ConstantsAssumption
  <2> QED
    BY <1>3, <2>1 DEF PositionInv, PositionNotAhead
<1> QED
  BY <1>1, <1>4 DEF PositionInv

\* A step of the loop keeps the position behind the codec.
LEMMA PositionLoop ==
  ASSUME IInv, IInv', PositionInv, NEW r \in Runs, LoopStep(r)
  PROVE  PositionInv'
<1> USE DEF streamVars, ownerVars, engineVars, runVars
<1> DEFINE s == sid[r]
<1>0. pc[r] \in Loop /\ s \in Streams
  <2>1. pc[r] \in Loop
    BY DEF LoopStep, StartPlaying, CheckCancelled, CheckDeviceLost, RebindAfterNotice,
           CheckPaused, ApplySeek, SeekFails, SeeksDrained, DecodeBlock, OutputLost,
           RebindAfterLost, OutputFails, DecodeEof, DecodeError, DecodePanics, Loop
  <2> QED
    BY <2>1 DEF IInv, OwnershipInvariant, RunsNamed, Loop
<1>1. UNCHANGED sid
  BY DEF LoopStep, StartPlaying, CheckCancelled, CheckDeviceLost, RebindAfterNotice,
         CheckPaused, ApplySeek, SeekFails, SeeksDrained, DecodeBlock, OutputLost,
         RebindAfterLost, OutputFails, DecodeEof, DecodeError, DecodePanics
<1>2. \A q \in Runs : pc'[q] = "idle" => pc[q] = "idle"
  BY SMTT(60) DEF LoopStep, StartPlaying, CheckCancelled, CheckDeviceLost, RebindAfterNotice,
         CheckPaused, AfterPauseCheck, ApplySeek, SeekFails, SeeksDrained, DecodeBlock, OutputLost,
         RebindAfterLost, OutputFails, DecodeEof, DecodeError, DecodePanics, FailRun, IInv, TypeOK
<1>3. ASSUME \A t \in Streams : t # s => frames'[t] = frames[t] /\ media'[t] = media[t],
             (r \in AsyncRuns) \/ frames'[s] <= media'[s] \/ frames[s] > media[s]
      PROVE  PositionInv'
  BY <1>0, <1>1, <1>2, <1>3, SMTT(60) DEF PositionInv, PositionNotAhead, IInv, TypeOK
<1>4. CASE ApplySeek(r)
  <2>1. PICK g : /\ media' = [media EXCEPT ![s] = g]
                 /\ frames' = [frames EXCEPT ![s] = SeekedFrames(r, MsToFrames(Head(seeks[s])), g)]
    BY <1>4 DEF ApplySeek
  <2>2. \A t \in Streams : t # s => frames'[t] = frames[t] /\ media'[t] = media[t]
    BY <2>1 DEF IInv, TypeOK
  <2>3. media'[s] = g /\ frames'[s] = SeekedFrames(r, MsToFrames(Head(seeks[s])), g)
    BY <1>0, <2>1 DEF IInv, TypeOK
  <2>4. media'[s] \in Nat
    BY <1>0 DEF IInv, TypeOK
  <2>5. r \in AsyncRuns \/ frames'[s] <= media'[s]
    BY <2>3, <2>4 DEF SeekedFrames
  <2> QED
    BY <1>3, <2>2, <2>5
<1>5. CASE DecodeBlock(r)
  <2>1. \A t \in Streams : t # s => frames'[t] = frames[t] /\ media'[t] = media[t]
    BY <1>5 DEF DecodeBlock, ReadBlock, IInv, TypeOK
  <2>2. frames'[s] = frames[s] + (media'[s] - media[s])
    BY <1>0, <1>5 DEF DecodeBlock, IInv, TypeOK
  <2>3. frames[s] \in Nat /\ media[s] \in Nat /\ media'[s] \in Nat
    BY <1>0 DEF IInv, TypeOK
  <2>4. frames'[s] <= media'[s] \/ frames[s] > media[s]
    BY <2>2, <2>3
  <2> QED
    BY <1>3, <2>1, <2>4
<1>6. CASE OutputLost(r) \/ OutputFails(r)
  <2>1. UNCHANGED frames /\ ReadBlock(s)
    BY <1>6 DEF OutputLost, OutputFails
  <2>2. \A t \in Streams : media[t] <= media'[t]
    BY <1>0, <2>1, ConstantsAssumption DEF ReadBlock, Min2, IInv, TypeOK
  <2> QED
    BY <1>1, <1>2, <2>1, <2>2, PositionQuiet DEF IInv, TypeOK
<1>7. CASE ~(ApplySeek(r) \/ DecodeBlock(r) \/ OutputLost(r) \/ OutputFails(r))
  <2>1. UNCHANGED <<frames, media>>
    BY <1>7 DEF LoopStep, StartPlaying, CheckCancelled, CheckDeviceLost, RebindAfterNotice,
                CheckPaused, SeekFails, SeeksDrained, RebindAfterLost, DecodeEof, DecodeError,
                DecodePanics
  <2> QED
    BY <1>1, <1>2, <2>1, PositionQuiet DEF IInv, TypeOK
<1> QED
  BY <1>4, <1>5, <1>6, <1>7

\* So does every other step.
LEMMA PositionStep ==
  ASSUME IInv, IInv', PositionInv, [Next]_vars
  PROVE  PositionInv'
<1> USE DEF streamVars, ownerVars, engineVars, runVars
<1>0. \A s \in Streams : frames[s] \in Nat /\ media[s] \in Nat
                         /\ frames'[s] \in Nat /\ media'[s] \in Nat
  BY DEF IInv, TypeOK
<1>1. CASE UNCHANGED vars
  BY <1>0, <1>1, PositionQuiet DEF vars
<1>2. ASSUME NEW s \in Streams, Prepare(s) PROVE PositionInv'
  <2>1. UNCHANGED <<pc, sid, media>>
    BY <1>2 DEF Prepare, OpenCodec, OpenCodecFails, RefuseStream, InsertStream
  <2>2. \A t \in Streams : frames'[t] = frames[t] \/ frames'[t] = 0
    BY <1>2 DEF Prepare, OpenCodec, OpenCodecFails, RefuseStream, InsertStream, IInv, TypeOK
  <2> QED
    BY <1>0, <2>1, <2>2, PositionQuiet
<1>3. ASSUME NEW s \in Streams, Command(s) PROVE PositionInv'
  <2>1. UNCHANGED <<pc, sid, media, frames>>
    BY <1>3 DEF Command, PauseStream, ResumeStream, StopStream, MarkBuffering, SendSeek
  <2> QED
    BY <1>0, <2>1, PositionQuiet
<1>4. ASSUME NEW r \in Runs, Call(r) \/ LockStep(r) \/ ExitStep(r) PROVE PositionInv'
  <2>1. UNCHANGED <<media, frames>>
    BY <1>4 DEF Call, LockStep, OpenOutput, OpenOutputFails, SetOutputSpec, TakeResources,
                RemoveStream, ExitStep, SetFinalStatus, ClearActive, DropCodec, DropReader
  <2>2. \A q \in Runs : /\ pc'[q] = "idle" => pc[q] = "idle"
                        /\ sid'[q] = sid[q] \/ (pc[q] = "idle" /\ pc'[q] # "idle")
    BY <1>4, ZenonT(60) DEF Call, LockStep, OpenOutput, OpenOutputFails, SetOutputSpec, TakeResources,
                RemoveStream, Return, ExitStep, SetFinalStatus, ClearActive, DropCodec,
                DropReader, IInv, TypeOK
  <2> QED
    BY <1>0, <2>1, <2>2, PositionQuiet
<1>5. CASE StopAll \/ Shutdown \/ NotifyDeviceLost \/ NotifyStops \/ DropEngine
  <2>1. UNCHANGED <<pc, sid, media, frames>>
    BY <1>5 DEF StopAll, Shutdown, NotifyDeviceLost, NotifyStops, DropEngine
  <2> QED
    BY <1>0, <2>1, PositionQuiet
<1> QED
  BY <1>1, <1>2, <1>3, <1>4, <1>5, PositionLoop DEF Next

\* The position of a stream that run_stream plays lags what its codec produced
\* by the blocks lost in rebinds, and never leads it.
THEOREM PositionHolds == Spec => []PositionNotAhead
<1>1. Init => PositionInv
  BY DEF Init, PositionInv, PositionNotAhead
<1>2. IInv /\ IInv' /\ PositionInv /\ [Next]_vars => PositionInv'
  BY PositionStep
<1>3. PositionInv => PositionNotAhead
  BY DEF PositionInv
<1> QED
  BY <1>1, <1>2, <1>3, InvariantHolds, PTL DEF Spec
=============================================================================
