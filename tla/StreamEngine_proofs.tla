------------------------ MODULE StreamEngine_proofs -------------------------
(***************************************************************************)
(* Proofs that StreamEngine has its safety properties, and implements      *)
(* StreamLifecycle, for all streams, runs and parameters.                  *)
(***************************************************************************)
EXTENDS StreamProperties, TLAPS

\* Everything an action preserves together.
IInv == TypeOK /\ OwnershipInvariant

\* The smaller of two numbers is a number, and at most either.
LEMMA Min2Nat ==
  ASSUME NEW a \in Nat, NEW b \in Nat
  PROVE  Min2(a, b) \in Nat /\ Min2(a, b) <= a /\ Min2(a, b) <= b
  BY DEF Min2

\* The conversions yield natural numbers, and a seek lands on one.
LEMMA MsToFramesNat ==
  ASSUME NEW p \in SeekTargets
  PROVE  MsToFrames(p) \in Nat
<1>1. p * SampleRate \in Nat
  BY ConstantsAssumption
<1> QED
  BY <1>1 DEF MsToFrames

\* A seek lands on a frame.
LEMMA SeekLandingsNat ==
  ASSUME NEW f \in Nat, NEW g \in SeekLandings(f)
  PROVE  g \in Nat
  BY ConstantsAssumption DEF SeekLandings, Min2

\* The initial state is well typed.
LEMMA InitTypeOK == Init => TypeOK
<1>1. NoHistory \in Histories
  BY ConstantsAssumption DEF NoHistory, Histories
<1>2. <<>> \in Seq(SeekTargets)
  OBVIOUS
<1>3. ASSUME Init
      PROVE  /\ slot \in [Streams -> Slots] /\ status \in [Streams -> Statuses]
             /\ active \in [Streams -> BOOLEAN] /\ lost \in [Streams -> BOOLEAN]
             /\ frames \in [Streams -> Nat] /\ cancel \in [Streams -> BOOLEAN]
             /\ codec \in [Streams -> Owners] /\ reader \in [Streams -> Owners]
             /\ media \in [Streams -> Nat]
  BY <1>3 DEF Init, Slots, Statuses, Owners
<1>4. ASSUME Init
      PROVE  /\ seeks \in [Streams -> Seq(SeekTargets)]
             /\ history \in [Streams -> Histories]
             /\ marking \subseteq Streams /\ shutdown \in BOOLEAN
             /\ deviceLost \in BOOLEAN /\ notifying \in BOOLEAN /\ dropped \in BOOLEAN
  BY <1>1, <1>2, <1>4 DEF Init
<1>5. ASSUME Init
      PROVE  /\ pc \in [Runs -> Points] /\ sid \in [Runs -> Streams \cup {NoStream}]
             /\ errs \in [Runs -> 0..MaxConsecutiveErrors] /\ failed \in [Runs -> BOOLEAN]
  BY <1>5 DEF Init, Points, MaxConsecutiveErrors
<1> QED
  BY <1>3, <1>4, <1>5 DEF TypeOK

\* Nobody owns anything at first.
LEMMA InitOwnership == Init => OwnershipInvariant
  BY ConstantsAssumption
     DEF Init, OwnershipInvariant, RunsNamed, ErrorsEndRuns, RunsHold, OneRunPerStream,
         SlotsHold, MarkingMapped, InUse, Loop, Exit, MaxConsecutiveErrors
-----------------------------------------------------------------------------
\* A step of prepare keeps the types.
LEMMA PrepareType ==
  ASSUME IInv, NEW s \in Streams, Prepare(s)
  PROVE  TypeOK'
<1> USE DEF IInv, TypeOK, streamVars, ownerVars, engineVars, runVars
<1>1. CASE OpenCodec(s)
  BY <1>1 DEF OpenCodec, Slots, Owners
<1>2. CASE OpenCodecFails(s)
  BY <1>2 DEF OpenCodecFails, Slots, Owners
<1>3. CASE RefuseStream(s)
  BY <1>3 DEF RefuseStream, Slots, Owners
<1>4. CASE InsertStream(s)
  BY <1>4 DEF InsertStream, Slots, Owners, Statuses
<1> QED
  BY <1>1, <1>2, <1>3, <1>4 DEF Prepare

\* A call of a run, and its steps under the lock, keep the types.
LEMMA CallType ==
  ASSUME IInv, NEW r \in Runs, Call(r) \/ LockStep(r)
  PROVE  TypeOK'
<1> USE DEF IInv, OwnershipInvariant, RunsNamed, TypeOK, streamVars, ownerVars, engineVars, runVars
<1>1. ASSUME NEW s \in Streams, OpenOutput(r, s) PROVE TypeOK'
  BY <1>1 DEF OpenOutput, Points, Setup
<1>2. ASSUME NEW s \in Streams, OpenOutputFails(r, s) PROVE TypeOK'
  BY <1>2 DEF OpenOutputFails, Return, Points
<1>3. CASE SetOutputSpec(r)
  BY <1>3 DEF SetOutputSpec, Return, Points, Setup
<1>4. CASE TakeResources(r)
  <2>1. sid[r] \in Streams
    BY <1>4 DEF TakeResources
  <2> QED
    BY <1>4, <2>1 DEF TakeResources, Return, Points, Loop, Owners
<1>5. CASE RemoveStream(r)
  BY <1>5 DEF RemoveStream, Return, Points, Slots
<1> QED
  BY <1>1, <1>2, <1>3, <1>4, <1>5 DEF Call, LockStep

\* Recording a block keeps the type of the history.
LEMMA HeardType ==
  ASSUME TypeOK, NEW s \in Streams, Heard(s)
  PROVE  history' \in [Streams -> Histories]
<1>1. history[s] \in Histories
  BY DEF TypeOK
<1> DEFINE p == IF status[s] = "Paused"
                THEN Min2(history[s].pausedBlocks + 1, 2) ELSE history[s].pausedBlocks
           l == IF Cancelled(s)
                THEN Min2(history[s].lateBlocks + 1, 2) ELSE history[s].lateBlocks
           h == [history[s] EXCEPT !.pausedBlocks = p, !.lateBlocks = l]
<1>2. p \in 0..2 /\ l \in 0..2
  BY <1>1 DEF Histories, Min2
<1>3. history' = [history EXCEPT ![s] = h]
  BY DEF Heard, TypeOK
<1> HIDE DEF p, l
<1>4. h \in Histories
  BY <1>1, <1>2 DEF Histories
<1> QED
  BY <1>3, <1>4 DEF TypeOK

\* Inside the loop there is room for one more decode error.
LEMMA ErrorsBelowLimit ==
  ASSUME IInv, NEW r \in Runs, pc[r] \in Loop
  PROVE  /\ errs[r] \in Nat /\ errs[r] < MaxConsecutiveErrors
         /\ errs[r] + 1 \in 0..MaxConsecutiveErrors
<1>1. pc[r] \notin Exit \cup {"done"}
  BY DEF Loop, Exit
<1>2. errs[r] \in 0..MaxConsecutiveErrors /\ errs[r] < MaxConsecutiveErrors
  BY <1>1 DEF IInv, TypeOK, OwnershipInvariant, ErrorsEndRuns
<1> QED
  BY <1>2 DEF MaxConsecutiveErrors

\* A step of the decode loop keeps the types.
LEMMA LoopType ==
  ASSUME IInv, NEW r \in Runs, LoopStep(r)
  PROVE  TypeOK'
<1> DEFINE s == sid[r]
<1>0. pc[r] \in Loop /\ s \in Streams
  <2>1. pc[r] \in Loop
    BY DEF LoopStep, StartPlaying, CheckCancelled, CheckDeviceLost, RebindAfterNotice,
           CheckPaused, ApplySeek, SeekFails, SeeksDrained, DecodeBlock, OutputLost,
           RebindAfterLost, OutputFails, DecodeEof, DecodeError, DecodePanics, Loop
  <2> QED
    BY <2>1 DEF IInv, OwnershipInvariant, RunsNamed, Loop
<1> HIDE DEF s
<1> USE <1>0 DEF IInv, TypeOK, streamVars, ownerVars, engineVars, runVars
<1>1. CASE StartPlaying(r)
  BY <1>1 DEF StartPlaying, Points, Loop, Statuses, s
<1>2. CASE CheckCancelled(r)
  BY <1>2 DEF CheckCancelled, Points, Loop, Exit, s
<1>3. CASE CheckDeviceLost(r)
  BY <1>3 DEF CheckDeviceLost, Points, Loop, Exit, Statuses, s
<1>4. CASE RebindAfterNotice(r)
  BY <1>4 DEF RebindAfterNotice, FailRun, Points, Loop, Exit, Statuses, s
<1>5. CASE CheckPaused(r)
  BY <1>5 DEF CheckPaused, AfterPauseCheck, Points, Loop, s
<1>6. CASE ApplySeek(r)
  <2>1. Head(seeks[s]) \in SeekTargets /\ Tail(seeks[s]) \in Seq(SeekTargets)
    BY <1>6 DEF ApplySeek, s
  <2>2. MsToFrames(Head(seeks[s])) \in Nat
    BY <2>1, MsToFramesNat
  <2>3. PICK g \in SeekLandings(MsToFrames(Head(seeks[s]))) :
          /\ media' = [media EXCEPT ![s] = g]
          /\ frames' = [frames EXCEPT ![s] = SeekedFrames(r, MsToFrames(Head(seeks[s])), g)]
    BY <1>6 DEF ApplySeek, s
  <2>4. g \in Nat /\ SeekedFrames(r, MsToFrames(Head(seeks[s])), g) \in Nat
    BY <2>2, SeekLandingsNat DEF SeekedFrames
  <2> QED
    BY <1>6, <2>1, <2>3, <2>4 DEF ApplySeek, Statuses, s
<1>7. CASE SeekFails(r)
  <2>1. Tail(seeks[s]) \in Seq(SeekTargets)
    BY <1>7 DEF SeekFails, s
  <2> QED
    BY <1>7, <2>1 DEF SeekFails, s
<1>8. CASE SeeksDrained(r)
  BY <1>8 DEF SeeksDrained, Points, Loop, s
<1>9. ASSUME ReadBlock(s)
      PROVE  media' \in [Streams -> Nat] /\ media[s] <= media'[s]
  BY <1>9, ConstantsAssumption DEF ReadBlock, Min2
<1>10. CASE DecodeBlock(r)
  <2>1. media' \in [Streams -> Nat] /\ media'[s] - media[s] \in Nat
    BY <1>9, <1>10 DEF DecodeBlock, s
  <2>2. history' \in [Streams -> Histories]
    BY <1>10, HeardType DEF DecodeBlock, s
  <2>3. frames' \in [Streams -> Nat]
    BY <1>10, <2>1 DEF DecodeBlock, s
  <2>4. errs' \in [Runs -> 0..MaxConsecutiveErrors] /\ pc' \in [Runs -> Points]
    BY <1>10 DEF DecodeBlock, MaxConsecutiveErrors, Points, Loop
  <2> QED
    BY <1>10, <2>1, <2>2, <2>3, <2>4 DEF DecodeBlock
<1>11. CASE OutputLost(r)
  BY <1>9, <1>11 DEF OutputLost, Points, Loop, Statuses, s
<1>12. CASE RebindAfterLost(r)
  BY <1>12 DEF RebindAfterLost, FailRun, Points, Loop, Exit, Statuses, s
<1>13. CASE OutputFails(r)
  BY <1>9, <1>13 DEF OutputFails, FailRun, Points, Exit, Statuses, s
<1>14. CASE DecodeEof(r)
  BY <1>14 DEF DecodeEof, Points, Exit, s
<1>15. CASE DecodeError(r)
  <2>1. errs[r] + 1 \in 0..MaxConsecutiveErrors
    BY ErrorsBelowLimit
  <2>2. errs' \in [Runs -> 0..MaxConsecutiveErrors]
    BY <1>15, <2>1 DEF DecodeError
  <2>3. CASE TooManyErrors(errs[r] + 1)
    BY <1>15, <2>2, <2>3 DEF DecodeError, FailRun, Points, Exit, Statuses, s
  <2>4. CASE ~TooManyErrors(errs[r] + 1)
    BY <1>15, <2>2, <2>4 DEF DecodeError, Points, Loop, s
  <2> QED
    BY <2>3, <2>4
<1>16. CASE DecodePanics(r)
  BY <1>16 DEF DecodePanics, FailRun, Points, Exit, Statuses, s
<1> QED
  BY <1>1, <1>2, <1>3, <1>4, <1>5, <1>6, <1>7, <1>8, <1>10, <1>11, <1>12, <1>13,
     <1>14, <1>15, <1>16 DEF LoopStep

\* Leaving the loop keeps the types.
LEMMA ExitType ==
  ASSUME IInv, NEW r \in Runs, ExitStep(r)
  PROVE  TypeOK'
<1>0. sid[r] \in Streams
  BY DEF ExitStep, SetFinalStatus, ClearActive, DropCodec, DropReader, IInv,
         OwnershipInvariant, RunsNamed
<1> USE <1>0 DEF IInv, TypeOK, streamVars, ownerVars, engineVars, runVars
<1>1. CASE SetFinalStatus(r)
  BY <1>1 DEF SetFinalStatus, Points, Exit, Statuses
<1>2. CASE ClearActive(r)
  BY <1>2 DEF ClearActive, Points, Exit
<1>3. CASE DropCodec(r)
  BY <1>3 DEF DropCodec, Points, Exit, Owners
<1>4. CASE DropReader(r)
  BY <1>4 DEF DropReader, Points, Exit, Owners
<1> QED
  BY <1>1, <1>2, <1>3, <1>4 DEF ExitStep

\* A client's command keeps the types.
LEMMA CommandType ==
  ASSUME IInv, NEW s \in Streams, Command(s)
  PROVE  TypeOK'
<1> USE DEF IInv, TypeOK, streamVars, ownerVars, engineVars, runVars
<1>0. history[s] \in Histories
  OBVIOUS
<1>1. CASE PauseStream(s)
  <2> DEFINE p == IF status[s] = "Paused" THEN history[s].pausedBlocks ELSE 0
             h == [history[s] EXCEPT !.pausedBlocks = p]
  <2>1. p \in 0..2
    BY <1>0 DEF Histories
  <2>2. history' = [history EXCEPT ![s] = h]
    BY <1>1 DEF PauseStream
  <2> HIDE DEF p
  <2>3. h \in Histories
    BY <1>0, <2>1 DEF Histories
  <2>4. history' \in [Streams -> Histories]
    BY <2>2, <2>3
  <2> QED
    BY <1>1, <2>4 DEF PauseStream, Statuses
<1>2. CASE ResumeStream(s)
  BY <1>2 DEF ResumeStream, Statuses
<1>3. CASE StopStream(s)
  BY <1>3 DEF StopStream, StopSet, Statuses
<1>4. CASE MarkBuffering(s)
  BY <1>4 DEF MarkBuffering, Statuses
<1>5. ASSUME NEW p \in SeekTargets, SendSeek(s, p) PROVE TypeOK'
  <2>1. Append(seeks[s], p) \in Seq(SeekTargets)
    OBVIOUS
  <2>2. history[s].seeksSent + 1 \in 0..MaxSeeks
    BY <1>0, <1>5, ConstantsAssumption DEF SendSeek, Histories
  <2>3. [history[s] EXCEPT !.seeksSent = @ + 1] \in Histories
    BY <1>0, <2>2 DEF Histories
  <2>4. history' \in [Streams -> Histories]
    BY <1>5, <2>3 DEF SendSeek
  <2> QED
    BY <1>5, <2>1, <2>4 DEF SendSeek
<1> QED
  BY <1>1, <1>2, <1>3, <1>4, <1>5 DEF Command

\* Commands to the whole engine keep the types.
LEMMA EngineType ==
  ASSUME IInv, StopAll \/ Shutdown \/ NotifyDeviceLost \/ NotifyStops \/ DropEngine
  PROVE  TypeOK'
<1> USE DEF IInv, TypeOK, streamVars, ownerVars, engineVars, runVars
<1>1. CASE StopAll
  BY <1>1 DEF StopAll, StopSet, Statuses
<1>2. CASE Shutdown
  BY <1>2 DEF Shutdown
<1>3. CASE NotifyDeviceLost
  BY <1>3 DEF NotifyDeviceLost
<1>4. CASE NotifyStops
  BY <1>4 DEF NotifyStops, StopSet, Statuses
<1>5. CASE DropEngine
  BY <1>5 DEF DropEngine, Owners, Slots
<1> QED
  BY <1>1, <1>2, <1>3, <1>4, <1>5

\* Every step keeps the types.
LEMMA StepType ==
  ASSUME IInv, [Next]_vars
  PROVE  TypeOK'
<1>1. CASE UNCHANGED vars
  BY <1>1 DEF vars, IInv, TypeOK, streamVars, ownerVars, engineVars, runVars
<1> QED
  BY <1>1, PrepareType, CallType, LoopType, ExitType, CommandType, EngineType DEF Next
-----------------------------------------------------------------------------
\* Steps that neither move resources nor runs keep the ownership invariant.
LEMMA IdleOwnership ==
  ASSUME IInv, UNCHANGED <<slot, active, codec, reader, pc, sid, errs>>,
         \A s \in marking' : slot[s] = "mapped"
  PROVE  OwnershipInvariant'
  BY DEF IInv, OwnershipInvariant, RunsNamed, ErrorsEndRuns, RunsHold, OneRunPerStream,
         SlotsHold, MarkingMapped, InUse, UsesCodec, UsesReader

\* A run that moves on inside the loop, or leaves it, still owns what it owned.
LEMMA MoveOwnership ==
  ASSUME IInv, NEW r \in Runs, pc[r] \in Loop,
         NEW x \in Loop \cup {"final"}, pc' = [pc EXCEPT ![r] = x],
         UNCHANGED <<slot, active, codec, reader, sid, marking>>,
         ErrorsEndRuns'
  PROVE  OwnershipInvariant'
<1>1. UsesCodec(r) /\ UsesReader(r) /\ InUse(r) /\ sid[r] \in Streams
  BY DEF UsesCodec, UsesReader, InUse, IInv, OwnershipInvariant, RunsNamed, Loop
<1>2. UsesCodec(r)' /\ UsesReader(r)' /\ InUse(r)'
  BY DEF UsesCodec, UsesReader, InUse, Exit, IInv, TypeOK
<1>3. \A q \in Runs : q # r => pc'[q] = pc[q]
  BY DEF IInv, TypeOK
<1>4. \A q \in Runs : /\ InUse(q)' <=> InUse(q)
                      /\ UsesCodec(q)' <=> UsesCodec(q)
                      /\ UsesReader(q)' <=> UsesReader(q)
  <2> TAKE q \in Runs
  <2>1. CASE q = r
    BY <1>1, <1>2, <2>1
  <2>2. CASE q # r
    BY <1>3, <2>2 DEF InUse, UsesCodec, UsesReader
  <2> QED
    BY <2>1, <2>2
<1>5. RunsNamed'
  BY <1>1, <1>3 DEF IInv, OwnershipInvariant, RunsNamed
<1>6. RunsHold'
  BY <1>1, <1>3, <1>4 DEF IInv, OwnershipInvariant, RunsHold, InUse, UsesCodec, UsesReader
<1>7. OneRunPerStream'
  BY <1>4 DEF IInv, OwnershipInvariant, OneRunPerStream, InUse
<1>8. SlotsHold'
  <2>1. ASSUME NEW s \in Streams, \E q \in Runs : InUse(q) /\ sid[q] = s
        PROVE  \E q \in Runs : (InUse(q) /\ sid[q] = s)'
    BY <1>4, <2>1 DEF InUse
  <2> QED
    BY <2>1 DEF IInv, OwnershipInvariant, SlotsHold
<1> QED
  BY <1>5, <1>6, <1>7, <1>8 DEF IInv, OwnershipInvariant, MarkingMapped

\* prepare hands the resources to the map, or frees them.
LEMMA PrepareOwnership ==
  ASSUME IInv, NEW s \in Streams, Prepare(s)
  PROVE  OwnershipInvariant'
<1>1. slot[s] # "mapped" /\ slot[s] # "removed"
  BY DEF Prepare, OpenCodec, OpenCodecFails, RefuseStream, InsertStream
<1>2. UNCHANGED <<pc, sid, errs, marking>>
  BY DEF Prepare, OpenCodec, OpenCodecFails, RefuseStream, InsertStream, runVars
<1>3. \A t \in Streams : t # s => /\ slot'[t] = slot[t] /\ codec'[t] = codec[t]
                                  /\ reader'[t] = reader[t] /\ active'[t] = active[t]
  BY DEF Prepare, OpenCodec, OpenCodecFails, RefuseStream, InsertStream, IInv, TypeOK, streamVars
<1>4. \A r \in Runs : InUse(r) => sid[r] \in Streams /\ sid[r] # s
  BY <1>1 DEF IInv, OwnershipInvariant, RunsHold, RunsNamed, InUse, Loop, Exit
<1>5. RunsHold'
  BY <1>2, <1>3, <1>4 DEF IInv, OwnershipInvariant, RunsHold, InUse, UsesCodec, UsesReader
<1>6. /\ slot'[s] = "opening" => codec'[s] = "opening" /\ reader'[s] = "opening"
      /\ slot'[s] = "refused" => codec'[s] \in {"none", "freed"} /\ reader'[s] = "freed"
      /\ slot'[s] = "mapped" => codec'[s] = "map" /\ reader'[s] = "map" /\ active'[s]
      /\ slot'[s] \notin {"absent", "removed"}
  BY DEF Prepare, OpenCodec, OpenCodecFails, RefuseStream, InsertStream, IInv, TypeOK,
         OwnershipInvariant, SlotsHold
<1>7. SlotsHold'
  BY <1>2, <1>3, <1>6 DEF IInv, OwnershipInvariant, SlotsHold, InUse
<1>8. MarkingMapped'
  BY <1>1, <1>2, <1>3 DEF IInv, TypeOK, OwnershipInvariant, MarkingMapped
<1> QED
  BY <1>2, <1>5, <1>7, <1>8 DEF IInv, OwnershipInvariant, RunsNamed, ErrorsEndRuns,
                                OneRunPerStream, InUse

\* Before a run owns anything it moves without touching any resource.
LEMMA SetupOwnership ==
  ASSUME IInv, NEW r \in Runs, ~InUse(r),
         NEW x \in Setup \cup {"done"}, pc' = [pc EXCEPT ![r] = x],
         sid'[r] \in Streams, \A q \in Runs : q # r => sid'[q] = sid[q],
         UNCHANGED <<slot, active, codec, reader, marking, errs>>,
         pc[r] \notin Exit \cup {"done"}
  PROVE  OwnershipInvariant'
<1>1. ~InUse(r)'
  BY DEF InUse, IInv, TypeOK, Setup, Loop, Exit
<1>2. \A q \in Runs : q # r => pc'[q] = pc[q]
  BY DEF IInv, TypeOK
<1>3. \A q \in Runs : InUse(q)' => q # r /\ InUse(q) /\ pc'[q] = pc[q] /\ sid'[q] = sid[q]
  BY <1>1, <1>2 DEF InUse
<1>4. RunsNamed'
  BY <1>2 DEF IInv, OwnershipInvariant, RunsNamed
<1>5. ErrorsEndRuns'
  BY <1>2 DEF IInv, OwnershipInvariant, ErrorsEndRuns
<1>6. RunsHold'
  BY <1>3 DEF IInv, OwnershipInvariant, RunsHold, InUse, UsesCodec, UsesReader
<1>7. OneRunPerStream'
  BY <1>3 DEF IInv, OwnershipInvariant, OneRunPerStream, InUse
<1>8. SlotsHold'
  <2>1. ASSUME NEW s \in Streams, \E q \in Runs : InUse(q) /\ sid[q] = s
        PROVE  \E q \in Runs : (InUse(q) /\ sid[q] = s)'
    BY <1>2, <2>1 DEF InUse
  <2> QED
    BY <2>1 DEF IInv, OwnershipInvariant, SlotsHold
<1> QED
  BY <1>4, <1>5, <1>6, <1>7, <1>8 DEF IInv, OwnershipInvariant, MarkingMapped

\* A run takes the resources only from the map, so nobody else has them.
LEMMA TakeOwnership ==
  ASSUME IInv, NEW r \in Runs, TakeResources(r), Available(sid[r])
  PROVE  OwnershipInvariant'
<1> DEFINE s == sid[r]
<1>1. s \in Streams /\ ~InUse(r) /\ pc[r] = "take"
  BY DEF TakeResources, IInv, OwnershipInvariant, RunsNamed, InUse, Loop, Exit
<1>2. slot[s] = "mapped" /\ codec[s] = "map"
  BY DEF Available
<1>3. \A q \in Runs : InUse(q) => sid[q] # s
  BY <1>1, <1>2, ConstantsAssumption DEF IInv, OwnershipInvariant, RunsHold
<1>4. reader[s] = "map" /\ active[s]
  BY <1>1, <1>2, <1>3 DEF IInv, OwnershipInvariant, SlotsHold
<1> HIDE DEF s
<1>5. /\ codec' = [codec EXCEPT ![s] = r]
      /\ reader' = [reader EXCEPT ![s] = r]
      /\ pc' = [pc EXCEPT ![r] = "start"]
      /\ UNCHANGED <<slot, active, marking, sid, errs>>
  BY DEF TakeResources, s, streamVars
<1>6. pc'[r] = "start" /\ sid'[r] = s /\ \A q \in Runs : q # r => pc'[q] = pc[q]
  BY <1>5 DEF IInv, TypeOK, s
<1>7. InUse(r)' /\ UsesCodec(r)' /\ UsesReader(r)'
  BY <1>6 DEF InUse, UsesCodec, UsesReader, Loop
<1>8. codec'[s] = r /\ reader'[s] = r
      /\ \A t \in Streams : t # s => codec'[t] = codec[t] /\ reader'[t] = reader[t]
  BY <1>1, <1>5 DEF IInv, TypeOK
<1>9. RunsNamed'
  BY <1>1, <1>5, <1>6 DEF IInv, OwnershipInvariant, RunsNamed
<1>10. ErrorsEndRuns'
  BY <1>1, <1>5, <1>6 DEF IInv, OwnershipInvariant, ErrorsEndRuns, Exit
<1>11. RunsHold'
  <2> SUFFICES ASSUME NEW q \in Runs, InUse(q)'
               PROVE  /\ slot'[sid'[q]] = "mapped"
                      /\ codec'[sid'[q]] = IF UsesCodec(q)' THEN q ELSE "freed"
                      /\ reader'[sid'[q]] = IF UsesReader(q)' THEN q ELSE "freed"
                      /\ pc'[q] \in Loop \cup {"final", "inactive"} => active'[sid'[q]]
    BY DEF RunsHold
  <2>1. CASE q = r
    BY <1>2, <1>4, <1>5, <1>6, <1>7, <1>8, <2>1
  <2>2. CASE q # r
    <3>1. InUse(q) /\ sid[q] # s /\ sid[q] \in Streams
      BY <1>3, <1>6, <2>2 DEF InUse, IInv, OwnershipInvariant, RunsNamed, Loop, Exit
    <3> QED
      BY <1>5, <1>6, <1>8, <2>2, <3>1
      DEF IInv, OwnershipInvariant, RunsHold, UsesCodec, UsesReader
  <2> QED
    BY <2>1, <2>2
<1>12. OneRunPerStream'
  BY <1>3, <1>5, <1>6 DEF IInv, OwnershipInvariant, OneRunPerStream, InUse
<1>13. SlotsHold'
  <2> SUFFICES ASSUME NEW t \in Streams, slot'[t] = "mapped",
                      ~(codec'[t] = "map" /\ reader'[t] = "map" /\ active'[t])
               PROVE  \E q \in Runs : (InUse(q) /\ sid[q] = t)'
    BY <1>2, <1>5, <1>8 DEF IInv, OwnershipInvariant, SlotsHold
  <2>1. CASE t = s
    BY <1>6, <1>7, <2>1
  <2>2. CASE t # s
    <3>1. PICK q \in Runs : InUse(q) /\ sid[q] = t
      BY <1>5, <1>8, <2>2 DEF IInv, OwnershipInvariant, SlotsHold
    <3>2. q # r
      BY <1>1, <3>1
    <3> QED
      BY <1>5, <1>6, <3>1, <3>2 DEF InUse
  <2> QED
    BY <2>1, <2>2
<1> QED
  BY <1>5, <1>9, <1>10, <1>11, <1>12, <1>13 DEF IInv, OwnershipInvariant, MarkingMapped

\* A stream leaves the map with both resources freed and no run left on it.
LEMMA RemoveOwnership ==
  ASSUME IInv, NEW r \in Runs, RemoveStream(r)
  PROVE  OwnershipInvariant'
<1> DEFINE s == sid[r]
<1>1. InUse(r) /\ ~UsesCodec(r) /\ ~UsesReader(r) /\ s \in Streams /\ marking = {}
  BY DEF RemoveStream, WriteLockFree, InUse, UsesCodec, UsesReader, Loop, Exit, IInv,
         OwnershipInvariant, RunsNamed
<1>2. codec[s] = "freed" /\ reader[s] = "freed"
  BY <1>1 DEF IInv, OwnershipInvariant, RunsHold
<1>3. \A q \in Runs : InUse(q) /\ q # r => sid[q] # s /\ sid[q] \in Streams
  BY <1>1 DEF IInv, OwnershipInvariant, OneRunPerStream, RunsNamed, InUse, Loop, Exit
<1> HIDE DEF s
<1>4. /\ slot' = [slot EXCEPT ![s] = "removed"]
      /\ pc' = [pc EXCEPT ![r] = "done"]
      /\ UNCHANGED <<active, codec, reader, marking, sid, errs>>
  BY DEF RemoveStream, Return, s, streamVars, ownerVars
<1>5. pc'[r] = "done" /\ \A q \in Runs : q # r => pc'[q] = pc[q]
  BY <1>4 DEF IInv, TypeOK
<1>6. ~InUse(r)'
  BY <1>5 DEF InUse, Loop, Exit
<1>7. \A q \in Runs : InUse(q)' => q # r /\ InUse(q) /\ pc'[q] = pc[q]
  BY <1>5, <1>6 DEF InUse
<1>8. slot'[s] = "removed" /\ \A t \in Streams : t # s => slot'[t] = slot[t]
  BY <1>1, <1>4 DEF IInv, TypeOK
<1>9. RunsNamed' /\ ErrorsEndRuns'
  BY <1>1, <1>4, <1>5 DEF IInv, OwnershipInvariant, RunsNamed, ErrorsEndRuns, s
<1>10. RunsHold'
  BY <1>3, <1>4, <1>7, <1>8 DEF IInv, OwnershipInvariant, RunsHold, InUse, UsesCodec, UsesReader
<1>11. OneRunPerStream'
  BY <1>4, <1>7 DEF IInv, OwnershipInvariant, OneRunPerStream, InUse
<1>12. SlotsHold'
  <2>1. ASSUME NEW t \in Streams, slot'[t] = "mapped", \E q \in Runs : InUse(q) /\ sid[q] = t
        PROVE  \E q \in Runs : (InUse(q) /\ sid[q] = t)'
    BY <1>4, <1>5, <1>8, <2>1 DEF InUse, s
  <2> QED
    BY <1>2, <1>4, <1>8, <2>1 DEF IInv, OwnershipInvariant, SlotsHold
<1> QED
  BY <1>1, <1>4, <1>9, <1>10, <1>11, <1>12 DEF OwnershipInvariant, MarkingMapped

\* A call to run and its steps under the lock keep every owner right.
LEMMA CallOwnership ==
  ASSUME IInv, NEW r \in Runs, Call(r) \/ LockStep(r)
  PROVE  OwnershipInvariant'
<1>1. CASE Call(r)
  <2> PICK s \in Streams : OpenOutput(r, s) \/ OpenOutputFails(r, s)
    BY <1>1 DEF Call
  <2>1. PICK x \in Setup \cup {"done"} : pc' = [pc EXCEPT ![r] = x]
    BY DEF OpenOutput, OpenOutputFails, Return, Setup
  <2>2. pc[r] = "idle" /\ sid' = [sid EXCEPT ![r] = s]
        /\ UNCHANGED <<slot, active, codec, reader, marking, errs>>
    BY DEF OpenOutput, OpenOutputFails, streamVars, ownerVars
  <2>3. sid'[r] \in Streams /\ (\A q \in Runs : q # r => sid'[q] = sid[q])
    BY <2>2 DEF IInv, TypeOK
  <2>4. ~InUse(r) /\ pc[r] \notin Exit \cup {"done"}
    BY <2>2 DEF InUse, Loop, Exit
  <2> QED
    BY <2>1, <2>2, <2>3, <2>4, SetupOwnership
<1>2. ASSUME pc[r] \in Setup, NEW x \in Setup \cup {"done"}, pc' = [pc EXCEPT ![r] = x],
             UNCHANGED <<slot, active, codec, reader, marking, sid, errs>>
      PROVE  OwnershipInvariant'
  <2>1. ~InUse(r) /\ pc[r] \notin Exit \cup {"done"} /\ sid'[r] \in Streams
    BY <1>2 DEF InUse, Setup, Loop, Exit, IInv, OwnershipInvariant, RunsNamed
  <2> QED
    BY <1>2, <2>1, SetupOwnership
<1>3. CASE SetOutputSpec(r)
  <2>1. PICK x \in Setup \cup {"done"} : pc' = [pc EXCEPT ![r] = x]
    BY <1>3 DEF SetOutputSpec, Return, Setup
  <2> QED
    BY <1>2, <1>3, <2>1 DEF SetOutputSpec, Setup, streamVars, ownerVars
<1>4. CASE TakeResources(r) /\ ~Available(sid[r])
  BY <1>2, <1>4 DEF TakeResources, Return, Setup, streamVars, ownerVars
<1> QED
  BY <1>1, <1>3, <1>4, TakeOwnership, RemoveOwnership DEF LockStep

\* The decode loop moves no resource.
LEMMA LoopOwnership ==
  ASSUME IInv, NEW r \in Runs, LoopStep(r)
  PROVE  OwnershipInvariant'
<1> USE DEF StartPlaying, CheckCancelled, CheckDeviceLost, RebindAfterNotice, CheckPaused,
            ApplySeek, SeekFails, SeeksDrained, DecodeBlock, OutputLost, RebindAfterLost,
            OutputFails, DecodeEof, DecodeError, DecodePanics
<1>1. pc[r] \in Loop
  BY DEF LoopStep, Loop
<1>2. UNCHANGED <<slot, active, codec, reader, sid, marking>>
  BY DEF LoopStep, streamVars, ownerVars, runVars
<1>3. PICK x \in Loop \cup {"final"} : pc' = [pc EXCEPT ![r] = x]
  <2>1. CASE pc' = pc
    BY <1>1, <2>1 DEF IInv, TypeOK
  <2>2. CASE ~(pc' = pc)
    BY <2>2 DEF LoopStep, FailRun, AfterPauseCheck, Loop, runVars
  <2> QED
    BY <2>1, <2>2
<1>4. ErrorsEndRuns'
  <2>1. \A q \in Runs : q # r => pc'[q] = pc[q] /\ errs'[q] = errs[q]
    BY <1>3 DEF LoopStep, runVars, IInv, TypeOK
  <2>2. pc'[r] \notin Exit \cup {"done"} => errs'[r] < MaxConsecutiveErrors
    <3>1. errs[r] < MaxConsecutiveErrors /\ errs[r] \in Nat
      BY <1>1, ErrorsBelowLimit
    <3>2. CASE errs' = errs
      BY <3>1, <3>2
    <3>3. CASE DecodeBlock(r)
      BY <3>3 DEF IInv, TypeOK, MaxConsecutiveErrors
    <3>4. CASE DecodeError(r)
      <4>1. errs'[r] = errs[r] + 1
        BY <3>4 DEF IInv, TypeOK
      <4>2. CASE TooManyErrors(errs[r] + 1)
        <5>1. pc'[r] = "final"
          BY <3>4, <4>2 DEF FailRun, IInv, TypeOK
        <5> QED
          BY <5>1 DEF Exit
      <4>3. CASE ~TooManyErrors(errs[r] + 1)
        BY <3>1, <4>1, <4>3 DEF TooManyErrors, MaxConsecutiveErrors
      <4> QED
        BY <4>2, <4>3
    <3> QED
      BY <3>2, <3>3, <3>4 DEF LoopStep, runVars
  <2> QED
    BY <2>1, <2>2 DEF IInv, OwnershipInvariant, ErrorsEndRuns
<1> QED
  BY <1>1, <1>2, <1>3, <1>4, MoveOwnership

\* A run on its way out frees the codec stream, then the reader.
LEMMA ExitOwnership ==
  ASSUME IInv, NEW r \in Runs, ExitStep(r)
  PROVE  OwnershipInvariant'
<1> DEFINE s == sid[r]
<1> USE DEF SetFinalStatus, ClearActive, DropCodec, DropReader, streamVars, ownerVars
<1>1. pc[r] \in Exit /\ InUse(r) /\ s \in Streams
  BY DEF ExitStep, InUse, Exit, IInv, OwnershipInvariant, RunsNamed
<1>2. \A q \in Runs : InUse(q) /\ q # r => sid[q] # s /\ sid[q] \in Streams
  BY <1>1 DEF IInv, OwnershipInvariant, OneRunPerStream, RunsNamed, InUse, Loop, Exit
<1>3. UNCHANGED <<slot, sid, errs, marking>>
  BY DEF ExitStep
<1>4. pc'[r] \in Exit /\ \A q \in Runs : q # r => pc'[q] = pc[q]
  BY DEF ExitStep, IInv, TypeOK, Exit
<1>5. \A t \in Streams : t # s => codec'[t] = codec[t] /\ reader'[t] = reader[t]
                                  /\ active'[t] = active[t]
  BY DEF ExitStep, IInv, TypeOK
<1>6. InUse(r)'
  BY <1>4 DEF InUse
<1>7. /\ slot[s] = "mapped"
      /\ codec[s] = IF UsesCodec(r) THEN r ELSE "freed"
      /\ reader[s] = IF UsesReader(r) THEN r ELSE "freed"
      /\ pc[r] \in Loop \cup {"final", "inactive"} => active[s]
  BY <1>1 DEF IInv, OwnershipInvariant, RunsHold
<1>8. /\ codec'[s] = IF UsesCodec(r)' THEN r ELSE "freed"
      /\ reader'[s] = IF UsesReader(r)' THEN r ELSE "freed"
      /\ pc'[r] \in Loop \cup {"final", "inactive"} => active'[s]
  <2> USE <1>1, <1>7 DEF IInv, TypeOK, UsesCodec, UsesReader, Loop
  <2>1. CASE SetFinalStatus(r)
    BY <2>1
  <2>2. CASE ClearActive(r)
    BY <2>2
  <2>3. CASE DropCodec(r)
    BY <2>3
  <2>4. CASE DropReader(r)
    BY <2>4
  <2> QED
    BY <2>1, <2>2, <2>3, <2>4 DEF ExitStep
<1> HIDE DEF s
<1>9. RunsNamed' /\ ErrorsEndRuns'
  BY <1>1, <1>3, <1>4 DEF IInv, OwnershipInvariant, RunsNamed, ErrorsEndRuns, s
<1>10. RunsHold'
  <2> SUFFICES ASSUME NEW q \in Runs, InUse(q)'
               PROVE  /\ slot'[sid'[q]] = "mapped"
                      /\ codec'[sid'[q]] = IF UsesCodec(q)' THEN q ELSE "freed"
                      /\ reader'[sid'[q]] = IF UsesReader(q)' THEN q ELSE "freed"
                      /\ pc'[q] \in Loop \cup {"final", "inactive"} => active'[sid'[q]]
    BY DEF RunsHold
  <2>1. CASE q = r
    BY <1>3, <1>7, <1>8, <2>1 DEF s
  <2>2. CASE q # r
    <3>1. InUse(q) /\ sid[q] # s /\ sid[q] \in Streams
      BY <1>2, <1>4, <2>2 DEF InUse
    <3> QED
      BY <1>3, <1>4, <1>5, <2>2, <3>1
      DEF IInv, OwnershipInvariant, RunsHold, UsesCodec, UsesReader
  <2> QED
    BY <2>1, <2>2
<1>11. \A q \in Runs : InUse(q)' <=> InUse(q)
  BY <1>1, <1>4, <1>6 DEF InUse
<1>12. OneRunPerStream'
  BY <1>3, <1>11 DEF IInv, OwnershipInvariant, OneRunPerStream, InUse
<1>13. SlotsHold'
  <2>1. ASSUME NEW t \in Streams, \E q \in Runs : InUse(q) /\ sid[q] = t
        PROVE  \E q \in Runs : (InUse(q) /\ sid[q] = t)'
    BY <1>3, <1>11, <2>1 DEF InUse
  <2>2. \E q \in Runs : InUse(q)' /\ sid'[q] = s
    BY <1>3, <1>6 DEF s
  <2> SUFFICES ASSUME NEW t \in Streams
               PROVE  (/\ slot[t] = "absent" => codec[t] = "none" /\ reader[t] = "none"
                       /\ slot[t] = "opening" => codec[t] = "opening" /\ reader[t] = "opening"
                       /\ slot[t] = "refused" => codec[t] \in {"none", "freed"} /\ reader[t] = "freed"
                       /\ slot[t] = "removed" => codec[t] = "freed" /\ reader[t] = "freed"
                       /\ slot[t] = "mapped" =>
                            \/ codec[t] = "map" /\ reader[t] = "map" /\ active[t]
                            \/ \E q \in Runs : InUse(q) /\ sid[q] = t)'
    BY DEF SlotsHold
  <2>3. CASE t = s
    BY <1>3, <1>7, <2>2, <2>3
  <2>4. CASE t # s
    BY <1>3, <1>5, <2>1, <2>4 DEF IInv, OwnershipInvariant, SlotsHold
  <2> QED
    BY <2>3, <2>4
<1> QED
  BY <1>3, <1>9, <1>10, <1>12, <1>13 DEF IInv, OwnershipInvariant, MarkingMapped

\* Commands touch no resource, until the engine itself is dropped.
LEMMA CommandOwnership ==
  ASSUME IInv, NEW s \in Streams, Command(s)
  PROVE  OwnershipInvariant'
<1>1. UNCHANGED <<slot, active, codec, reader, pc, sid, errs>>
  BY DEF Command, PauseStream, ResumeStream, StopStream, MarkBuffering, SendSeek,
         streamVars, ownerVars, runVars
<1>2. \A t \in marking' : slot[t] = "mapped"
  BY DEF Command, PauseStream, ResumeStream, StopStream, MarkBuffering, SendSeek,
         IInv, OwnershipInvariant, MarkingMapped
<1> QED
  BY <1>1, <1>2, IdleOwnership

\* The engine-wide operations move no resources, but for the drop.
LEMMA EngineOwnership ==
  ASSUME IInv, StopAll \/ Shutdown \/ NotifyDeviceLost \/ NotifyStops \/ DropEngine
  PROVE  OwnershipInvariant'
<1>1. CASE StopAll \/ Shutdown \/ NotifyDeviceLost \/ NotifyStops
  <2>1. UNCHANGED <<slot, active, codec, reader, pc, sid, errs, marking>>
    BY <1>1 DEF StopAll, Shutdown, NotifyDeviceLost, NotifyStops, streamVars, ownerVars, runVars
  <2> QED
    BY <2>1, IdleOwnership DEF IInv, OwnershipInvariant, MarkingMapped
<1>2. CASE DropEngine
  <2>1. \A r \in Runs : ~InUse(r) /\ ~InUse(r)'
    BY <1>2 DEF DropEngine, InUse, Loop, Exit, runVars
  <2>2. UNCHANGED <<pc, sid, errs, marking>> /\ marking = {}
    BY <1>2 DEF DropEngine, runVars
  <2>3. SlotsHold'
    BY <1>2, <2>1 DEF DropEngine, IInv, TypeOK, Slots, OwnershipInvariant, SlotsHold
  <2> QED
    BY <2>1, <2>2, <2>3 DEF IInv, OwnershipInvariant, RunsNamed, ErrorsEndRuns, RunsHold,
                            OneRunPerStream, MarkingMapped, InUse
<1> QED
  BY <1>1, <1>2

\* Every step keeps the inductive invariant.
LEMMA StepInvariant ==
  ASSUME IInv, [Next]_vars
  PROVE  IInv'
<1>1. CASE UNCHANGED vars
  BY <1>1, IdleOwnership, StepType
     DEF vars, IInv, OwnershipInvariant, MarkingMapped, streamVars, ownerVars, runVars
<1>2. CASE Next
  BY <1>2, StepType, PrepareOwnership, CallOwnership, LoopOwnership, ExitOwnership,
     CommandOwnership, EngineOwnership DEF Next, IInv
<1> QED
  BY <1>1, <1>2

\* The inductive invariant holds in every state of the engine.
THEOREM InvariantHolds == Spec => []IInv
<1>1. Init => IInv
  BY InitTypeOK, InitOwnership DEF IInv
<1>2. IInv /\ [Next]_vars => IInv'
  BY StepInvariant
<1> QED
  BY <1>1, <1>2, PTL DEF Spec
-----------------------------------------------------------------------------
(***************************************************************************)
(* What follows from the invariant.                                        *)
(***************************************************************************)

\* Every variable keeps its type; in particular a run never counts more than
\* MaxConsecutiveErrors decode errors.
THEOREM TypeCorrect == Spec => []TypeOK
<1>1. IInv => TypeOK
  BY DEF IInv
<1> QED
  BY <1>1, InvariantHolds, PTL

\* The owner of a stream's resources agrees with its place in the engine.
THEOREM OwnershipHolds == Spec => []OwnershipInvariant
<1>1. IInv => OwnershipInvariant
  BY DEF IInv
<1> QED
  BY <1>1, InvariantHolds, PTL

\* However many calls of run_stream race for a stream, each codec call is made by
\* the one run that owns the codec stream and the reader.
THEOREM SingleOwner == Spec => []LoopOwnsResources
<1>1. IInv => LoopOwnsResources
  <2> SUFFICES ASSUME IInv, NEW r \in Runs
               PROVE  /\ UsesCodec(r) => codec[sid[r]] = r
                      /\ UsesReader(r) => reader[sid[r]] = r
    BY DEF LoopOwnsResources
  <2>1. UsesCodec(r) \/ UsesReader(r) => InUse(r)
    BY DEF UsesCodec, UsesReader, InUse, Exit
  <2> QED
    BY <2>1 DEF IInv, OwnershipInvariant, RunsHold
<1> QED
  BY <1>1, InvariantHolds, PTL

\* On no path is a reader freed before the codec stream that calls into it.
THEOREM CodecFreedFirst == Spec => []ReaderOutlivesCodec
<1>1. IInv => ReaderOutlivesCodec
  <2> SUFFICES ASSUME IInv, NEW s \in Streams, reader[s] = "freed"
               PROVE  codec[s] \in {"none", "freed"}
    BY DEF ReaderOutlivesCodec
  <2>1. CASE slot[s] # "mapped"
    BY <2>1 DEF IInv, TypeOK, Slots, OwnershipInvariant, SlotsHold
  <2>2. CASE slot[s] = "mapped"
    <3>1. PICK r \in Runs : InUse(r) /\ sid[r] = s
      BY <2>2 DEF IInv, OwnershipInvariant, SlotsHold
    <3>2. r # "freed"
      BY ConstantsAssumption
    <3> QED
      BY <3>1, <3>2 DEF IInv, OwnershipInvariant, RunsHold, UsesReader
  <2> QED
    BY <2>1, <2>2
<1> QED
  BY <1>1, InvariantHolds, PTL

\* A refused stream and a removed one have given everything back.
THEOREM NoLeak == Spec => []NothingLeaks
<1>1. IInv => NothingLeaks
  BY DEF IInv, OwnershipInvariant, SlotsHold, NothingLeaks
<1> QED
  BY <1>1, InvariantHolds, PTL

\* A live decode loop's stream is where stop_stream and shutdown look for it.
THEOREM Reachable == Spec => []RunningIsReachable
<1>1. IInv => RunningIsReachable
  BY DEF IInv, OwnershipInvariant, RunsHold, RunningIsReachable, InUse
<1> QED
  BY <1>1, InvariantHolds, PTL

\* One step of RemovedIsFinal.
LEMMA RemovedStep ==
  ASSUME IInv, [Next]_vars, NEW s \in Streams, slot[s] = "removed"
  PROVE  /\ slot'[s] = "removed" /\ status'[s] = status[s]
         /\ active'[s] = active[s] /\ frames'[s] = frames[s]
<1> USE DEF streamVars, ownerVars, engineVars, runVars
<1>0. \A r \in Runs : InUse(r) => sid[r] \in Streams /\ sid[r] # s
  BY DEF IInv, OwnershipInvariant, RunsHold, RunsNamed, InUse, Loop, Exit
<1>1. CASE UNCHANGED vars
  BY <1>1 DEF vars
<1>2. ASSUME NEW t \in Streams, Prepare(t)
      PROVE  slot'[s] = "removed" /\ UNCHANGED <<status[s], active[s], frames[s]>>
  BY <1>2 DEF Prepare, OpenCodec, OpenCodecFails, RefuseStream, InsertStream, IInv, TypeOK
<1>3. ASSUME NEW t \in Streams, Command(t)
      PROVE  slot'[s] = "removed" /\ UNCHANGED <<status[s], active[s], frames[s]>>
  <2>1. slot[t] = "mapped"
    BY <1>3 DEF Command, PauseStream, ResumeStream, StopStream, MarkBuffering, SendSeek,
                IInv, OwnershipInvariant, MarkingMapped
  <2> QED
    BY <1>3, <2>1 DEF Command, PauseStream, ResumeStream, StopStream, StopSet, MarkBuffering,
                      SendSeek, IInv, TypeOK
<1>4. ASSUME NEW r \in Runs, Call(r) \/ LockStep(r)
      PROVE  slot'[s] = "removed" /\ UNCHANGED <<status[s], active[s], frames[s]>>
  <2>1. CASE RemoveStream(r)
    BY <2>1, <1>0 DEF RemoveStream, InUse, Exit, IInv, TypeOK
  <2>2. CASE ~RemoveStream(r)
    BY <1>4, <2>2 DEF Call, LockStep, OpenOutput, OpenOutputFails, SetOutputSpec, TakeResources
  <2> QED
    BY <2>1, <2>2
<1>5. ASSUME NEW r \in Runs, LoopStep(r)
      PROVE  slot'[s] = "removed" /\ UNCHANGED <<status[s], active[s], frames[s]>>
  <2> USE DEF StartPlaying, CheckCancelled, CheckDeviceLost, RebindAfterNotice, CheckPaused,
              ApplySeek, SeekFails, SeeksDrained, DecodeBlock, OutputLost, RebindAfterLost,
              OutputFails, DecodeEof, DecodeError, DecodePanics, FailRun
  <2>1. pc[r] \in Loop
    BY <1>5 DEF LoopStep, Loop
  <2>2. sid[r] # s /\ sid[r] \in Streams
    BY <1>0, <2>1 DEF InUse
  <2>3. UNCHANGED slot /\ UNCHANGED active
    BY <1>5 DEF LoopStep
  <2>4. status'[s] = status[s]
    BY <1>5, <2>2 DEF LoopStep, IInv, TypeOK
  <2>5. frames'[s] = frames[s]
    BY <1>5, <2>2 DEF LoopStep, IInv, TypeOK
  <2> QED
    BY <2>3, <2>4, <2>5
<1>6. ASSUME NEW r \in Runs, ExitStep(r)
      PROVE  slot'[s] = "removed" /\ UNCHANGED <<status[s], active[s], frames[s]>>
  <2>1. sid[r] # s /\ sid[r] \in Streams
    BY <1>0, <1>6 DEF ExitStep, SetFinalStatus, ClearActive, DropCodec, DropReader, InUse, Exit
  <2> QED
    BY <1>6, <2>1 DEF ExitStep, SetFinalStatus, ClearActive, DropCodec, DropReader, IInv, TypeOK
<1>7. CASE StopAll \/ Shutdown \/ NotifyDeviceLost \/ NotifyStops \/ DropEngine
  BY <1>7 DEF StopAll, Shutdown, NotifyDeviceLost, NotifyStops, DropEngine, StopSet, Mapped
<1> QED
  BY <1>1, <1>2, <1>3, <1>4, <1>5, <1>6, <1>7 DEF Next

\* Nothing writes to a stream that was removed.
THEOREM RemovedStays == Spec => RemovedIsFinal
<1>1. IInv /\ [Next]_vars =>
        [\A s \in Streams : slot[s] = "removed" =>
           /\ slot'[s] = "removed"
           /\ status'[s] = status[s]
           /\ active'[s] = active[s]
           /\ frames'[s] = frames[s]]_vars
  BY RemovedStep
<1> QED
  BY <1>1, InvariantHolds, PTL DEF Spec, RemovedIsFinal
-----------------------------------------------------------------------------
(***************************************************************************)
(* The engine implements StreamLifecycle.                                  *)
(***************************************************************************)

\* The abstract state before and after a step.
Phases == [s \in Streams |-> PhaseOf(s)]
Helds  == [s \in Streams |-> HeldOf(s)]

\* A step that changes the abstract state of one stream only.
LEMMA OnlyOneMoves ==
  ASSUME NEW s \in Streams,
         \A t \in Streams : t # s => /\ slot'[t] = slot[t]
                                     /\ codec'[t] = codec[t]
                                     /\ reader'[t] = reader[t]
  PROVE  /\ Phases' = [Phases EXCEPT ![s] = PhaseOf(s)']
         /\ Helds' = [Helds EXCEPT ![s] = HeldOf(s)']
<1>1. \A t \in Streams : t # s => PhaseOf(t)' = PhaseOf(t) /\ HeldOf(t)' = HeldOf(t)
  BY DEF PhaseOf, HeldOf
<1> QED
  BY <1>1 DEF Phases, Helds

\* A step that leaves map and owners alone is a stutter of the lifecycle.
LEMMA NothingMoves ==
  ASSUME UNCHANGED <<slot, codec, reader>>
  PROVE  UNCHANGED Lifecycle!vars
  BY DEF Lifecycle!vars, PhaseOf, HeldOf

\* prepare acquires, refuses and publishes.
LEMMA PrepareRefines ==
  ASSUME IInv, NEW s \in Streams, Prepare(s)
  PROVE  Lifecycle!Next
<1>0. \A t \in Streams : t # s => /\ slot'[t] = slot[t]
                                  /\ codec'[t] = codec[t]
                                  /\ reader'[t] = reader[t]
  BY DEF Prepare, OpenCodec, OpenCodecFails, RefuseStream, InsertStream, IInv, TypeOK
<1>1. CASE OpenCodec(s)
  <2>1. PhaseOf(s) = "new" /\ HeldOf(s) = {}
    BY <1>1 DEF OpenCodec, PhaseOf, HeldOf, IInv, OwnershipInvariant, SlotsHold
  <2>2. PhaseOf(s)' = "new" /\ HeldOf(s)' = {"codec", "reader"}
    BY <1>1 DEF OpenCodec, PhaseOf, HeldOf, IInv, TypeOK
  <2>3. Lifecycle!Acquire(s)
    BY <1>0, <2>1, <2>2, OnlyOneMoves DEF Lifecycle!Acquire, Lifecycle!Resources, Phases, Helds
  <2> QED
    BY <2>3 DEF Lifecycle!Next
<1>2. CASE OpenCodecFails(s) \/ RefuseStream(s)
  <2>1. PhaseOf(s) = "new"
    BY <1>2 DEF OpenCodecFails, RefuseStream, PhaseOf
  <2>2. PhaseOf(s)' = "refused" /\ HeldOf(s)' = {}
    BY <1>2 DEF OpenCodecFails, RefuseStream, PhaseOf, HeldOf, IInv, TypeOK,
                OwnershipInvariant, SlotsHold
  <2>3. Lifecycle!Refuse(s)
    BY <1>0, <2>1, <2>2, OnlyOneMoves DEF Lifecycle!Refuse, Phases, Helds
  <2> QED
    BY <2>3 DEF Lifecycle!Next
<1>3. CASE InsertStream(s)
  <2>1. PhaseOf(s) = "new" /\ HeldOf(s) = {"codec", "reader"}
    BY <1>3 DEF InsertStream, PhaseOf, HeldOf, IInv, OwnershipInvariant, SlotsHold
  <2>2. PhaseOf(s)' = "ready" /\ HeldOf(s)' = {"codec", "reader"}
    BY <1>3 DEF InsertStream, PhaseOf, HeldOf, IInv, TypeOK
  <2>3. Lifecycle!Publish(s)
    BY <1>0, <2>1, <2>2, OnlyOneMoves DEF Lifecycle!Publish, Lifecycle!Resources, Phases, Helds
  <2> QED
    BY <2>3 DEF Lifecycle!Next
<1> QED
  BY <1>1, <1>2, <1>3 DEF Prepare

\* Taking the resources plays the stream, removing it retires it.
LEMMA CallRefines ==
  ASSUME IInv, NEW r \in Runs, Call(r) \/ LockStep(r)
  PROVE  Lifecycle!Next \/ UNCHANGED Lifecycle!vars
<1>1. CASE Call(r) \/ SetOutputSpec(r) \/ (TakeResources(r) /\ ~Available(sid[r]))
  <2>1. UNCHANGED <<slot, codec, reader>>
    BY <1>1 DEF Call, OpenOutput, OpenOutputFails, SetOutputSpec, TakeResources, ownerVars
  <2> QED
    BY <2>1, NothingMoves
<1>2. CASE TakeResources(r) /\ Available(sid[r])
  <2>0. PICK s \in Streams : s = sid[r]
    BY <1>2 DEF TakeResources, IInv, OwnershipInvariant, RunsNamed
  <2>1. slot[s] = "mapped" /\ codec[s] = "map" /\ slot' = slot
        /\ codec' = [codec EXCEPT ![s] = r] /\ reader' = [reader EXCEPT ![s] = r]
    BY <1>2, <2>0 DEF TakeResources, Available
  <2>2. reader[s] = "map"
    BY <2>1, ConstantsAssumption DEF IInv, OwnershipInvariant, SlotsHold, RunsHold
  <2>3. \A t \in Streams : t # s => /\ slot'[t] = slot[t]
                                    /\ codec'[t] = codec[t]
                                    /\ reader'[t] = reader[t]
    BY <2>1 DEF IInv, TypeOK
  <2>4. PhaseOf(s) = "ready" /\ HeldOf(s) = {"codec", "reader"}
    BY <2>1, <2>2 DEF PhaseOf, HeldOf
  <2>5. PhaseOf(s)' = "playing" /\ HeldOf(s)' = {"codec", "reader"}
    BY <2>1, ConstantsAssumption DEF PhaseOf, HeldOf, IInv, TypeOK
  <2>6. Lifecycle!Play(s)
    BY <2>3, <2>4, <2>5, OnlyOneMoves DEF Lifecycle!Play, Phases, Helds
  <2> QED
    BY <2>6 DEF Lifecycle!Next
<1>3. CASE RemoveStream(r)
  <2>0. PICK s \in Streams : s = sid[r]
    BY <1>3 DEF RemoveStream, IInv, OwnershipInvariant, RunsNamed
  <2>1. slot[s] = "mapped" /\ codec[s] = "freed" /\ reader[s] = "freed"
    BY <1>3, <2>0 DEF RemoveStream, IInv, OwnershipInvariant, RunsHold, InUse, UsesCodec,
                      UsesReader, Loop, Exit
  <2>2. slot' = [slot EXCEPT ![s] = "removed"] /\ codec' = codec /\ reader' = reader
    BY <1>3, <2>0 DEF RemoveStream, ownerVars
  <2>3. \A t \in Streams : t # s => /\ slot'[t] = slot[t]
                                    /\ codec'[t] = codec[t]
                                    /\ reader'[t] = reader[t]
    BY <2>2 DEF IInv, TypeOK
  <2>4. PhaseOf(s) = "playing" /\ HeldOf(s) = {}
    BY <2>1 DEF PhaseOf, HeldOf
  <2>5. PhaseOf(s)' = "over" /\ HeldOf(s)' = {}
    BY <2>1, <2>2 DEF PhaseOf, HeldOf, IInv, TypeOK
  <2>6. Lifecycle!Retire(s)
    BY <2>3, <2>4, <2>5, OnlyOneMoves DEF Lifecycle!Retire, Phases, Helds
  <2> QED
    BY <2>6 DEF Lifecycle!Next
<1> QED
  BY <1>1, <1>2, <1>3 DEF LockStep

\* The exit of a run releases the codec stream, then the reader.
LEMMA ExitRefines ==
  ASSUME IInv, NEW r \in Runs, ExitStep(r)
  PROVE  Lifecycle!Next \/ UNCHANGED Lifecycle!vars
<1>1. CASE SetFinalStatus(r) \/ ClearActive(r)
  BY <1>1, NothingMoves DEF SetFinalStatus, ClearActive, ownerVars
<1>2. CASE DropCodec(r) \/ DropReader(r)
  <2>0. PICK s \in Streams : s = sid[r]
    BY <1>2 DEF DropCodec, DropReader, IInv, OwnershipInvariant, RunsNamed
  <2>1. slot[s] = "mapped" /\ slot' = slot /\ r \notin {"none", "opening", "map", "freed"}
    BY <1>2, <2>0, ConstantsAssumption
    DEF DropCodec, DropReader, IInv, OwnershipInvariant, RunsHold, InUse, Exit
  <2>2. \A t \in Streams : t # s => /\ slot'[t] = slot[t]
                                    /\ codec'[t] = codec[t]
                                    /\ reader'[t] = reader[t]
    BY <1>2, <2>0, <2>1 DEF DropCodec, DropReader, IInv, TypeOK
  <2>3. CASE DropCodec(r)
    <3>1. codec[s] = r /\ reader[s] = r
      <4>1. InUse(r) /\ UsesCodec(r) /\ UsesReader(r)
        BY <2>3 DEF DropCodec, InUse, UsesCodec, UsesReader, Exit
      <4> QED
        BY <2>0, <4>1 DEF IInv, OwnershipInvariant, RunsHold
    <3>2. codec'[s] = "freed" /\ reader'[s] = r
      BY <2>0, <2>3, <3>1 DEF DropCodec, IInv, TypeOK
    <3>3. PhaseOf(s) = "playing" /\ HeldOf(s) = {"codec", "reader"}
      BY <2>1, <3>1 DEF PhaseOf, HeldOf
    <3>4. PhaseOf(s)' = "playing" /\ HeldOf(s)' = {"reader"}
      BY <2>1, <3>2 DEF PhaseOf, HeldOf
    <3>5. Lifecycle!ReleaseCodec(s)
      <4>1. Phases' = [Phases EXCEPT ![s] = PhaseOf(s)'] /\ Helds' = [Helds EXCEPT ![s] = {"reader"}]
        BY <2>2, <3>4, OnlyOneMoves
      <4>2. Phases' = Phases
        BY <3>3, <3>4, <4>1 DEF Phases
      <4> QED
        BY <3>3, <4>1, <4>2 DEF Lifecycle!ReleaseCodec, Lifecycle!Resources, Phases, Helds
    <3> QED
      BY <3>5 DEF Lifecycle!Next
  <2>4. CASE DropReader(r)
    <3>1. codec[s] = "freed" /\ reader[s] = r /\ codec'[s] = "freed" /\ reader'[s] = "freed"
      BY <2>0, <2>4 DEF DropReader, IInv, TypeOK, OwnershipInvariant, RunsHold, InUse,
                        UsesCodec, UsesReader, Exit, Loop
    <3>2. PhaseOf(s) = "playing" /\ HeldOf(s) = {"reader"}
      BY <2>1, <3>1 DEF PhaseOf, HeldOf
    <3>3. PhaseOf(s)' = "playing" /\ HeldOf(s)' = {}
      BY <2>1, <3>1 DEF PhaseOf, HeldOf
    <3>4. Lifecycle!ReleaseReader(s)
      BY <2>2, <3>2, <3>3, OnlyOneMoves DEF Lifecycle!ReleaseReader, Phases, Helds
    <3> QED
      BY <3>4 DEF Lifecycle!Next
  <2> QED
    BY <1>2, <2>3, <2>4
<1> QED
  BY <1>1, <1>2 DEF ExitStep

\* Dropping the engine closes what was ready; nothing was playing.
LEMMA DropRefines ==
  ASSUME IInv, DropEngine
  PROVE  Lifecycle!Next
<1>1. \A s \in Streams : slot[s] = "mapped" => codec[s] = "map" /\ reader[s] = "map"
  BY DEF DropEngine, IInv, OwnershipInvariant, SlotsHold, InUse, Loop, Exit
<1>2. \A s \in Streams : PhaseOf(s) # "playing"
  BY <1>1 DEF PhaseOf, IInv, TypeOK, Slots
<1>3. \A s \in Streams : PhaseOf(s)' = IF PhaseOf(s) = "ready" THEN "over" ELSE PhaseOf(s)
  <2> TAKE s \in Streams
  <2>1. CASE slot[s] = "mapped"
    BY <1>1, <2>1 DEF DropEngine, PhaseOf
  <2>2. CASE slot[s] # "mapped"
    BY <2>2 DEF DropEngine, PhaseOf, IInv, TypeOK, Slots
  <2> QED
    BY <2>1, <2>2
<1>4. \A s \in Streams : HeldOf(s)' = IF PhaseOf(s) = "ready" THEN {} ELSE HeldOf(s)
  <2> TAKE s \in Streams
  <2>1. CASE slot[s] = "mapped"
    BY <1>1, <2>1 DEF DropEngine, PhaseOf, HeldOf
  <2>2. CASE slot[s] # "mapped"
    <3>1. codec[s] # "map" /\ reader[s] # "map"
      BY <2>2 DEF IInv, TypeOK, Slots, OwnershipInvariant, SlotsHold
    <3>2. PhaseOf(s) # "ready"
      BY <2>2 DEF PhaseOf, IInv, TypeOK, Slots
    <3> QED
      BY <3>1, <3>2 DEF DropEngine, HeldOf
  <2> QED
    BY <2>1, <2>2
<1>5. Lifecycle!Close
  BY <1>2, <1>3, <1>4 DEF Lifecycle!Close
<1> QED
  BY <1>5 DEF Lifecycle!Next

\* Every behaviour of the engine is a behaviour of the abstract lifecycle.
THEOREM Refinement == Spec => ImplementsLifecycle
<1>1. Init => Lifecycle!Init
  BY DEF Init, Lifecycle!Init, PhaseOf, HeldOf
<1>2. IInv /\ [Next]_vars => [Lifecycle!Next]_(Lifecycle!vars)
  <2> SUFFICES ASSUME IInv, [Next]_vars
               PROVE  Lifecycle!Next \/ UNCHANGED Lifecycle!vars
    OBVIOUS
  <2>1. CASE UNCHANGED vars
    BY <2>1, NothingMoves DEF vars, ownerVars
  <2>2. ASSUME NEW s \in Streams, Command(s) PROVE UNCHANGED Lifecycle!vars
    BY <2>2, NothingMoves
    DEF Command, PauseStream, ResumeStream, StopStream, MarkBuffering, SendSeek, ownerVars
  <2>3. ASSUME NEW r \in Runs, LoopStep(r) PROVE UNCHANGED Lifecycle!vars
    BY <2>3, NothingMoves
    DEF LoopStep, StartPlaying, CheckCancelled, CheckDeviceLost, RebindAfterNotice, CheckPaused,
        ApplySeek, SeekFails, SeeksDrained, DecodeBlock, OutputLost, RebindAfterLost,
        OutputFails, DecodeEof, DecodeError, DecodePanics, ownerVars
  <2>4. CASE StopAll \/ Shutdown \/ NotifyDeviceLost \/ NotifyStops
    BY <2>4, NothingMoves DEF StopAll, Shutdown, NotifyDeviceLost, NotifyStops, ownerVars
  <2> QED
    BY <2>1, <2>2, <2>3, <2>4, PrepareRefines, CallRefines, ExitRefines, DropRefines DEF Next
<1> QED
  BY <1>1, <1>2, InvariantHolds, PTL DEF Spec, ImplementsLifecycle, Lifecycle!Spec
=============================================================================
