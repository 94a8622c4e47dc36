------------------------- MODULE IpcCommands_proofs -------------------------
(***************************************************************************)
(* For any number of streams, clients and peers, the answer to a status of *)
(* all streams leaves out none that was there all the time.                *)
(***************************************************************************)
EXTENDS IpcCommandProperties, FiniteSetTheorems, TLAPS

Loops == {"none", "prepared", "top", "asleep", "decoding", "writing", "ending",
          "ended", "inactive", "gone", "failed", "dead"}
Statuses == {"Stopped", "Buffering", "Playing", "Paused", "Error"}
StreamState == [on : {"ipc", "main"}, mapped : BOOLEAN, active : BOOLEAN,
                cancel : BOOLEAN, status : Statuses, seeks : BOOLEAN, loop : Loops]
Names == {"none", "pause", "resume", "seek", "mark", "status"}
Command == [name : Names, sid : StreamIds \cup {None}, ids : SUBSET StreamIds,
            listed : SUBSET StreamIds, kept : SUBSET StreamIds]

CommandTypes ==
  /\ stream \in [StreamIds -> StreamState]
  /\ cmd \in Command
  /\ shut \in BOOLEAN

\* What a status of all streams has still to look at, and what it has listed,
\* are between them everything that was never removed since it began; and what
\* was never removed is in the map.
StatusProgress ==
  cmd.name = "status" => /\ cmd.kept \subseteq Mapped
                         /\ cmd.kept \subseteq cmd.ids \cup cmd.listed

StatusInv == CommandTypes /\ StatusProgress

\* Engine::sole_stream_id returns the id of a stream, or none.
LEMMA SoleIsAStream == Sole \in StreamIds \cup {None}
<1>1. CASE Cardinality(Active) = 1
  <2>1. Active # {}
    BY <1>1, FS_EmptySet
  <2>2. Active \subseteq StreamIds
    BY DEF Active, Mapped
  <2> QED
    BY <1>1, <2>1, <2>2 DEF Sole
<1>2. CASE Cardinality(Active) # 1
  BY <1>2 DEF Sole
<1> QED
  BY <1>1, <1>2

\* Before anything runs, no status is under way.
LEMMA StatusInit == Init => StatusInv
<1> SUFFICES ASSUME Init PROVE StatusInv
  OBVIOUS
<1>1. Fresh \in StreamState
  BY DEF Fresh, StreamState, Loops, Statuses
<1>2. Idle \in Command
  BY DEF Idle, Command, Names
<1> QED
  BY <1>1, <1>2 DEF Init, StatusInv, CommandTypes, StatusProgress, Idle

\* A step that takes no stream out of the map and leaves the command alone.
LEMMA SameCommand ==
  ASSUME StatusInv, shut' \in BOOLEAN, stream' \in [StreamIds -> StreamState],
         cmd' = cmd, \A s \in StreamIds : stream[s].mapped => stream'[s].mapped
  PROVE  StatusInv'
  BY DEF StatusInv, CommandTypes, StatusProgress, Mapped

\* A step after which no status is under way.
LEMMA OtherCommand ==
  ASSUME StatusInv, shut' \in BOOLEAN, stream' \in [StreamIds -> StreamState],
         cmd' \in Command, cmd'.name # "status"
  PROVE  StatusInv'
  BY DEF StatusInv, CommandTypes, StatusProgress

\* One stream's fields change, and it stays in the map.
LEMMA OneStream ==
  ASSUME StatusInv, NEW s \in StreamIds, NEW r \in StreamState,
         stream' = [stream EXCEPT ![s] = r], stream[s].mapped => r.mapped
  PROVE  /\ stream' \in [StreamIds -> StreamState]
         /\ \A t \in StreamIds : stream[t].mapped => stream'[t].mapped
  BY DEF StatusInv, CommandTypes

\* The steps of the decode loops but the removal only change the fields of a
\* stream that stays in the map.
LEMMA LoopSteps ==
  ASSUME StatusInv, NEW s \in StreamIds,
         \/ Run(s) \/ Top(s) \/ Decoded(s) \/ Written(s)
         \/ Finish(s) \/ Deactivate(s) \/ Fails(s)
  PROVE  StatusInv'
<1> USE DEF StatusInv, CommandTypes, StreamState, Loops, Statuses
<1>1. /\ stream' \in [StreamIds -> StreamState]
      /\ \A t \in StreamIds : stream[t].mapped => stream'[t].mapped
  <2>1. CASE Run(s)
    BY <2>1 DEF Run
  <2>2. CASE Top(s)
    <3>1. CASE stream' = stream
      BY <3>1
    <3>2. CASE stream' = [stream EXCEPT ![s].loop = "ending"]
      BY <3>2
    <3>3. CASE stream' = [stream EXCEPT ![s].loop = "asleep"]
      BY <3>3
    <3>4. CASE stream' = [stream EXCEPT ![s].loop = "dead", ![s].seeks = FALSE]
      <4>1. stream' = [stream EXCEPT ![s] = [stream[s] EXCEPT !.loop = "dead", !.seeks = FALSE]]
        BY <3>4
      <4>2. [stream[s] EXCEPT !.loop = "dead", !.seeks = FALSE] \in StreamState
        OBVIOUS
      <4> QED
        BY <4>1, <4>2, OneStream
    <3>5. CASE \E st \in {stream[s].status, "Playing"} :
                 stream' = [stream EXCEPT ![s].loop = "decoding", ![s].seeks = FALSE,
                                          ![s].status = st]
      <4>1. PICK st \in Statuses :
              stream' = [stream EXCEPT ![s].loop = "decoding", ![s].seeks = FALSE,
                                       ![s].status = st]
        BY <3>5
      <4>2. stream' = [stream EXCEPT ![s] = [stream[s] EXCEPT !.loop = "decoding", !.seeks = FALSE, !.status = st]]
        BY <4>1
      <4>3. [stream[s] EXCEPT !.loop = "decoding", !.seeks = FALSE, !.status = st] \in StreamState
        OBVIOUS
      <4> QED
        BY <4>2, <4>3, OneStream
    <3> QED
      BY <2>2, <3>1, <3>2, <3>3, <3>4, <3>5 DEF Top, Panic
  <2>3. CASE Decoded(s)
    <3>1. PICK next \in Loops : stream' = [stream EXCEPT ![s].loop = next]
      BY <2>3 DEF Decoded
    <3> QED
      BY <3>1
  <2>4. CASE Written(s)
    BY <2>4 DEF Written
  <2>5. CASE Finish(s)
    <3>1. stream' = [stream EXCEPT ![s] = [stream[s] EXCEPT !.loop = "ended", !.status = "Stopped"]]
      BY <2>5 DEF Finish
    <3>2. [stream[s] EXCEPT !.loop = "ended", !.status = "Stopped"] \in StreamState
      OBVIOUS
    <3> QED
      BY <3>1, <3>2, OneStream
  <2>6. CASE Deactivate(s)
    <3>1. stream' = [stream EXCEPT ![s] = [stream[s] EXCEPT !.loop = "inactive", !.active = FALSE]]
      BY <2>6 DEF Deactivate
    <3>2. [stream[s] EXCEPT !.loop = "inactive", !.active = FALSE] \in StreamState
      OBVIOUS
    <3> QED
      BY <3>1, <3>2, OneStream
  <2>7. CASE Fails(s)
    <3>1. stream' = [stream EXCEPT ![s] = [stream[s] EXCEPT !.loop = "ended", !.status = "Error"]]
      BY <2>7 DEF Fails
    <3>2. [stream[s] EXCEPT !.loop = "ended", !.status = "Error"] \in StreamState
      OBVIOUS
    <3> QED
      BY <3>1, <3>2, OneStream
  <2> QED
    BY <2>1, <2>2, <2>3, <2>4, <2>5, <2>6, <2>7
<1>2. cmd' = cmd /\ shut' = shut
  BY DEF Run, Top, Decoded, Written, Finish, Deactivate, Fails
<1> QED
  BY <1>1, <1>2, SameCommand

\* The removal takes the stream from the map and from what was never removed.
LEMMA RemoveStep ==
  ASSUME StatusInv, NEW s \in StreamIds, Remove(s)
  PROVE  StatusInv'
<1> USE DEF StatusInv, CommandTypes, StreamState, Loops, Statuses, Command, Remove
<1>1. stream' \in [StreamIds -> StreamState] /\ shut' \in BOOLEAN
  <2>1. stream' = [stream EXCEPT ![s] = [stream[s] EXCEPT !.loop = "gone", !.mapped = FALSE]]
    OBVIOUS
  <2>2. [stream[s] EXCEPT !.loop = "gone", !.mapped = FALSE] \in StreamState
    OBVIOUS
  <2> QED
    BY <2>1, <2>2
<1>2. /\ cmd' \in Command /\ cmd'.name = cmd.name /\ cmd'.ids = cmd.ids
      /\ cmd'.listed = cmd.listed /\ cmd'.kept = cmd.kept \ {s}
  OBVIOUS
<1>3. Mapped' = Mapped \ {s}
  BY DEF Mapped
<1> QED
  BY <1>1, <1>2, <1>3 DEF StatusProgress

\* What prepare, stop_stream, shutdown and a store of the status do to the map.
LEMMA EngineCalls ==
  ASSUME StatusInv,
         \/ \E on \in {"ipc", "main"} : Prepared(on)
         \/ \E S \in SUBSET StreamIds : StopThose(S)
         \/ Shutdown
         \/ \E sid \in StreamIds \cup {None}, st \in Statuses : SetStatus(sid, st)
  PROVE  /\ stream' \in [StreamIds -> StreamState]
         /\ \A t \in StreamIds : stream[t].mapped => stream'[t].mapped
<1> USE DEF StatusInv, CommandTypes, StreamState, Loops, Statuses
<1>1. ASSUME NEW on \in {"ipc", "main"}, Prepared(on)
      PROVE  /\ stream' \in [StreamIds -> StreamState]
             /\ \A t \in StreamIds : stream[t].mapped => stream'[t].mapped
  BY <1>1 DEF Prepared
<1>2. ASSUME NEW S \in SUBSET StreamIds, StopThose(S)
      PROVE  /\ stream' \in [StreamIds -> StreamState]
             /\ \A t \in StreamIds : stream[t].mapped => stream'[t].mapped
  BY <1>2, ZenonT(60) DEF StopThose
<1>3. ASSUME Shutdown
      PROVE  /\ stream' \in [StreamIds -> StreamState]
             /\ \A t \in StreamIds : stream[t].mapped => stream'[t].mapped
  BY <1>3, ZenonT(60) DEF Shutdown
<1>4. ASSUME NEW sid \in StreamIds \cup {None}, NEW st \in Statuses, SetStatus(sid, st)
      PROVE  /\ stream' \in [StreamIds -> StreamState]
             /\ \A t \in StreamIds : stream[t].mapped => stream'[t].mapped
  BY <1>4 DEF SetStatus, Mapped
<1> QED
  BY <1>1, <1>2, <1>3, <1>4

\* The handlers of one peer.
LEMMA HandlerSteps ==
  ASSUME StatusInv, NEW c \in Everyone, Handler(c)
  PROVE  StatusInv'
<1> USE DEF engineVars, peerVars
<1>0. /\ Idle \in Command /\ Idle.name # "status"
      /\ stream \in [StreamIds -> StreamState] /\ cmd \in Command /\ shut \in BOOLEAN
  BY DEF Idle, Command, Names, StatusInv, CommandTypes
<1>1. CASE Resolve(c)
  <2>1. stream' = stream /\ shut' = shut
    BY <1>1 DEF Resolve
  <2>2. cmd' \in Command /\ cmd'.name # "status"
    <3>1. CASE cmd' = Idle
      BY <1>0, <3>1
    <3>2. CASE \E name \in {"pause", "resume", "seek"} :
                 cmd' = [Idle EXCEPT !.name = name, !.sid = Sole]
      BY <1>0, <3>2, SoleIsAStream DEF Idle, Command, Names
    <3> QED
      BY <1>1, <3>1, <3>2 DEF Resolve, Answered, Leave, Wait
  <2> QED
    BY <1>0, <2>1, <2>2, OtherCommand
<1>2. CASE HandlePlay(c)
  <2>1. cmd' = Idle /\ shut' = shut
    BY <1>2 DEF HandlePlay, Answered, Leave
  <2>2. Prepared("ipc") \/ stream' = stream
    BY <1>2 DEF HandlePlay
  <2> QED
    BY <1>0, <2>1, <2>2, EngineCalls, OtherCommand
<1>3. CASE MarkBuffering(c)
  <2>1. cmd' = Idle /\ shut' = shut /\ SetStatus(cmd.sid, "Buffering")
    BY <1>3 DEF MarkBuffering, Answered, Leave
  <2>2. cmd.sid \in StreamIds \cup {None} /\ "Buffering" \in Statuses
    BY <1>0 DEF Command, Statuses
  <2> QED
    BY <1>0, <2>1, <2>2, EngineCalls, OtherCommand
<1>4. CASE HandleStop(c)
  <2>1. cmd' = Idle /\ shut' = shut
    BY <1>4 DEF HandleStop, Answered, Leave
  <2>2. \E S \in SUBSET StreamIds : StopThose(S)
    BY <1>4 DEF HandleStop
  <2> QED
    BY <1>0, <2>1, <2>2, EngineCalls, OtherCommand
<1>5. CASE HandleStatus(c)
  <2>1. stream' = stream /\ shut' = shut
    BY <1>5 DEF HandleStatus
  <2>2. CASE cmd' = Idle
    BY <1>0, <2>1, <2>2, OtherCommand
  <2>3. CASE cmd' = [Idle EXCEPT !.name = "status", !.ids = Mapped, !.kept = Mapped]
    <3>1. /\ cmd' \in Command /\ cmd'.ids = Mapped /\ cmd'.kept = Mapped
      BY <1>0, <2>3 DEF Idle, Command, Names, Mapped
    <3>2. Mapped' = Mapped
      BY <2>1 DEF Mapped
    <3> QED
      BY <1>0, <2>1, <3>1, <3>2 DEF StatusInv, CommandTypes, StatusProgress
  <2> QED
    BY <1>5, <2>2, <2>3 DEF HandleStatus, Answered, Leave, Wait
<1>6. CASE ListStreams(c)
  <2>1. stream' = stream /\ shut' = shut /\ cmd.name = "status"
    BY <1>6 DEF ListStreams, Pending
  <2>2. PICK s \in cmd.ids :
          cmd' = [cmd EXCEPT !.ids = @ \ {s},
                             !.listed = IF s \in Mapped THEN @ \cup {s} ELSE @]
    BY <1>6 DEF ListStreams, Wait
  <2>3. Mapped' = Mapped /\ s \in StreamIds
    BY <1>0, <2>1 DEF Mapped, Command
  <2>4. /\ cmd' \in Command /\ cmd'.name = cmd.name /\ cmd'.kept = cmd.kept
        /\ cmd'.ids = cmd.ids \ {s}
        /\ cmd'.listed = IF s \in Mapped THEN cmd.listed \cup {s} ELSE cmd.listed
    BY <1>0, <2>2, <2>3 DEF Command
  <2> QED
    BY <1>0, <2>1, <2>3, <2>4 DEF StatusInv, CommandTypes, StatusProgress
<1>7. CASE ListEnds(c) \/ HandleCodecs(c) \/ HandleLoadBytes(c) \/ HandleCleanup(c)
  <2>1. cmd' = Idle /\ stream' = stream /\ shut' = shut
    BY <1>7 DEF ListEnds, HandleCodecs, HandleLoadBytes, HandleCleanup, Answered, Leave
  <2> QED
    BY <1>0, <2>1, OtherCommand
<1>8. CASE HandleShutdown(c)
  <2>1. cmd' = Idle /\ Shutdown /\ shut' = TRUE
    BY <1>8 DEF HandleShutdown, Leave, Shutdown
  <2> QED
    BY <1>0, <2>1, EngineCalls, OtherCommand
<1>9. ASSUME NEW sid \in StreamIds, HandlePause(c, sid) \/ HandleResume(c, sid)
      PROVE  StatusInv'
  <2>1. cmd' = Idle /\ shut' = shut
    BY <1>9 DEF HandlePause, HandleResume, Answered, Leave
  <2>2. \E st \in Statuses : SetStatus(sid, st)
    BY <1>9 DEF HandlePause, HandleResume, Statuses
  <2> QED
    BY <1>0, <2>1, <2>2, EngineCalls, OtherCommand
<1>10. ASSUME NEW sid \in StreamIds, HandleSeek(c, sid)
       PROVE  StatusInv'
  <2>1. shut' = shut
    BY <1>10 DEF HandleSeek
  <2>2. stream' = stream \/ stream' = [stream EXCEPT ![sid].seeks = TRUE]
    BY <1>10 DEF HandleSeek
  <2>3. stream' \in [StreamIds -> StreamState]
    BY <1>0, <2>2 DEF StreamState
  <2>4. cmd' = Idle \/ cmd' = [Idle EXCEPT !.name = "mark", !.sid = sid]
    BY <1>10 DEF HandleSeek, Answered, Leave, Wait
  <2>5. cmd' \in Command /\ cmd'.name # "status"
    BY <1>0, <2>4 DEF Idle, Command, Names
  <2> QED
    BY <1>0, <2>1, <2>3, <2>5, OtherCommand
<1> QED
  BY <1>1, <1>2, <1>3, <1>4, <1>5, <1>6, <1>7, <1>8, <1>9, <1>10 DEF Handler

\* Every step keeps the progress of a status.
LEMMA StatusStep == StatusInv /\ [Next]_vars => StatusInv'
<1> SUFFICES ASSUME StatusInv, [Next]_vars PROVE StatusInv'
  OBVIOUS
<1> USE DEF engineVars, peerVars
<1>0. stream \in [StreamIds -> StreamState] /\ shut \in BOOLEAN
  BY DEF StatusInv, CommandTypes
<1>1. ASSUME NEW s \in StreamIds, StreamStep(s) \/ Fails(s) PROVE StatusInv'
  BY <1>1, LoopSteps, RemoveStep DEF StreamStep
<1>2. CASE MainPrepare
  BY <1>0, <1>2, EngineCalls, SameCommand DEF MainPrepare
<1>3. CASE MainOver
  <2>1. cmd' = cmd /\ Shutdown /\ shut' = TRUE
    BY <1>3 DEF MainOver, Shutdown
  <2> QED
    BY <2>1, EngineCalls, SameCommand
<1>4. CASE Interrupt
  <2>1. cmd' = cmd /\ shut' \in BOOLEAN
    BY <1>0, <1>4 DEF Interrupt, Shutdown
  <2>2. Shutdown \/ StopThose(StreamIds)
    BY <1>4 DEF Interrupt
  <2> QED
    BY <2>1, <2>2, EngineCalls, SameCommand
<1>5. ASSUME NEW c \in Everyone,
             Send(c) \/ Accept(c) \/ Refuse(c) \/ Again(c) \/ Close(c)
      PROVE  StatusInv'
  BY <1>0, <1>5, SameCommand DEF Send, Accept, Refuse, Again, Close
<1>6. ASSUME NEW c \in Everyone, Handler(c) PROVE StatusInv'
  BY <1>6, HandlerSteps
<1>7. CASE Exit \/ UNCHANGED vars
  BY <1>0, <1>7, SameCommand DEF Exit, vars
<1> QED
  BY <1>1, <1>2, <1>3, <1>4, <1>5, <1>6, <1>7 DEF Next

\* The answer to a status of all streams leaves out no stream that was in the
\* map all the time the command took (handle_status), whatever the decode
\* loops, the main thread, a signal and the other commands do meanwhile.
THEOREM StatusLeavesOutNothing == Spec => []StatusMissesNothing
<1>1. StatusInv => StatusMissesNothing
  BY DEF StatusInv, StatusProgress, StatusMissesNothing
<1> QED
  BY StatusInit, StatusStep, <1>1, PTL DEF Spec
=============================================================================
