------------------------------ MODULE IpcCommands ---------------------------
(***************************************************************************)
(* The commands of one process that runs an engine.  `around serve` has    *)
(* one thread: a tokio runtime that runs the listeners, the command        *)
(* handlers and the decode loops of the streams they start.  `around play` *)
(* has the same on a second thread, next to the main thread that plays the *)
(* track it was started for.                                               *)
(*                                                                         *)
(* A task gives the runtime's thread up only at an await; a handler has    *)
(* none.  So only the main thread's stream, and a signal, come between the *)
(* steps of a handler.  Positions, devices and rebinds are the subject of  *)
(* StreamEngine and MediaPath; how the process starts and how its callers  *)
(* find it is the subject of IpcService.                                   *)
(***************************************************************************)
EXTENDS Naturals, Sequences, FiniteSets

CONSTANTS
  MaxStreams,    \* bound: streams prepared in one behaviour
  MaxSends,      \* bound: requests in one behaviour, the track `around play`
                 \* is started for counted with the messages sent
  Clients,       \* peers that connect to the stream listener
  Peers,         \* peers that send datagrams
  Programs,      \* what the process may be: serve, play
  None           \* no stream named; nobody on the thread; no message

ASSUME CommandsAssumption ==
  /\ MaxStreams \in Nat \ {0} /\ MaxSends \in Nat \ {0}
  /\ Programs \subseteq {"serve", "play"}
  /\ Clients \cap Peers = {}

VARIABLES
  proc,      \* the process: running, exited or aborted
  main,      \* main thread of `around play`; "none" in `around serve`
  shut,      \* Engine::shutdown_token
  stream,    \* the streams map and the decode loops
  nextId,    \* next_stream_id
  thread,    \* the task that has the runtime's thread, or None
  cmd,       \* the command being handled
  conn,      \* each peer's connection or datagram
  wire,      \* the message that opens it, until the listener has seen it
  listen,    \* each listener: waiting, busy with a peer, or closed
  temp,      \* around_codec_* files in the temporary directory, of this process
             \* and of others
  sends      \* messages that may still be sent

engineVars == <<stream, nextId>>
peerVars   == <<conn, wire, listen, sends>>
vars == <<proc, main, shut, engineVars, thread, cmd, peerVars, temp>>

StreamIds == 1..MaxStreams
Everyone  == Clients \cup Peers
Idle      == [name |-> "none", sid |-> None, ids |-> {}, listed |-> {}, kept |-> {}]
Fresh     == [on |-> "ipc", mapped |-> FALSE, active |-> FALSE, cancel |-> FALSE,
              status |-> "Stopped", seeks |-> FALSE, loop |-> "none"]

Mapped  == {s \in StreamIds : stream[s].mapped}
Ended   == {"gone", "failed", "dead"}      \* no decode loop any more
Running == proc = "running"

\* Engine::sole_stream_id: the only active stream, if there is just one.
Active == {s \in Mapped : stream[s].active}
Sole   == IF Cardinality(Active) = 1 THEN CHOOSE s \in Active : TRUE ELSE None

\* Only the runtime of `around serve` was built with a timer (enable_all);
\* that of `around play` has I/O only.
HasTimer == main = "none"

-----------------------------------------------------------------------------
(* The wire: which codec a connection gets, and what it can read.          *)

\* A message is a command in JSON, of at most 64 KiB and after at most 16 blank
\* lines, a command in Protobuf, of at most 64 MiB, or neither.  The first bytes
\* its listener gets are white space, the brace of JSON or others, and may break
\* off before the rest.  A Protobuf message opens with its length, which is a
\* brace when it is 123 and white space when it is 9, 10, 12, 13 or 32; no brace
\* follows that white space.
Firsts == [json    |-> {<<"brace">>, <<"space", "brace">>, <<"space">>},
           proto   |-> {<<"other">>, <<"space", "other">>, <<"space">>, <<"brace">>},
           neither |-> {<<"brace">>, <<"other">>}]
Message == UNION {[format : {f}, first : Firsts[f]] : f \in DOMAIN Firsts}

\* A datagram comes whole, and nobody looks at its first bytes.
Datagram == [format : DOMAIN Firsts, first : {<<>>}]

\* IpcWire::select in the default build.
Configured == "proto"

\* A slip of the operator below: white space is not passed over.
SniffFirstByte(first) == IF Head(first) = "brace" THEN "json" ELSE Configured

\* handle_connection looks at the bytes of one read: the first that is not
\* white space decides, and only a brace means JSON; when there is none, the
\* listener's own format is taken.
Sniff(first) ==
  LET seen == SelectSeq(first, LAMBDA b : b # "space")
  IN  IF seen # <<>> /\ Head(seen) = "brace" THEN "json" ELSE Configured

\* read_command: each codec takes the other's messages for garbage.  Datagrams
\* are not sniffed.
Reads(c, msg) ==
  msg.format = IF c \in Clients THEN Sniff(msg.first) ELSE Configured

-----------------------------------------------------------------------------
(* Building blocks.                                                        *)

\* The task that runs stream s holds the runtime's thread; the main thread's
\* loop needs no turn.
Runs(s)  == Running /\ (stream[s].on = "main" \/ thread = s)
Turn(s)  == Running /\ (stream[s].on = "main" \/ thread = None)
Hold(s)  == thread' = IF stream[s].on = "main" THEN thread ELSE s
Yield(s) == thread' = IF stream[s].on = "main" THEN thread ELSE None

\* A loop is at its top after a block and, while paused, every 20 ms.
AtTop(s) == \/ stream[s].loop = "top" /\ Runs(s)
            \/ stream[s].loop = "asleep" /\ Turn(s)

\* engine.prepare succeeded: a new entry, its token a child of the engine's.
Prepared(on) ==
  /\ nextId \in StreamIds
  /\ stream' = [stream EXCEPT ![nextId] =
       [on |-> on, mapped |-> TRUE, active |-> TRUE, cancel |-> shut,
        status |-> "Buffering", seeks |-> FALSE, loop |-> "prepared"]]
  /\ nextId' = nextId + 1

\* Engine::stop_stream for the streams in S, Engine::shutdown.
StopThose(S) == stream' = [s \in StreamIds |->
  IF s \in S \cap Mapped
  THEN [stream[s] EXCEPT !.cancel = TRUE, !.status = "Stopped"] ELSE stream[s]]
Shutdown ==
  /\ shut' = TRUE
  /\ stream' = [s \in StreamIds |->
       IF s \in Mapped THEN [stream[s] EXCEPT !.cancel = TRUE] ELSE stream[s]]

SetStatus(s, st) == stream' = IF s \in Mapped
                              THEN [stream EXCEPT ![s].status = st] ELSE stream

\* Between two connections, and two datagrams, a listener looks at is_shutdown.
NextPeer(over) == IF over THEN "closed" ELSE "waiting"

\* The peer's command is answered; a datagram's listener goes on at once.
Leave(c, over) ==
  /\ thread' = None /\ cmd' = Idle
  /\ conn' = [conn EXCEPT ![c] = "answered"]
  /\ wire' = [wire EXCEPT ![c] = None]
  /\ listen' = IF c \in Peers THEN [listen EXCEPT !["udp"] = NextPeer(over)] ELSE listen
  /\ UNCHANGED sends
Answered(c) == Leave(c, shut)

\* Datagrams are opt-in, and only `around play` has the option
\* (IpcConfig::default, from_parts).
Init ==
  /\ proc = "running" /\ shut = FALSE
  /\ main \in {IF p = "serve" THEN "none" ELSE "prepare" : p \in Programs}
  /\ stream = [s \in StreamIds |-> Fresh] /\ nextId = 1
  /\ thread = None /\ cmd = Idle
  /\ conn = [c \in Everyone |-> "idle"]
  /\ wire = [c \in Everyone |-> None]
  /\ \E udp \in {"waiting", "closed"} :
       /\ main = "none" => udp = "closed"
       /\ listen = [l \in {"stream", "udp"} |-> IF l = "udp" THEN udp ELSE "waiting"]
  /\ temp = {"other"}
  /\ sends = IF main = "none" THEN MaxSends ELSE MaxSends - 1

-----------------------------------------------------------------------------
(* A slip of the code below that a property is sensitive to.               *)

\* The pause is looked at before the cancellation.
TopPausedFirst(s) ==
  /\ AtTop(s)
  /\ IF stream[s].status = "Paused"
     THEN stream' = [stream EXCEPT ![s].loop = "asleep"] /\ Yield(s)
     ELSE IF stream[s].cancel
     THEN stream' = [stream EXCEPT ![s].loop = "ending"] /\ Hold(s)
     ELSE stream' = [stream EXCEPT ![s].loop = "decoding", ![s].seeks = FALSE] /\ Yield(s)
  /\ UNCHANGED <<proc, main, shut, nextId, cmd, peerVars, temp>>

-----------------------------------------------------------------------------
(* Decode loops: run_stream on the main thread, run_stream_async in a task. *)

\* The run starts: the output opens and the stream plays.  When it does not
\* open, the run ends with the entry left in the map.
Run(s) ==
  /\ stream[s].loop = "prepared" /\ Turn(s)
  /\ \/ /\ stream' = [stream EXCEPT ![s].loop = "top", ![s].status = "Playing"]
        /\ Hold(s)
     \/ stream' = [stream EXCEPT ![s].loop = "failed"] /\ UNCHANGED thread
  /\ UNCHANGED <<proc, main, shut, nextId, cmd, peerVars, temp>>

\* Top of the loop: cancelled, paused, or on to the seeks, which play on when
\* the codec carries them out, and the next block.
\* A loop that pauses without a timer panics: the task is gone with everything
\* it owned, or, in a release build, the process is.
Panic(s) ==
  \/ /\ stream' = [stream EXCEPT ![s].loop = "dead", ![s].seeks = FALSE]
     /\ Yield(s) /\ UNCHANGED proc
  \/ proc' = "aborted" /\ UNCHANGED <<stream, thread>>
Top(s) ==
  /\ AtTop(s)
  /\ \/ /\ stream[s].cancel
        /\ stream' = [stream EXCEPT ![s].loop = "ending"]
        /\ Hold(s) /\ UNCHANGED proc
     \/ /\ ~stream[s].cancel /\ stream[s].status = "Paused"
        /\ IF HasTimer \/ stream[s].on = "main"
           THEN /\ stream' = [stream EXCEPT ![s].loop = "asleep"]
                /\ Yield(s) /\ UNCHANGED proc
           ELSE Panic(s)
     \/ /\ ~stream[s].cancel /\ stream[s].status # "Paused"
        /\ \E st \in {stream[s].status} \cup (IF stream[s].seeks THEN {"Playing"} ELSE {}) :
             stream' = [stream EXCEPT ![s].loop = "decoding", ![s].seeks = FALSE, ![s].status = st]
        /\ Yield(s) /\ UNCHANGED proc
  /\ UNCHANGED <<main, shut, nextId, cmd, peerVars, temp>>

\* The block is back from the codec: samples, the end of the track, or an
\* error the loop tries again.  Nobody waits for the main thread's write, which
\* is part of its step.
Decoded(s) ==
  /\ stream[s].loop = "decoding" /\ Turn(s)
  /\ \E next \in {IF stream[s].on = "main" THEN "top" ELSE "writing", "ending", "top"} :
       stream' = [stream EXCEPT ![s].loop = next]
  /\ Hold(s)
  /\ UNCHANGED <<proc, main, shut, nextId, cmd, peerVars, temp>>

\* The write returns once the driver has made room; until then it keeps the
\* thread it was called on.
Written(s) ==
  /\ stream[s].loop = "writing" /\ Runs(s)
  /\ stream' = [stream EXCEPT ![s].loop = "top"]
  /\ UNCHANGED <<proc, main, shut, nextId, thread, cmd, peerVars, temp>>

\* The third decode error in a row, or an output that is lost for good.
Fails(s) ==
  /\ \/ stream[s].loop = "decoding" /\ Turn(s)
     \/ stream[s].loop = "writing" /\ Runs(s)
  /\ stream' = [stream EXCEPT ![s].loop = "ended", ![s].status = "Error"]
  /\ Hold(s)
  /\ UNCHANGED <<proc, main, shut, nextId, cmd, peerVars, temp>>

\* The end of a run: Stopped, then inactive, then removed from the map.  The
\* removal needs the map's write lock, which a seek under way holds for reading.
Finish(s) ==
  /\ stream[s].loop = "ending" /\ Runs(s)
  /\ stream' = [stream EXCEPT ![s].loop = "ended", ![s].status = "Stopped"]
  /\ UNCHANGED <<proc, main, shut, nextId, thread, cmd, peerVars, temp>>
Deactivate(s) ==
  /\ stream[s].loop = "ended" /\ Runs(s)
  /\ stream' = [stream EXCEPT ![s].loop = "inactive", ![s].active = FALSE]
  /\ UNCHANGED <<proc, main, shut, nextId, thread, cmd, peerVars, temp>>
Remove(s) ==
  /\ stream[s].loop = "inactive" /\ Runs(s) /\ cmd.name # "mark"
  /\ stream' = [stream EXCEPT ![s].loop = "gone", ![s].mapped = FALSE]
  /\ cmd' = [cmd EXCEPT !.kept = @ \ {s}]
  /\ Yield(s)
  /\ UNCHANGED <<proc, main, shut, nextId, peerVars, temp>>

-----------------------------------------------------------------------------
(* Main thread and signals.                                                *)

\* cmd_play prepares the track it was given; when that fails, and when its run
\* is over, it shuts the engine down.
MainPrepare ==
  /\ Running /\ main = "prepare" /\ Prepared("main") /\ main' = "run"
  /\ UNCHANGED <<proc, shut, thread, cmd, peerVars, temp>>
MainOver ==
  /\ Running
  /\ \/ main = "prepare"
     \/ main = "run" /\ \A s \in StreamIds : stream[s].on = "main" => stream[s].loop \in Ended
  /\ main' = "over" /\ Shutdown
  /\ UNCHANGED <<proc, nextId, thread, cmd, peerVars, temp>>

\* Ctrl-C: `around serve` shuts down, `around play` stops its streams.
Interrupt ==
  /\ Running
  /\ IF main = "none" THEN Shutdown
     ELSE StopThose(StreamIds) /\ UNCHANGED shut
  /\ UNCHANGED <<proc, main, nextId, thread, cmd, peerVars, temp>>

\* The process ends when its listeners have; tasks still running end with it.
Exit ==
  /\ Running /\ main \in {"none", "over"} /\ thread = None
  /\ \A l \in DOMAIN listen : listen[l] = "closed"
  /\ proc' = "exited"
  /\ UNCHANGED <<main, shut, engineVars, thread, cmd, peerVars, temp>>

-----------------------------------------------------------------------------
(* Connections and datagrams.                                              *)

\* A peer writes a message; a probe connects and closes without a byte.  A
\* datagram to a port nobody listens on is lost.
Send(c) ==
  /\ conn[c] = "idle" /\ sends > 0 /\ sends' = sends - 1
  /\ c \in Peers => listen["udp"] # "closed"
  /\ \/ /\ conn' = [conn EXCEPT ![c] = "sent"]
        /\ \E msg \in IF c \in Clients THEN Message ELSE Datagram : wire' = [wire EXCEPT ![c] = msg]
     \/ c \in Clients /\ conn' = [conn EXCEPT ![c] = "empty"] /\ UNCHANGED wire
  /\ UNCHANGED <<proc, main, shut, engineVars, thread, cmd, listen, temp>>

\* The listener of streams turns to a connection, that of datagrams to the
\* next of them.
ListenerOf(c) == IF c \in Clients THEN "stream" ELSE "udp"
Turns(c)      == Running /\ thread = None /\ listen[ListenerOf(c)] = "waiting"

\* accept, then the first bytes decide the codec, for the whole connection; the
\* rest of the message arrives in time.
Accept(c) ==
  /\ c \in Clients /\ Turns(c) /\ conn[c] = "sent"
  /\ conn' = [conn EXCEPT ![c] = IF Reads(c, wire[c]) THEN "open" ELSE "garbage"]
  /\ wire' = [wire EXCEPT ![c] = None]
  /\ listen' = [listen EXCEPT !["stream"] = c]
  /\ UNCHANGED <<proc, main, shut, engineVars, thread, cmd, sends, temp>>

\* An empty connection, or what the codec cannot read: the connection is
\* closed, the datagram dropped; neither is answered.  Where the codec waits for
\* bytes that were never written, this is when the client gives up.
Refuse(c) ==
  /\ \/ Turns(c) /\ conn[c] = "empty"
     \/ Running /\ thread = None /\ conn[c] = "garbage"
     \/ c \in Peers /\ Turns(c) /\ conn[c] = "sent" /\ ~Reads(c, wire[c])
  /\ conn' = [conn EXCEPT ![c] = "idle"]
  /\ wire' = [wire EXCEPT ![c] = None]
  /\ listen' = [listen EXCEPT ![ListenerOf(c)] = NextPeer(shut)]
  /\ UNCHANGED <<proc, main, shut, engineVars, thread, cmd, sends, temp>>

\* read_command has a whole command: nothing is shared between the read and
\* the first call its handler makes to the engine.
Reading(c) ==
  IF c \in Clients THEN Running /\ thread = None /\ conn[c] = "open"
                  ELSE Turns(c) /\ conn[c] = "sent" /\ Reads(c, wire[c])

\* The client sends another message on its connection, which its codec reads
\* or not, or closes it; the listener then turns to the next connection.
Again(c) ==
  /\ listen["stream"] = c /\ conn[c] = "answered" /\ sends > 0 /\ sends' = sends - 1
  /\ \E next \in {"open", "garbage"} : conn' = [conn EXCEPT ![c] = next]
  /\ UNCHANGED <<proc, main, shut, engineVars, thread, cmd, wire, listen, temp>>
Close(c) ==
  /\ conn[c] = "answered"
  /\ listen["stream"] = c => Running /\ thread = None
  /\ conn' = [conn EXCEPT ![c] = "idle"]
  /\ listen' = IF listen["stream"] = c
               THEN [listen EXCEPT !["stream"] = NextPeer(shut)] ELSE listen
  /\ UNCHANGED <<proc, main, shut, engineVars, thread, cmd, wire, sends, temp>>

-----------------------------------------------------------------------------
(* Handlers.                                                               *)

\* A handler between two calls to the engine.
Pending(c, name) == thread = c /\ Running /\ cmd.name = name
Wait(c, next) == thread' = c /\ cmd' = next /\ UNCHANGED peerVars

\* A slip of the handler below: the listing ends at the first stream that is
\* gone.
ListStreamsUntilGone(c) ==
  /\ Pending(c, "status")
  /\ \E s \in cmd.ids :
       Wait(c, IF s \in Mapped
               THEN [cmd EXCEPT !.ids = @ \ {s}, !.listed = @ \cup {s}]
               ELSE [cmd EXCEPT !.ids = {}])
  /\ UNCHANGED <<proc, main, shut, engineVars, temp>>

\* resolve_stream_id: the stream is named, or it is the sole active one; when
\* there is none, or more than one, the answer is NO_TRACK.
Resolve(c) ==
  /\ Reading(c)
  /\ IF Sole = None
     THEN Answered(c)
     ELSE \E name \in {"pause", "resume", "seek"} :
            Wait(c, [Idle EXCEPT !.name = name, !.sid = Sole])
  /\ UNCHANGED <<proc, main, shut, engineVars, temp>>
Resolved(c, name, sid) == \/ Reading(c) /\ sid \in StreamIds
                          \/ Pending(c, name) /\ sid = cmd.sid

\* No such file, no codec for it, or a new stream and a task to run it.
HandlePlay(c) ==
  /\ Reading(c)
  /\ Prepared("ipc") \/ UNCHANGED engineVars
  /\ Answered(c)
  /\ UNCHANGED <<proc, main, shut, temp>>

\* A stream that is not there is answered like one that is.
HandlePause(c, sid) ==
  /\ Resolved(c, "pause", sid) /\ SetStatus(sid, "Paused") /\ Answered(c)
  /\ UNCHANGED <<proc, main, shut, nextId, temp>>
HandleResume(c, sid) ==
  /\ Resolved(c, "resume", sid) /\ SetStatus(sid, "Playing") /\ Answered(c)
  /\ UNCHANGED <<proc, main, shut, nextId, temp>>

\* seek_stream: refused when there is no such stream, beyond its end, once it
\* has stopped and when nobody receives any more; otherwise the position goes
\* to the loop first and the status follows.
HandleSeek(c, sid) ==
  /\ Resolved(c, "seek", sid)
  /\ \/ /\ sid \in Mapped /\ stream[sid].loop # "dead"
        /\ stream[sid].status \notin {"Stopped", "Error"}
        /\ stream' = [stream EXCEPT ![sid].seeks = TRUE]
        /\ Wait(c, [Idle EXCEPT !.name = "mark", !.sid = sid])
     \/ Answered(c) /\ UNCHANGED stream
  /\ UNCHANGED <<proc, main, shut, nextId, temp>>
MarkBuffering(c) ==
  /\ Pending(c, "mark") /\ SetStatus(cmd.sid, "Buffering") /\ Answered(c)
  /\ UNCHANGED <<proc, main, shut, nextId, temp>>

HandleStop(c) ==
  /\ Reading(c)
  /\ \E S \in {{s} : s \in StreamIds} \cup {StreamIds} : StopThose(S)
  /\ Answered(c)
  /\ UNCHANGED <<proc, main, shut, nextId, temp>>

\* status of one stream, or of all: the ids, then each stream that is still
\* there, then the sole active one.
HandleStatus(c) ==
  /\ Reading(c)
  /\ \/ Answered(c)
     \/ Wait(c, [Idle EXCEPT !.name = "status", !.ids = Mapped, !.kept = Mapped])
  /\ UNCHANGED <<proc, main, shut, engineVars, temp>>
ListStreams(c) ==
  /\ Pending(c, "status")
  /\ \E s \in cmd.ids :
       Wait(c, [cmd EXCEPT !.ids = @ \ {s},
                           !.listed = IF s \in Mapped THEN @ \cup {s} ELSE @])
  /\ UNCHANGED <<proc, main, shut, engineVars, temp>>
ListEnds(c) ==
  /\ Pending(c, "status") /\ cmd.ids = {}
  /\ Answered(c)
  /\ UNCHANGED <<proc, main, shut, engineVars, temp>>

\* The framework's index, and Framework::load, are not this module's state.
HandleCodecs(c) ==
  /\ Reading(c) /\ Answered(c)
  /\ UNCHANGED <<proc, main, shut, engineVars, temp>>

\* The bytes go to a file of this process; it stays only if the load succeeds.
HandleLoadBytes(c) ==
  /\ Reading(c)
  /\ temp' \in {temp \cup {"own"}, temp \ {"own"}, temp}
  /\ Answered(c)
  /\ UNCHANGED <<proc, main, shut, engineVars>>

\* scan_and_remove_stale_temp_files spares the files of this process only.
HandleCleanup(c) ==
  /\ Reading(c)
  /\ temp' = temp \cap {"own"}
  /\ Answered(c)
  /\ UNCHANGED <<proc, main, shut, engineVars>>

HandleShutdown(c) ==
  /\ Reading(c)
  /\ Shutdown /\ Leave(c, TRUE)
  /\ UNCHANGED <<proc, main, nextId, temp>>

-----------------------------------------------------------------------------
StreamStep(s) == \/ Run(s) \/ Top(s) \/ Decoded(s) \/ Written(s)
                 \/ Finish(s) \/ Deactivate(s) \/ Remove(s)
Handler(c) ==
  \/ Resolve(c) \/ HandlePlay(c) \/ MarkBuffering(c) \/ HandleStop(c)
  \/ HandleStatus(c) \/ ListStreams(c) \/ ListEnds(c) \/ HandleCodecs(c)
  \/ HandleLoadBytes(c) \/ HandleCleanup(c) \/ HandleShutdown(c)
  \/ \E sid \in StreamIds : HandlePause(c, sid) \/ HandleResume(c, sid) \/ HandleSeek(c, sid)

Next ==
  \/ \E s \in StreamIds : StreamStep(s) \/ Fails(s)
  \/ MainPrepare \/ MainOver \/ Interrupt \/ Exit
  \/ \E c \in Everyone : \/ Send(c) \/ Accept(c) \/ Refuse(c) \/ Again(c) \/ Close(c)
                         \/ Handler(c)

\* The runtime polls its tasks in turn and epoll reports every connection, so
\* a task that is ready again and again is run; threads run; the driver drains;
\* a client closes its connection in the end.
Served(c) == Accept(c) \/ Handler(c) \/ Refuse(c) \/ Close(c)
Fairness ==
  /\ WF_vars(MainPrepare \/ MainOver \/ Exit)
  /\ \A s \in StreamIds : SF_vars(StreamStep(s))
  /\ \A c \in Everyone : SF_vars(Served(c))

Spec     == Init /\ [][Next]_vars
FairSpec == Spec /\ Fairness
=============================================================================
