------------------------ MODULE IpcCommandProperties ------------------------
(***************************************************************************)
(* What the commands of a running engine promise to those who send them.   *)
(***************************************************************************)
EXTENDS IpcCommands
LOCAL INSTANCE Functions

\* What a peer may expect an answer to: a command that is JSON with its brace
\* among the first bytes, Protobuf that does not open with a brace, a datagram
\* in Protobuf, or a later command in the format of the first.
Expectable(c) ==
  \/ /\ conn[c] = "sent" /\ c \in Clients
     /\ \/ wire[c].format = "json" /\ "brace" \in Range(wire[c].first)
        \/ wire[c].format = "proto" /\ wire[c].first # <<"brace">>
  \/ conn[c] = "sent" /\ c \in Peers /\ wire[c].format = "proto"
  \/ conn[c] = "open"

\* While nobody closed the listeners or the process, a command its sender may
\* expect an answer to is answered, although its format is guessed, connections
\* wait for one another, share a thread with the decode loops and that thread
\* may block in a write (connection.rs handle_connection, transport_udp.rs
\* serve_udp).  Not in it, because never answered: a JSON command whose blank
\* lines arrive ahead of it (connection.rs:56-65 looks at one read, and takes
\* this one for Protobuf), a Protobuf command of 123 bytes that opens a
\* connection, JSON in a datagram.
CommandsAnswered ==
  \A c \in Everyone : Expectable(c) ~> conn[c] = "answered" \/ shut \/ ~Running

\* The answer to a status of all streams leaves out no stream that was in the
\* map all the time the command took, whatever ends meanwhile on the main
\* thread (handle_status reads the map once per stream).
StatusMissesNothing ==
  cmd.name = "status" /\ cmd.ids = {} => cmd.kept \subseteq cmd.listed

\* A stream that is cancelled, by a stop, a signal or a shutdown, leaves the
\* map, whatever is sent to it afterwards, as long as it has a loop
\* (run_stream_async, stop_stream).
StopsAreCarriedOut ==
  \A s \in StreamIds :
    stream[s].cancel /\ stream[s].loop \notin Ended ~>
      ~stream[s].mapped \/ stream[s].loop = "failed" \/ ~Running

\* A paused stream has a loop that a resume can wake: "playback pauses and
\* resuming from the same position is possible"
\* (specs/001-core-playback-engine/spec.md:87-88).
PausedIsResumable ==
  \A s \in Mapped : stream[s].loop = "dead" => stream[s].status # "Paused"
=============================================================================
