--------------------------- MODULE IpcProperties ----------------------------
(***************************************************************************)
(* What the IPC service promises to its callers and to its processes.      *)
(***************************************************************************)
EXTENDS IpcService

\* A caller finds an instance by its files unless it was given a TCP port of
\* its own and could not bind the native socket.
Discoverable(p) == task[p]["unix"] # "none" \/ p \notin FixedTcp

\* As long as start-ups and exits do not overlap and no play process without
\* a server ends under a TCP instance, at most one instance serves, also after
\* crashes at any point, and its file leads callers to it
\* (TransportManager::check_running_instance, start).
SoleInstance ==
  ~raced => \A p \in Procs : Serving(p) /\ Discoverable(p) =>
              /\ \A q \in Procs \ {p} : ~(Serving(q) /\ Discoverable(q))
              /\ IF Open(p, "unix") THEN sock = p ELSE port = p

\* A start is refused only while another process listens: what a killed one
\* leaves behind, a socket file or a port file, never blocks the next
\* (check_running_instance).
RefusedOnlyByLive ==
  [][\A p \in Procs : stage[p] # "refused" /\ stage'[p] = "refused" =>
       raced' \/ \E q \in Procs \ {p}, t \in Transports : Open(q, t)]_vars

\* Whatever transport a caller ends up on, its command is executed at most
\* once, and exactly once when it has an answer, unless a process was killed
\* (send_ipc_command falls back to TCP after any failure).
ExecutedOnce ==
  (\A p \in Procs : main[p] # "crashed") =>
    \A c \in Callers : /\ ran[c] <= 1
                       /\ call[c].at = "answered" => ran[c] = 1
                       /\ call[c].at \in {"tryTcp", "failed"} => ran[c] = 0

\* Every call ends, with an answer or an error, although a listener serves its
\* connections one after the other and may be shut down or killed meanwhile.
CallsEnd ==
  \A c \in Callers : call[c].at = "tryUnix" ~> call[c].at \in {"answered", "failed"}

OneListener(p) == Cardinality({t \in Transports : task[p][t] # "none"}) = 1

\* A process with one listener exits when it is told to over that listener,
\* and a play process whose only listener is the one its port file names exits
\* when its track is over (serve looks at is_shutdown between connections).
ShutdownExits ==
  \A p \in Procs :
    /\ (/\ OneListener(p)
        /\ \E t \in Transports : /\ task[p][t] = "answer"
                                 /\ call[cur[p][t]].cmd = "shutdown") ~> Gone(p)
    /\ (OneListener(p) /\ main[p] = "unblock" /\ port = p) ~> (Gone(p) \/ raced)

\* cmd_play ends once its track has: "Signal IPC server to shut down, then
\* unblock accept()" (around-cli/src/main.rs:350).
PlayExits == \A p \in PlayProcs : main[p] = "unblock" ~> Gone(p)
=============================================================================
