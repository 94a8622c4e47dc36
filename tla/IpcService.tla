------------------------------ MODULE IpcService ----------------------------
(***************************************************************************)
(* The IPC service of around: processes that run an engine (`around serve` *)
(* and `around play`), the socket and port files by which they find each   *)
(* other, the accept loops of their listeners, and the command line calls  *)
(* that connect to them.                                                   *)
(*                                                                         *)
(* A process runs once.  Its server task takes the stages of               *)
(* run_ipc_server one file-system or socket call at a time; then one task  *)
(* per transport serves connections one after the other.  The tasks of a   *)
(* process share one thread and only give it up at an await, so they run   *)
(* only once the start-up has reached join.                                *)
(***************************************************************************)
EXTENDS Naturals, Sequences, FiniteSets

CONSTANTS
  Procs,         \* processes that run cmd_serve or cmd_play
  ServeProcs,    \* those that may run cmd_serve
  PlayProcs,     \* those that may run cmd_play
  FixedTcp,      \* processes given a TCP address with a port of its own
  Clients,       \* command line calls that send one command
  Commands,      \* the commands they may send
  None,          \* no process, no caller
  MayCrash       \* processes that may be killed

ASSUME ServiceAssumption ==
  /\ Procs = ServeProcs \cup PlayProcs
  /\ FixedTcp \subseteq PlayProcs \ ServeProcs
  /\ MayCrash \subseteq Procs
  /\ Procs \cap Clients = {}
  /\ None \notin Procs \cup Clients \cup {"eof"} /\ "eof" \notin Procs \cup Clients
  /\ Commands \subseteq {"query", "shutdown"}

VARIABLES
  main,       \* main thread of each process
  stage,      \* its server task: where run_ipc_server is
  task,       \* accept loop of each transport
  cur,        \* the connection the loop is busy with
  queue,      \* connections the kernel holds for a listener
  shut,       \* Engine::shutdown_token
  sock,       \* whose listener the socket file names, or None
  port,       \* whose listener the port file names, or None
  call,       \* a caller's progress through send_ipc_command
  ran,        \* history: how often a caller's command was executed
  raced       \* history: see Disturbed

procVars == <<main, stage, task, cur, shut>>
fileVars == <<sock, port>>
callVars == <<call, ran>>
vars     == <<procVars, queue, fileVars, callVars, raced>>

Transports == {"unix", "tcp"}
Callers    == Clients \cup PlayProcs
Eof        == "eof"        \* a connection closed without a byte sent

\* A listener exists from its bind until its loop returns or the process ends.
Open(p, t)  == task[p][t] \notin {"none", "closed", "done"}
Gone(p)     == main[p] \in {"exited", "crashed"}
Binding     == {"probeUnix", "probeTcp", "holdPort", "dropPort", "unlink",
                "bindUnix", "bindTcp", "writePort", "clearPort"}
Starting(p) == stage[p] \in Binding
Closing(p)  == main[p] = "dropPort" \/ \E t \in Transports : task[p][t] = "closed"
Serving(p)  == stage[p] = "serving" /\ ~shut[p] /\ ~Gone(p)

\* Start-ups that overlap each other or an exit, and a play process that ends
\* while another process is found by its port file: the cases in which files
\* are removed under a live instance.  Every step remembers them.
Disturbed == \E p, q \in Procs :
  /\ p # q /\ ~Gone(p) /\ ~Gone(q)
  /\ \/ Starting(p) /\ (Starting(q) \/ Closing(q))
     \/ main[p] = "dropPort" /\ port = q
Watch == raced' = (raced \/ Disturbed')

At(p, s)         == stage[p] = s /\ ~Gone(p)
SetTask(p, t, v) == task' = [task EXCEPT ![p][t] = v]
Goto(p, s)       == stage' = [stage EXCEPT ![p] = s]

Init ==
  /\ main = [p \in Procs |-> "off"]
  /\ stage = [p \in Procs |-> "off"]
  /\ task = [p \in Procs |-> [t \in Transports |-> "none"]]
  /\ cur = [p \in Procs |-> [t \in Transports |-> None]]
  /\ queue = [p \in Procs |-> [t \in Transports |-> <<>>]]
  /\ shut = [p \in Procs |-> FALSE]
  /\ sock = None /\ port = None
  /\ call = [c \in Callers |-> [at |-> "idle", cmd |-> "query", of |-> None]]
  /\ ran = [c \in Callers |-> 0]
  /\ raced = FALSE

-----------------------------------------------------------------------------
(* Callers: send_ipc_command.                                              *)

\* A caller's connection to p over t waits in the queue of the listener; the
\* request line is written to it at once.
Connect(c, p, t) ==
  /\ queue' = [queue EXCEPT ![p][t] = Append(@, c)]
  /\ call' = [call EXCEPT ![c].at = t, ![c].of = p]

\* A command line call starts with the socket file.
Invoke(c, m) ==
  /\ call[c].at = "idle"
  /\ call' = [call EXCEPT ![c].at = "tryUnix", ![c].cmd = m]
  /\ UNCHANGED <<procVars, queue, fileVars, ran>>
  /\ Watch

\* try_unix_socket_command: connect to whatever listener the file names.
TryUnix(c) ==
  /\ call[c].at = "tryUnix"
  /\ IF sock # None /\ Open(sock, "unix")
     THEN Connect(c, sock, "unix")
     ELSE call' = [call EXCEPT ![c].at = "tryTcp"] /\ UNCHANGED queue
  /\ UNCHANGED <<procVars, fileVars, ran>>
  /\ Watch

\* The fallback: the port file, then TCP; without either the call fails.
TryTcp(c) ==
  /\ call[c].at = "tryTcp"
  /\ IF port # None /\ Open(port, "tcp")
     THEN Connect(c, port, "tcp")
     ELSE call' = [call EXCEPT ![c].at = "failed"] /\ UNCHANGED queue
  /\ UNCHANGED <<procVars, fileVars, ran>>
  /\ Watch

\* The calls whose connections to p's listeners in T are closed unanswered: any
\* failure of the socket attempt leads to TCP, a failure there is reported.
Reset(p, T) ==
  [c \in Callers |->
     IF call[c].of = p /\ "unix" \in T /\ call[c].at = "unix"
     THEN [call[c] EXCEPT !.at = "tryTcp", !.of = None]
     ELSE IF call[c].of = p /\ "tcp" \in T /\ call[c].at = "tcp"
          THEN [call[c] EXCEPT !.at = "failed", !.of = None]
          ELSE call[c]]

-----------------------------------------------------------------------------
(* Slips of the code below that the properties are sensitive to.           *)

\* The file's existence taken for a running instance.
ProbeUnixByFile(p) ==
  /\ At(p, "probeUnix")
  /\ Goto(p, IF sock # None THEN "refused" ELSE "probeTcp")
  /\ UNCHANGED <<main, task, cur, queue, shut, fileVars, callVars>>
  /\ Watch

\* The port file not looked at.
ProbeTcpSkipped(p) ==
  /\ At(p, "probeTcp")
  /\ Goto(p, "unlink")
  /\ UNCHANGED <<main, task, cur, queue, shut, fileVars, callVars>>
  /\ Watch

\* The shutdown command acknowledged and not carried out.
HandleIgnoringShutdown(p, t) ==
  /\ At(p, "serving") /\ task[p][t] = "reading"
  /\ cur[p][t] \in Callers
  /\ SetTask(p, t, "answer")
  /\ ran' = [ran EXCEPT ![cur[p][t]] = @ + 1]
  /\ UNCHANGED <<main, stage, cur, queue, shut, fileVars, call>>
  /\ Watch

\* An empty connection read again and again.
ReadEofAgain(p, t) ==
  /\ At(p, "serving") /\ task[p][t] = "reading" /\ cur[p][t] = Eof
  /\ UNCHANGED <<procVars, queue, fileVars, callVars>>
  /\ Watch

\* The loop left at once after a shutdown command, without its answer.
AnswerUnlessShut(p, t) ==
  /\ At(p, "serving") /\ task[p][t] = "answer"
  /\ call' = IF shut[p] THEN Reset(p, {t})
             ELSE [call EXCEPT ![cur[p][t]].at = "answered"]
  /\ cur' = [cur EXCEPT ![p][t] = None]
  /\ SetTask(p, t, "check")
  /\ UNCHANGED <<main, stage, queue, shut, fileVars, ran>>
  /\ Watch
-----------------------------------------------------------------------------
(* Start-up: run_ipc_server up to join.                                    *)

\* check_running_instance connects to the socket and drops the connection.
ProbeUnix(p) ==
  /\ At(p, "probeUnix")
  /\ IF sock # None /\ Open(sock, "unix")
     THEN /\ queue' = [queue EXCEPT ![sock]["unix"] = Append(@, Eof)]
          /\ Goto(p, "refused")
     ELSE Goto(p, "probeTcp") /\ UNCHANGED queue
  /\ UNCHANGED <<main, task, cur, shut, fileVars, callVars>>
  /\ Watch

\* Then it tries to bind the port the port file names: in use by a listener
\* or, for an instant, by the same test of another process.
InUse(p) == Open(port, "tcp")
            \/ \E q \in Procs \ {p} : stage[q] = "holdPort" /\ ~Gone(q)

ProbeTcp(p) ==
  /\ At(p, "probeTcp")
  /\ Goto(p, IF port = None THEN "unlink"
             ELSE IF InUse(p) THEN "refused" ELSE "holdPort")
  /\ UNCHANGED <<main, task, cur, queue, shut, fileVars, callVars>>
  /\ Watch

ReleasePort(p) ==
  /\ At(p, "holdPort")
  /\ Goto(p, "dropPort")
  /\ UNCHANGED <<main, task, cur, queue, shut, fileVars, callVars>>
  /\ Watch

\* A port file whose port is free is stale; it is removed by name.
DropStalePort(p) ==
  /\ At(p, "dropPort")
  /\ port' = None
  /\ Goto(p, "unlink")
  /\ UNCHANGED <<main, task, cur, queue, shut, sock, callVars>>
  /\ Watch

\* bind_unix_socket removes the file without looking whose it is ...
Unlink(p) ==
  /\ At(p, "unlink")
  /\ sock' = None
  /\ Goto(p, "bindUnix")
  /\ UNCHANGED <<main, task, cur, queue, shut, port, callVars>>
  /\ Watch

\* ... and binds, which fails when a file is there again, or the directory
\* cannot be used: then TCP is bound instead.
BindUnix(p) ==
  /\ At(p, "bindUnix")
  /\ \/ /\ sock = None
        /\ sock' = p
        /\ SetTask(p, "unix", "check")
        /\ Goto(p, IF p \in FixedTcp THEN "bindTcp" ELSE "clearPort")
     \/ /\ Goto(p, "bindTcp")
        /\ UNCHANGED <<sock, task>>
  /\ UNCHANGED <<main, cur, queue, shut, port, callVars>>
  /\ Watch

\* The server task ends with an error: the runtime is dropped with the tasks
\* it spawned, which closes the listeners and leaves the files.
CloseAll(p) ==
  /\ task' = [task EXCEPT ![p] = [t \in Transports |-> "none"]]
  /\ cur' = [cur EXCEPT ![p] = [t \in Transports |-> None]]
  /\ queue' = [queue EXCEPT ![p] = [t \in Transports |-> <<>>]]
  /\ call' = Reset(p, Transports)

\* Only a loopback listener without a port of its own has a port file; an
\* address that was asked for may be taken.
BindTcp(p) ==
  /\ At(p, "bindTcp")
  /\ \/ /\ SetTask(p, "tcp", "check")
        /\ Goto(p, IF p \in FixedTcp THEN "serving" ELSE "writePort")
        /\ UNCHANGED <<cur, queue, call>>
     \/ /\ p \in FixedTcp
        /\ Goto(p, "failed")
        /\ CloseAll(p)
  /\ UNCHANGED <<main, shut, fileVars, ran>>
  /\ Watch

WritePort(p) ==
  /\ At(p, "writePort")
  /\ port' = p
  /\ Goto(p, "serving")
  /\ UNCHANGED <<main, task, cur, queue, shut, sock, callVars>>
  /\ Watch

\* With a native listener alone, any port file is taken to be stale.
ClearPort(p) ==
  /\ At(p, "clearPort")
  /\ port' = None
  /\ Goto(p, "serving")
  /\ UNCHANGED <<main, task, cur, queue, shut, sock, callVars>>
  /\ Watch

-----------------------------------------------------------------------------
(* The accept loops: serve and handle_connection.                            *)

\* The loop looks at the shutdown flag, and only here.  On return the
\* listener is closed, and the connections the kernel held for it with it.
Check(p, t) ==
  /\ At(p, "serving") /\ task[p][t] = "check"
  /\ IF shut[p]
     THEN /\ SetTask(p, t, "closed")
          /\ queue' = [queue EXCEPT ![p][t] = <<>>]
          /\ call' = Reset(p, {t})
     ELSE /\ SetTask(p, t, "accept")
          /\ UNCHANGED <<queue, call>>
  /\ UNCHANGED <<main, stage, cur, shut, fileVars, ran>>
  /\ Watch

\* The socket or port file is removed by name after the listener is closed.
RemoveFile(p, t) ==
  /\ At(p, "serving") /\ task[p][t] = "closed"
  /\ SetTask(p, t, "done")
  /\ sock' = IF t = "unix" THEN None ELSE sock
  /\ port' = IF t = "tcp" /\ p \notin FixedTcp THEN None ELSE port
  /\ UNCHANGED <<main, stage, cur, queue, shut, callVars>>
  /\ Watch

Accept(p, t) ==
  /\ At(p, "serving") /\ task[p][t] = "accept" /\ queue[p][t] # <<>>
  /\ cur' = [cur EXCEPT ![p][t] = Head(queue[p][t])]
  /\ queue' = [queue EXCEPT ![p][t] = Tail(@)]
  /\ SetTask(p, t, "reading")
  /\ UNCHANGED <<main, stage, shut, fileVars, callVars>>
  /\ Watch

\* A connection that closes without a byte, like a probe's.
ReadEof(p, t) ==
  /\ At(p, "serving") /\ task[p][t] = "reading" /\ cur[p][t] = Eof
  /\ cur' = [cur EXCEPT ![p][t] = None]
  /\ SetTask(p, t, "check")
  /\ UNCHANGED <<main, stage, queue, shut, fileVars, callVars>>
  /\ Watch

\* Of the commands only shutdown touches what this module is about.
Effect(p, t, m) ==
  /\ shut' = [shut EXCEPT ![p] = @ \/ m = "shutdown"]
  /\ SetTask(p, t, "answer")

\* A command line is read and its handler runs.
Handle(p, t) ==
  /\ At(p, "serving") /\ task[p][t] = "reading"
  /\ cur[p][t] \in Callers
  /\ Effect(p, t, call[cur[p][t]].cmd)
  /\ ran' = [ran EXCEPT ![cur[p][t]] = @ + 1]
  /\ UNCHANGED <<main, stage, cur, queue, fileVars, call>>
  /\ Watch

\* The answer is written.  The caller, which sends one command, reads it and
\* closes, and the loop goes on with the next connection.
Answer(p, t) ==
  /\ At(p, "serving") /\ task[p][t] = "answer"
  /\ call' = [call EXCEPT ![cur[p][t]].at = "answered"]
  /\ cur' = [cur EXCEPT ![p][t] = None]
  /\ SetTask(p, t, "check")
  /\ UNCHANGED <<main, stage, queue, shut, fileVars, ran>>
  /\ Watch

\* join: run_ipc_server returns when every task it spawned has ended.
Join(p) ==
  /\ At(p, "serving")
  /\ \A t \in Transports : task[p][t] \in {"none", "done"}
  /\ Goto(p, "ended")
  /\ UNCHANGED <<main, task, cur, queue, shut, fileVars, callVars>>
  /\ Watch

-----------------------------------------------------------------------------
(* The main threads: cmd_serve and cmd_play.                               *)

SetMain(p, s) == main' = [main EXCEPT ![p] = s]
Over(p)       == stage[p] \in {"ended", "failed", "refused"}

Serve(p) ==
  /\ p \in ServeProcs /\ main[p] = "off"
  /\ SetMain(p, "serve") /\ Goto(p, "probeUnix")
  /\ UNCHANGED <<task, cur, queue, shut, fileVars, callVars>>
  /\ Watch

\* The signal handler of cmd_serve only sets the flag.
Signal(p) ==
  /\ main[p] = "serve" /\ ~shut[p]
  /\ shut' = [shut EXCEPT ![p] = TRUE]
  /\ UNCHANGED <<main, stage, task, cur, queue, fileVars, callVars>>
  /\ Watch

\* cmd_serve returns with run_ipc_server.
ServeReturns(p) ==
  /\ main[p] = "serve" /\ Over(p)
  /\ SetMain(p, "exited")
  /\ UNCHANGED <<stage, task, cur, queue, shut, fileVars, callVars>>
  /\ Watch

\* cmd_play without --remote asks for the status of a running engine first.
Play(p) ==
  /\ p \in PlayProcs /\ main[p] = "off"
  /\ SetMain(p, "probing")
  /\ call' = [call EXCEPT ![p].at = "tryUnix"]
  /\ UNCHANGED <<stage, task, cur, queue, shut, fileVars, ran>>
  /\ Watch

\* Answered: the play command is sent to that engine, and the process is done
\* with its answer or its failure.  Not answered: the process plays itself and
\* starts a server of its own in a thread.
Delegate(p) ==
  /\ main[p] = "probing" /\ call[p].at = "answered"
  /\ SetMain(p, "delegating")
  /\ call' = [call EXCEPT ![p].at = "tryUnix", ![p].of = None]
  /\ ran' = [ran EXCEPT ![p] = 0]
  /\ UNCHANGED <<stage, task, cur, queue, shut, fileVars>>
  /\ Watch

Delegated(p) ==
  /\ main[p] = "delegating" /\ call[p].at \in {"answered", "failed"}
  /\ SetMain(p, "exited")
  /\ UNCHANGED <<stage, task, cur, queue, shut, fileVars, callVars>>
  /\ Watch

PlayHere(p) ==
  /\ main[p] = "probing" /\ call[p].at = "failed"
  /\ SetMain(p, "playing") /\ Goto(p, "probeUnix")
  /\ UNCHANGED <<task, cur, queue, shut, fileVars, callVars>>
  /\ Watch

\* prepare fails, or the run ends (end of track, error, stop, shutdown): the
\* engine is shut down.
PlaybackOver(p) ==
  /\ main[p] = "playing"
  /\ SetMain(p, "unblock")
  /\ shut' = [shut EXCEPT ![p] = TRUE]
  /\ UNCHANGED <<stage, task, cur, queue, fileVars, callVars>>
  /\ Watch

\* A connection to the port in the port file is opened and dropped, to wake
\* an accept that waits.
Unblock(p) ==
  /\ main[p] = "unblock"
  /\ SetMain(p, "join")
  /\ queue' = IF port # None /\ Open(port, "tcp")
              THEN [queue EXCEPT ![port]["tcp"] = Append(@, Eof)] ELSE queue
  /\ UNCHANGED <<stage, task, cur, shut, fileVars, callVars>>
  /\ Watch

\* ipc_handle.join().
JoinServer(p) ==
  /\ main[p] = "join" /\ Over(p)
  /\ SetMain(p, "dropPort")
  /\ UNCHANGED <<stage, task, cur, queue, shut, fileVars, callVars>>
  /\ Watch

\* The port file is removed by name, and the process is done.
PlayReturns(p) ==
  /\ main[p] = "dropPort"
  /\ SetMain(p, "exited")
  /\ port' = None
  /\ UNCHANGED <<stage, task, cur, queue, shut, sock, callVars>>
  /\ Watch

\* A process is killed while its engine runs: its sockets are closed, its
\* files stay.
Crash(p) ==
  /\ p \in MayCrash
  /\ main[p] \in {"serve", "playing", "unblock", "join", "dropPort"}
  /\ SetMain(p, "crashed")
  /\ CloseAll(p)
  /\ UNCHANGED <<stage, shut, fileVars, ran>>
  /\ Watch

-----------------------------------------------------------------------------
StartUp(p) == ProbeUnix(p) \/ ProbeTcp(p) \/ ReleasePort(p) \/ DropStalePort(p)
              \/ Unlink(p) \/ BindUnix(p) \/ BindTcp(p) \/ WritePort(p)
              \/ ClearPort(p)
Serves(p, t) == Check(p, t) \/ RemoveFile(p, t) \/ Accept(p, t) \/ ReadEof(p, t)
                \/ Handle(p, t) \/ Answer(p, t)
MainStep(p) == ServeReturns(p) \/ Delegate(p) \/ Delegated(p) \/ PlayHere(p)
               \/ PlaybackOver(p) \/ Unblock(p) \/ JoinServer(p)
               \/ PlayReturns(p) \/ Join(p)
Asks(c) == TryUnix(c) \/ TryTcp(c)

Next == \/ \E p \in Procs : StartUp(p) \/ MainStep(p) \/ Serve(p)
                            \/ Signal(p) \/ Play(p) \/ Crash(p)
        \/ \E p \in Procs, t \in Transports : Serves(p, t)
        \/ \E c \in Callers : Asks(c)
        \/ \E c \in Clients, m \in Commands : Invoke(c, m)

Spec == Init /\ [][Next]_vars

\* The scheduler runs every process, thread and task that can go on; callers
\* send what they connected for and tracks end.  Nobody is obliged to start,
\* signal or kill a process.
Fairness ==
  /\ \A p \in Procs : WF_vars(StartUp(p)) /\ WF_vars(MainStep(p))
  /\ \A p \in Procs, t \in Transports : WF_vars(Serves(p, t))
  /\ \A c \in Callers : WF_vars(Asks(c))

FairSpec == Spec /\ Fairness
=============================================================================
