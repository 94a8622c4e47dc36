------------------------- MODULE IpcService_proofs --------------------------
(***************************************************************************)
(* For any processes and callers: without overlapping start-ups one        *)
(* instance serves and its file leads to it; a start is refused only by a  *)
(* process that listens; and without a kill a command runs at most once.   *)
(***************************************************************************)
EXTENDS IpcProperties, SequenceTheorems, TLAPS

MainStates == {"off", "serve", "probing", "delegating", "playing", "unblock",
               "join", "dropPort", "exited", "crashed"}
Stages     == Binding \cup {"off", "serving", "ended", "failed", "refused"}
TaskStates == {"none", "check", "accept", "reading", "answer", "closed", "done"}
CallStates == {"idle", "tryUnix", "tryTcp", "unix", "tcp", "answered", "failed"}
Call       == [at : CallStates, cmd : {"query", "shutdown"}, of : Procs \cup {None}]

ProcTypes ==
  /\ main \in [Procs -> MainStates]
  /\ stage \in [Procs -> Stages]
  /\ task \in [Procs -> [Transports -> TaskStates]]
  /\ shut \in [Procs -> BOOLEAN]
  /\ sock \in Procs \cup {None} /\ port \in Procs \cup {None}
  /\ raced \in BOOLEAN

CallTypes ==
  /\ cur \in [Procs -> [Transports -> Callers \cup {Eof, None}]]
  /\ queue \in [Procs -> [Transports -> Seq(Callers \cup {Eof})]]
  /\ call \in [Callers -> Call]
  /\ ran \in [Callers -> Nat]

-----------------------------------------------------------------------------
(* How far a process has come says which of its listeners exist.           *)

BeforeUnix == {"off", "probeUnix", "probeTcp", "holdPort", "dropPort", "unlink",
               "bindUnix", "refused", "failed"}
Rest(p) == \A t \in Transports : task[p][t] \in {"none", "done"}

Listeners(p) ==
  /\ stage[p] \in BeforeUnix => \A t \in Transports : task[p][t] = "none"
  /\ stage[p] \in {"bindTcp", "clearPort"} =>
       task[p]["tcp"] = "none" /\ task[p]["unix"] \in {"none", "check"}
  /\ stage[p] = "writePort" =>
       task[p]["tcp"] \in {"none", "check"} /\ task[p]["unix"] \in {"none", "check"}
  /\ stage[p] = "writePort" /\ ~Gone(p) => task[p]["tcp"] # "none"
  /\ stage[p] = "clearPort" /\ ~Gone(p) => task[p]["unix"] # "none"
  /\ stage[p] = "serving" /\ ~Gone(p) => \E t \in Transports : task[p][t] # "none"
  /\ stage[p] = "ended" => Rest(p)
  /\ Gone(p) => Rest(p)
  /\ \A t \in Transports : task[p][t] \in {"closed", "done"} => shut[p]
  /\ main[p] \in {"off", "probing", "delegating"} => stage[p] = "off"
  /\ main[p] = "probing" => p \in PlayProcs
  /\ main[p] = "dropPort" => Over(p)

StageInv == ProcTypes /\ \A p \in Procs : Listeners(p)

-----------------------------------------------------------------------------
(* Who can be found, as long as nothing overlapped.                        *)

\* A listener that a file leads to, until its file is removed.
Live(p) == \E t \in Transports : /\ t = "unix" \/ p \notin FixedTcp
                                 /\ task[p][t] \notin {"none", "done"}
PastUnix == Binding \ {"probeUnix"}
PastTcp  == PastUnix \ {"probeTcp"}

Undisturbed ==
  /\ ~Disturbed
  /\ \A p, q \in Procs : p # q => ~(Live(p) /\ Live(q))
  /\ \A p \in Procs : /\ Open(p, "unix") => sock = p
                      /\ Open(p, "tcp") /\ p \notin FixedTcp /\ stage[p] = "serving" => port = p
  /\ \A q \in Procs, p \in Procs : p # q /\ ~Gone(q) =>
       /\ stage[q] \in PastUnix => ~Open(p, "unix")
       /\ stage[q] \in PastTcp => ~Live(p)

FoundInv == ~raced => Undisturbed

-----------------------------------------------------------------------------
(* Where the connection of a caller is.                                    *)

In(c, q)   == \E i \in 1..Len(q) : q[i] = c
Once(c, q) == \A i, j \in 1..Len(q) : q[i] = c /\ q[j] = c => i = j
Queued(c, p, t) == In(c, queue[p][t])
InHand(c, p, t) == cur[p][t] = c /\ task[p][t] \in {"reading", "answer"}
Placed(c, p, t) ==
  /\ call[c].at = t /\ call[c].of = p <=> Queued(c, p, t) \/ InHand(c, p, t)
  /\ ~(Queued(c, p, t) /\ InHand(c, p, t))
  /\ Once(c, queue[p][t])

ConnInv ==
  /\ CallTypes
  /\ \A p \in Procs, t \in Transports : task[p][t] = "answer" => cur[p][t] \in Callers
  /\ \A c \in Callers :
       /\ call[c].at \in Transports => call[c].of \in Procs
       /\ \A p \in Procs, t \in Transports : Placed(c, p, t)
  /\ \A p \in PlayProcs : main[p] = "off" => call[p].at = "idle"

Uncrashed == \A p \in Procs : main[p] # "crashed"
Counted(c) ==
  /\ call[c].at \in {"idle", "tryUnix", "tryTcp", "failed"} => ran[c] = 0
  /\ call[c].at = "answered" => ran[c] = 1
  /\ \A p \in Procs, t \in Transports :
       /\ Queued(c, p, t) => ran[c] = 0
       /\ InHand(c, p, t) => ran[c] = IF task[p][t] = "answer" THEN 1 ELSE 0

RanInv == Uncrashed => \A c \in Callers : Counted(c)

CallInv == ConnInv /\ RanInv

-----------------------------------------------------------------------------
(* The listeners follow the stages.                                        *)

\* No process has started yet.
LEMMA StageInit == Init => StageInv
<1> SUFFICES ASSUME Init PROVE StageInv
  OBVIOUS
<1> QED
  BY DEF Init, StageInv, ProcTypes, Listeners, MainStates, Stages, TaskStates, Binding,
         BeforeUnix, Rest, Gone, Over, Transports

\* A process that a step leaves alone.
LEMMA SameListeners ==
  ASSUME NEW q \in Procs, Listeners(q), main'[q] = main[q], stage'[q] = stage[q],
         task'[q] = task[q], shut'[q] = shut[q]
  PROVE  Listeners(q)'
  BY DEF Listeners, Rest, Gone, Over

\* A step of one process: it is enough to look at that one.
LEMMA OneProcess ==
  ASSUME StageInv, NEW p \in Procs, ProcTypes',
         \A q \in Procs \ {p} : /\ main'[q] = main[q] /\ stage'[q] = stage[q]
                                /\ task'[q] = task[q] /\ shut'[q] = shut[q],
         Listeners(p)'
  PROVE  StageInv'
<1> SUFFICES ASSUME NEW q \in Procs PROVE Listeners(q)'
  BY DEF StageInv
<1>1. CASE q # p
  BY <1>1, SameListeners DEF StageInv
<1> QED
  BY <1>1

\* Start-up.
LEMMA StartUpStages ==
  ASSUME StageInv, NEW p \in Procs,
         \/ ProbeUnix(p) \/ ProbeTcp(p) \/ ReleasePort(p) \/ DropStalePort(p)
         \/ Unlink(p) \/ BindUnix(p) \/ BindTcp(p) \/ WritePort(p)
         \/ ClearPort(p)
  PROVE  StageInv'
<1> USE DEF procVars, fileVars, callVars, Watch, Goto, SetTask, SetMain, At, CloseAll, Effect,
        Transports, MainStates, Stages, TaskStates, Binding
<1>0. ProcTypes /\ Listeners(p)
  BY DEF StageInv
<1>1. CASE ProbeUnix(p)
  <2>1. ProcTypes'
    BY <1>0, <1>1 DEF ProbeUnix, ProcTypes
  <2>2. \A q \in Procs \ {p} : /\ main'[q] = main[q] /\ stage'[q] = stage[q]
                               /\ task'[q] = task[q] /\ shut'[q] = shut[q]
    BY <1>0, <1>1 DEF ProbeUnix, ProcTypes
  <2>3. Listeners(p)'
    BY <1>0, <1>1 DEF ProbeUnix, ProcTypes, Listeners, BeforeUnix, Rest, Gone, Over
  <2> QED
    BY <2>1, <2>2, <2>3, OneProcess
<1>2. CASE ProbeTcp(p)
  <2>1. ProcTypes'
    BY <1>0, <1>2 DEF ProbeTcp, ProcTypes
  <2>2. \A q \in Procs \ {p} : /\ main'[q] = main[q] /\ stage'[q] = stage[q]
                               /\ task'[q] = task[q] /\ shut'[q] = shut[q]
    BY <1>0, <1>2 DEF ProbeTcp, ProcTypes
  <2>3. Listeners(p)'
    BY <1>0, <1>2 DEF ProbeTcp, ProcTypes, Listeners, BeforeUnix, Rest, Gone, Over
  <2> QED
    BY <2>1, <2>2, <2>3, OneProcess
<1>3. CASE ReleasePort(p)
  <2>1. ProcTypes'
    BY <1>0, <1>3 DEF ReleasePort, ProcTypes
  <2>2. \A q \in Procs \ {p} : /\ main'[q] = main[q] /\ stage'[q] = stage[q]
                               /\ task'[q] = task[q] /\ shut'[q] = shut[q]
    BY <1>0, <1>3 DEF ReleasePort, ProcTypes
  <2>3. Listeners(p)'
    BY <1>0, <1>3 DEF ReleasePort, ProcTypes, Listeners, BeforeUnix, Rest, Gone, Over
  <2> QED
    BY <2>1, <2>2, <2>3, OneProcess
<1>4. CASE DropStalePort(p)
  <2>1. ProcTypes'
    BY <1>0, <1>4 DEF DropStalePort, ProcTypes
  <2>2. \A q \in Procs \ {p} : /\ main'[q] = main[q] /\ stage'[q] = stage[q]
                               /\ task'[q] = task[q] /\ shut'[q] = shut[q]
    BY <1>0, <1>4 DEF DropStalePort, ProcTypes
  <2>3. Listeners(p)'
    BY <1>0, <1>4 DEF DropStalePort, ProcTypes, Listeners, BeforeUnix, Rest, Gone, Over
  <2> QED
    BY <2>1, <2>2, <2>3, OneProcess
<1>5. CASE Unlink(p)
  <2>1. ProcTypes'
    BY <1>0, <1>5 DEF Unlink, ProcTypes
  <2>2. \A q \in Procs \ {p} : /\ main'[q] = main[q] /\ stage'[q] = stage[q]
                               /\ task'[q] = task[q] /\ shut'[q] = shut[q]
    BY <1>0, <1>5 DEF Unlink, ProcTypes
  <2>3. Listeners(p)'
    BY <1>0, <1>5 DEF Unlink, ProcTypes, Listeners, BeforeUnix, Rest, Gone, Over
  <2> QED
    BY <2>1, <2>2, <2>3, OneProcess
<1>6. CASE BindUnix(p)
  <2>1. ProcTypes'
    <3>1. stage' \in [Procs -> Stages] /\ main' = main /\ shut' = shut /\ port' = port
      BY <1>0, <1>6 DEF BindUnix, ProcTypes
    <3>2. task' \in [Procs -> [Transports -> TaskStates]] /\ sock' \in Procs \cup {None}
      BY <1>0, <1>6 DEF BindUnix, ProcTypes
    <3>3. raced' \in BOOLEAN
      BY <1>6 DEF BindUnix, Disturbed
    <3> QED
      BY <1>0, <3>1, <3>2, <3>3 DEF ProcTypes
  <2>2. \A q \in Procs \ {p} : /\ main'[q] = main[q] /\ stage'[q] = stage[q]
                               /\ task'[q] = task[q] /\ shut'[q] = shut[q]
    BY <1>0, <1>6 DEF BindUnix, ProcTypes
  <2>3. Listeners(p)'
    BY <1>0, <1>6 DEF BindUnix, ProcTypes, Listeners, BeforeUnix, Rest, Gone, Over
  <2> QED
    BY <2>1, <2>2, <2>3, OneProcess
<1>7. CASE BindTcp(p)
  <2>1. ProcTypes'
    BY <1>0, <1>7 DEF BindTcp, ProcTypes
  <2>2. \A q \in Procs \ {p} : /\ main'[q] = main[q] /\ stage'[q] = stage[q]
                               /\ task'[q] = task[q] /\ shut'[q] = shut[q]
    BY <1>0, <1>7 DEF BindTcp, ProcTypes
  <2>3. Listeners(p)'
    BY <1>0, <1>7 DEF BindTcp, ProcTypes, Listeners, BeforeUnix, Rest, Gone, Over
  <2> QED
    BY <2>1, <2>2, <2>3, OneProcess
<1>8. CASE WritePort(p)
  <2>1. ProcTypes'
    BY <1>0, <1>8 DEF WritePort, ProcTypes
  <2>2. \A q \in Procs \ {p} : /\ main'[q] = main[q] /\ stage'[q] = stage[q]
                               /\ task'[q] = task[q] /\ shut'[q] = shut[q]
    BY <1>0, <1>8 DEF WritePort, ProcTypes
  <2>3. Listeners(p)'
    BY <1>0, <1>8 DEF WritePort, ProcTypes, Listeners, BeforeUnix, Rest, Gone, Over
  <2> QED
    BY <2>1, <2>2, <2>3, OneProcess
<1>9. CASE ClearPort(p)
  <2>1. ProcTypes'
    BY <1>0, <1>9 DEF ClearPort, ProcTypes
  <2>2. \A q \in Procs \ {p} : /\ main'[q] = main[q] /\ stage'[q] = stage[q]
                               /\ task'[q] = task[q] /\ shut'[q] = shut[q]
    BY <1>0, <1>9 DEF ClearPort, ProcTypes
  <2>3. Listeners(p)'
    BY <1>0, <1>9 DEF ClearPort, ProcTypes, Listeners, BeforeUnix, Rest, Gone, Over
  <2> QED
    BY <2>1, <2>2, <2>3, OneProcess
<1> QED
  BY <1>1, <1>2, <1>3, <1>4, <1>5, <1>6, <1>7, <1>8, <1>9

\* The main thread.
LEMMA MainStages ==
  ASSUME StageInv, NEW p \in Procs,
         \/ ServeReturns(p) \/ Delegate(p) \/ Delegated(p) \/ PlayHere(p)
         \/ PlaybackOver(p) \/ Unblock(p) \/ JoinServer(p) \/ PlayReturns(p)
         \/ Join(p)
  PROVE  StageInv'
<1> USE DEF procVars, fileVars, callVars, Watch, Goto, SetTask, SetMain, At, CloseAll, Effect,
        Transports, MainStates, Stages, TaskStates, Binding
<1>0. ProcTypes /\ Listeners(p)
  BY DEF StageInv
<1>1. CASE ServeReturns(p)
  <2>1. ProcTypes'
    BY <1>0, <1>1 DEF ServeReturns, ProcTypes
  <2>2. \A q \in Procs \ {p} : /\ main'[q] = main[q] /\ stage'[q] = stage[q]
                               /\ task'[q] = task[q] /\ shut'[q] = shut[q]
    BY <1>0, <1>1 DEF ServeReturns, ProcTypes
  <2>3. Listeners(p)'
    BY <1>0, <1>1 DEF ServeReturns, ProcTypes, Listeners, BeforeUnix, Rest, Gone, Over
  <2> QED
    BY <2>1, <2>2, <2>3, OneProcess
<1>2. CASE Delegate(p)
  <2>1. ProcTypes'
    BY <1>0, <1>2 DEF Delegate, ProcTypes
  <2>2. \A q \in Procs \ {p} : /\ main'[q] = main[q] /\ stage'[q] = stage[q]
                               /\ task'[q] = task[q] /\ shut'[q] = shut[q]
    BY <1>0, <1>2 DEF Delegate, ProcTypes
  <2>3. Listeners(p)'
    BY <1>0, <1>2 DEF Delegate, ProcTypes, Listeners, BeforeUnix, Rest, Gone, Over
  <2> QED
    BY <2>1, <2>2, <2>3, OneProcess
<1>3. CASE Delegated(p)
  <2>1. ProcTypes'
    BY <1>0, <1>3 DEF Delegated, ProcTypes
  <2>2. \A q \in Procs \ {p} : /\ main'[q] = main[q] /\ stage'[q] = stage[q]
                               /\ task'[q] = task[q] /\ shut'[q] = shut[q]
    BY <1>0, <1>3 DEF Delegated, ProcTypes
  <2>3. Listeners(p)'
    BY <1>0, <1>3 DEF Delegated, ProcTypes, Listeners, BeforeUnix, Rest, Gone, Over
  <2> QED
    BY <2>1, <2>2, <2>3, OneProcess
<1>4. CASE PlayHere(p)
  <2>1. ProcTypes'
    BY <1>0, <1>4 DEF PlayHere, ProcTypes
  <2>2. \A q \in Procs \ {p} : /\ main'[q] = main[q] /\ stage'[q] = stage[q]
                               /\ task'[q] = task[q] /\ shut'[q] = shut[q]
    BY <1>0, <1>4 DEF PlayHere, ProcTypes
  <2>3. Listeners(p)'
    BY <1>0, <1>4 DEF PlayHere, ProcTypes, Listeners, BeforeUnix, Rest, Gone, Over
  <2> QED
    BY <2>1, <2>2, <2>3, OneProcess
<1>5. CASE PlaybackOver(p)
  <2>1. ProcTypes'
    BY <1>0, <1>5 DEF PlaybackOver, ProcTypes
  <2>2. \A q \in Procs \ {p} : /\ main'[q] = main[q] /\ stage'[q] = stage[q]
                               /\ task'[q] = task[q] /\ shut'[q] = shut[q]
    BY <1>0, <1>5 DEF PlaybackOver, ProcTypes
  <2>3. Listeners(p)'
    BY <1>0, <1>5 DEF PlaybackOver, ProcTypes, Listeners, BeforeUnix, Rest, Gone, Over
  <2> QED
    BY <2>1, <2>2, <2>3, OneProcess
<1>6. CASE Unblock(p)
  <2>1. ProcTypes'
    BY <1>0, <1>6 DEF Unblock, ProcTypes
  <2>2. \A q \in Procs \ {p} : /\ main'[q] = main[q] /\ stage'[q] = stage[q]
                               /\ task'[q] = task[q] /\ shut'[q] = shut[q]
    BY <1>0, <1>6 DEF Unblock, ProcTypes
  <2>3. Listeners(p)'
    BY <1>0, <1>6 DEF Unblock, ProcTypes, Listeners, BeforeUnix, Rest, Gone, Over
  <2> QED
    BY <2>1, <2>2, <2>3, OneProcess
<1>7. CASE JoinServer(p)
  <2>1. ProcTypes'
    BY <1>0, <1>7 DEF JoinServer, ProcTypes
  <2>2. \A q \in Procs \ {p} : /\ main'[q] = main[q] /\ stage'[q] = stage[q]
                               /\ task'[q] = task[q] /\ shut'[q] = shut[q]
    BY <1>0, <1>7 DEF JoinServer, ProcTypes
  <2>3. Listeners(p)'
    BY <1>0, <1>7 DEF JoinServer, ProcTypes, Listeners, BeforeUnix, Rest, Gone, Over
  <2> QED
    BY <2>1, <2>2, <2>3, OneProcess
<1>8. CASE PlayReturns(p)
  <2>1. ProcTypes'
    BY <1>0, <1>8 DEF PlayReturns, ProcTypes
  <2>2. \A q \in Procs \ {p} : /\ main'[q] = main[q] /\ stage'[q] = stage[q]
                               /\ task'[q] = task[q] /\ shut'[q] = shut[q]
    BY <1>0, <1>8 DEF PlayReturns, ProcTypes
  <2>3. Listeners(p)'
    BY <1>0, <1>8 DEF PlayReturns, ProcTypes, Listeners, BeforeUnix, Rest, Gone, Over
  <2> QED
    BY <2>1, <2>2, <2>3, OneProcess
<1>9. CASE Join(p)
  <2>1. ProcTypes'
    BY <1>0, <1>9 DEF Join, ProcTypes
  <2>2. \A q \in Procs \ {p} : /\ main'[q] = main[q] /\ stage'[q] = stage[q]
                               /\ task'[q] = task[q] /\ shut'[q] = shut[q]
    BY <1>0, <1>9 DEF Join, ProcTypes
  <2>3. Listeners(p)'
    BY <1>0, <1>9 DEF Join, ProcTypes, Listeners, BeforeUnix, Rest, Gone, Over
  <2> QED
    BY <2>1, <2>2, <2>3, OneProcess
<1> QED
  BY <1>1, <1>2, <1>3, <1>4, <1>5, <1>6, <1>7, <1>8, <1>9

\* What others do to a process.
LEMMA OutsideStages ==
  ASSUME StageInv, NEW p \in Procs,
         \/ Serve(p) \/ Signal(p) \/ Play(p) \/ Crash(p)
  PROVE  StageInv'
<1> USE DEF procVars, fileVars, callVars, Watch, Goto, SetTask, SetMain, At, CloseAll, Effect,
        Transports, MainStates, Stages, TaskStates, Binding
<1>0. ProcTypes /\ Listeners(p)
  BY DEF StageInv
<1>1. CASE Serve(p)
  <2>1. ProcTypes'
    BY <1>0, <1>1 DEF Serve, ProcTypes
  <2>2. \A q \in Procs \ {p} : /\ main'[q] = main[q] /\ stage'[q] = stage[q]
                               /\ task'[q] = task[q] /\ shut'[q] = shut[q]
    BY <1>0, <1>1 DEF Serve, ProcTypes
  <2>3. Listeners(p)'
    BY <1>0, <1>1 DEF Serve, ProcTypes, Listeners, BeforeUnix, Rest, Gone, Over
  <2> QED
    BY <2>1, <2>2, <2>3, OneProcess
<1>2. CASE Signal(p)
  <2>1. ProcTypes'
    BY <1>0, <1>2 DEF Signal, ProcTypes
  <2>2. \A q \in Procs \ {p} : /\ main'[q] = main[q] /\ stage'[q] = stage[q]
                               /\ task'[q] = task[q] /\ shut'[q] = shut[q]
    BY <1>0, <1>2 DEF Signal, ProcTypes
  <2>3. Listeners(p)'
    BY <1>0, <1>2 DEF Signal, ProcTypes, Listeners, BeforeUnix, Rest, Gone, Over
  <2> QED
    BY <2>1, <2>2, <2>3, OneProcess
<1>3. CASE Play(p)
  <2>1. ProcTypes'
    BY <1>0, <1>3 DEF Play, ProcTypes
  <2>2. \A q \in Procs \ {p} : /\ main'[q] = main[q] /\ stage'[q] = stage[q]
                               /\ task'[q] = task[q] /\ shut'[q] = shut[q]
    BY <1>0, <1>3 DEF Play, ProcTypes
  <2>3. Listeners(p)'
    BY <1>0, <1>3 DEF Play, ProcTypes, Listeners, BeforeUnix, Rest, Gone, Over
  <2> QED
    BY <2>1, <2>2, <2>3, OneProcess
<1>4. CASE Crash(p)
  <2>1. ProcTypes'
    BY <1>0, <1>4 DEF Crash, ProcTypes
  <2>2. \A q \in Procs \ {p} : /\ main'[q] = main[q] /\ stage'[q] = stage[q]
                               /\ task'[q] = task[q] /\ shut'[q] = shut[q]
    BY <1>0, <1>4 DEF Crash, ProcTypes
  <2>3. Listeners(p)'
    BY <1>0, <1>4 DEF Crash, ProcTypes, Listeners, BeforeUnix, Rest, Gone, Over
  <2> QED
    BY <2>1, <2>2, <2>3, OneProcess
<1> QED
  BY <1>1, <1>2, <1>3, <1>4

\* The accept loops.
LEMMA LoopStages ==
  ASSUME StageInv, NEW p \in Procs, NEW t \in Transports,
         \/ Check(p, t) \/ RemoveFile(p, t) \/ Accept(p, t) \/ ReadEof(p, t)
         \/ Handle(p, t) \/ Answer(p, t)
  PROVE  StageInv'
<1> USE DEF procVars, fileVars, callVars, Watch, Goto, SetTask, SetMain, At, CloseAll, Effect,
        Transports, MainStates, Stages, TaskStates, Binding
<1>0. ProcTypes /\ Listeners(p)
  BY DEF StageInv
<1>1. CASE Check(p, t)
  <2>1. ProcTypes'
    BY <1>0, <1>1 DEF Check, ProcTypes
  <2>2. \A q \in Procs \ {p} : /\ main'[q] = main[q] /\ stage'[q] = stage[q]
                               /\ task'[q] = task[q] /\ shut'[q] = shut[q]
    BY <1>0, <1>1 DEF Check, ProcTypes
  <2>3. Listeners(p)'
    BY <1>0, <1>1 DEF Check, ProcTypes, Listeners, BeforeUnix, Rest, Gone, Over
  <2> QED
    BY <2>1, <2>2, <2>3, OneProcess
<1>2. CASE RemoveFile(p, t)
  <2>1. ProcTypes'
    BY <1>0, <1>2 DEF RemoveFile, ProcTypes
  <2>2. \A q \in Procs \ {p} : /\ main'[q] = main[q] /\ stage'[q] = stage[q]
                               /\ task'[q] = task[q] /\ shut'[q] = shut[q]
    BY <1>0, <1>2 DEF RemoveFile, ProcTypes
  <2>3. Listeners(p)'
    BY <1>0, <1>2 DEF RemoveFile, ProcTypes, Listeners, BeforeUnix, Rest, Gone, Over
  <2> QED
    BY <2>1, <2>2, <2>3, OneProcess
<1>3. CASE Accept(p, t)
  <2>1. ProcTypes'
    BY <1>0, <1>3 DEF Accept, ProcTypes
  <2>2. \A q \in Procs \ {p} : /\ main'[q] = main[q] /\ stage'[q] = stage[q]
                               /\ task'[q] = task[q] /\ shut'[q] = shut[q]
    BY <1>0, <1>3 DEF Accept, ProcTypes
  <2>3. Listeners(p)'
    BY <1>0, <1>3 DEF Accept, ProcTypes, Listeners, BeforeUnix, Rest, Gone, Over
  <2> QED
    BY <2>1, <2>2, <2>3, OneProcess
<1>4. CASE ReadEof(p, t)
  <2>1. ProcTypes'
    BY <1>0, <1>4 DEF ReadEof, ProcTypes
  <2>2. \A q \in Procs \ {p} : /\ main'[q] = main[q] /\ stage'[q] = stage[q]
                               /\ task'[q] = task[q] /\ shut'[q] = shut[q]
    BY <1>0, <1>4 DEF ReadEof, ProcTypes
  <2>3. Listeners(p)'
    BY <1>0, <1>4 DEF ReadEof, ProcTypes, Listeners, BeforeUnix, Rest, Gone, Over
  <2> QED
    BY <2>1, <2>2, <2>3, OneProcess
<1>5. CASE Handle(p, t)
  <2>1. ProcTypes'
    BY <1>0, <1>5 DEF Handle, ProcTypes
  <2>2. \A q \in Procs \ {p} : /\ main'[q] = main[q] /\ stage'[q] = stage[q]
                               /\ task'[q] = task[q] /\ shut'[q] = shut[q]
    BY <1>0, <1>5 DEF Handle, ProcTypes
  <2>3. Listeners(p)'
    BY <1>0, <1>5 DEF Handle, ProcTypes, Listeners, BeforeUnix, Rest, Gone, Over
  <2> QED
    BY <2>1, <2>2, <2>3, OneProcess
<1>6. CASE Answer(p, t)
  <2>1. ProcTypes'
    BY <1>0, <1>6 DEF Answer, ProcTypes
  <2>2. \A q \in Procs \ {p} : /\ main'[q] = main[q] /\ stage'[q] = stage[q]
                               /\ task'[q] = task[q] /\ shut'[q] = shut[q]
    BY <1>0, <1>6 DEF Answer, ProcTypes
  <2>3. Listeners(p)'
    BY <1>0, <1>6 DEF Answer, ProcTypes, Listeners, BeforeUnix, Rest, Gone, Over
  <2> QED
    BY <2>1, <2>2, <2>3, OneProcess
<1> QED
  BY <1>1, <1>2, <1>3, <1>4, <1>5, <1>6

\* The callers do not touch the processes.
LEMMA CallerStages ==
  ASSUME StageInv, \/ \E c \in Callers : Asks(c)
                   \/ \E c \in Clients, m \in Commands : Invoke(c, m)
                   \/ UNCHANGED vars
  PROVE  StageInv'
<1>1. main' = main /\ stage' = stage /\ task' = task /\ shut' = shut /\ fileVars' = fileVars
  BY DEF Asks, TryUnix, TryTcp, Invoke, vars, procVars
<1>2. raced' = raced \/ raced' = (raced \/ Disturbed')
  BY DEF Asks, TryUnix, TryTcp, Invoke, vars, Watch
<1>3. ProcTypes /\ ProcTypes'
  BY <1>1, <1>2 DEF StageInv, ProcTypes, fileVars
<1> QED
  BY <1>1, <1>3, SameListeners DEF StageInv

\* Every step keeps listeners and stages together.
LEMMA StageStep == StageInv /\ [Next]_vars => StageInv'
<1> SUFFICES ASSUME StageInv, [Next]_vars PROVE StageInv'
  OBVIOUS
<1>1. ASSUME NEW p \in Procs, StartUp(p) PROVE StageInv'
  BY <1>1, StartUpStages DEF StartUp
<1>2. ASSUME NEW p \in Procs, MainStep(p) PROVE StageInv'
  BY <1>2, MainStages DEF MainStep
<1>3. ASSUME NEW p \in Procs, Serve(p) \/ Signal(p) \/ Play(p) \/ Crash(p) PROVE StageInv'
  BY <1>3, OutsideStages
<1>4. ASSUME NEW p \in Procs, NEW t \in Transports, Serves(p, t) PROVE StageInv'
  BY <1>4, LoopStages DEF Serves
<1> QED
  BY <1>1, <1>2, <1>3, <1>4, CallerStages DEF Next

-----------------------------------------------------------------------------
(* Without an overlap the files lead to the only instance.                 *)

\* Nothing listens at first, and no file is there.
LEMMA FoundInit == Init => FoundInv
<1> SUFFICES ASSUME Init PROVE Undisturbed
  BY DEF FoundInv
<1> QED
  BY DEF Init, Undisturbed, Disturbed, Starting, Binding, Closing, Gone, Live, Open, Transports,
         PastUnix, PastTcp

\* A step that opens no listener, lets no start-up past a probe and keeps the
\* files of those who listen.
Shrinks ==
  /\ \A q \in Procs, t \in Transports :
       /\ task'[q][t] \notin {"none", "done"} => task[q][t] \notin {"none", "done"}
       /\ task'[q][t] \notin {"none", "closed", "done"} => Open(q, t)
  /\ \A q \in Procs :
       /\ main[q] \in {"exited", "crashed"} => main'[q] \in {"exited", "crashed"}
       /\ stage'[q] \in PastUnix => stage[q] \in PastUnix
       /\ stage'[q] \in PastTcp => stage[q] \in PastTcp
       /\ task'[q]["unix"] \notin {"none", "closed", "done"} => sock' = sock
       /\ /\ q \notin FixedTcp /\ stage'[q] = "serving"
          /\ task'[q]["tcp"] \notin {"none", "closed", "done"}
          => stage[q] = "serving" /\ port' = port

\* A step in which listeners only go away, and files only of theirs, disturbs nothing.
LEMMA ShrinksIsFine ==
  ASSUME FoundInv, Shrinks, Watch
  PROVE  FoundInv'
<1> SUFFICES ASSUME ~raced' PROVE Undisturbed'
  BY DEF FoundInv
<1>1. ~raced /\ Undisturbed /\ ~Disturbed'
  BY DEF Watch, FoundInv
<1>2. \A q \in Procs : /\ Live(q)' => Live(q)
                       /\ \A t \in Transports : Open(q, t)' => Open(q, t)
                       /\ Gone(q) => Gone(q)'
  BY DEF Shrinks, Live, Open, Gone
<1>3. \A p, q \in Procs : p # q => ~(Live(p)' /\ Live(q)')
  BY <1>1, <1>2 DEF Undisturbed
<1>4. \A p \in Procs :
        /\ Open(p, "unix")' => sock' = p
        /\ Open(p, "tcp")' /\ p \notin FixedTcp /\ stage'[p] = "serving" => port' = p
  BY <1>1, <1>2 DEF Undisturbed, Shrinks, Open, Transports
<1>5. \A q \in Procs, p \in Procs : p # q /\ ~Gone(q)' =>
        /\ stage'[q] \in PastUnix => ~Open(p, "unix")'
        /\ stage'[q] \in PastTcp => ~Live(p)'
  <2> SUFFICES ASSUME NEW q \in Procs, NEW p \in Procs, p # q, ~Gone(q)'
               PROVE  /\ stage'[q] \in PastUnix => ~Open(p, "unix")'
                      /\ stage'[q] \in PastTcp => ~Live(p)'
    OBVIOUS
  <2>1. ~Gone(q) /\ "unix" \in Transports
    BY DEF Transports, Shrinks, Gone
  <2>2. /\ stage[q] \in PastUnix => ~Open(p, "unix")
        /\ stage[q] \in PastTcp => ~Live(p)
    BY <1>1, <2>1 DEF Undisturbed
  <2>3. /\ stage'[q] \in PastUnix => stage[q] \in PastUnix
        /\ stage'[q] \in PastTcp => stage[q] \in PastTcp
    BY DEF Shrinks
  <2> QED
    BY <2>1, <2>2, <2>3 DEF Shrinks, Open, Live
<1> QED
  BY <1>1, <1>3, <1>4, <1>5 DEF Undisturbed, PastUnix, PastTcp

\* Steps that touch neither the files nor a probe.
LEMMA MainFound ==
  ASSUME StageInv, FoundInv, NEW p \in Procs,
         \/ ReleasePort(p) \/ ServeReturns(p) \/ Delegate(p) \/ Delegated(p)
         \/ PlayHere(p) \/ PlaybackOver(p) \/ Unblock(p) \/ JoinServer(p)
         \/ Join(p) \/ Serve(p) \/ Signal(p) \/ Play(p)
         \/ Crash(p)
  PROVE  FoundInv'
<1> USE DEF procVars, fileVars, callVars, Goto, SetTask, SetMain, At, CloseAll, Effect,
        Transports, Gone
<1>0. ProcTypes
  BY DEF StageInv
<1>1. CASE ReleasePort(p)
  <2>1. Shrinks
    BY <1>0, <1>1 DEF ReleasePort, Shrinks, ProcTypes, Open, PastUnix, PastTcp, Binding
  <2> QED
    BY <1>1, <2>1, ShrinksIsFine DEF ReleasePort
<1>2. CASE ServeReturns(p)
  <2>1. Shrinks
    BY <1>0, <1>2 DEF ServeReturns, Shrinks, ProcTypes, Open, PastUnix, PastTcp, Binding
  <2> QED
    BY <1>2, <2>1, ShrinksIsFine DEF ServeReturns
<1>3. CASE Delegate(p)
  <2>1. Shrinks
    BY <1>0, <1>3 DEF Delegate, Shrinks, ProcTypes, Open, PastUnix, PastTcp, Binding
  <2> QED
    BY <1>3, <2>1, ShrinksIsFine DEF Delegate
<1>4. CASE Delegated(p)
  <2>1. Shrinks
    BY <1>0, <1>4 DEF Delegated, Shrinks, ProcTypes, Open, PastUnix, PastTcp, Binding
  <2> QED
    BY <1>4, <2>1, ShrinksIsFine DEF Delegated
<1>5. CASE PlayHere(p)
  <2>1. Shrinks
    BY <1>0, <1>5 DEF PlayHere, Shrinks, ProcTypes, Open, PastUnix, PastTcp, Binding
  <2> QED
    BY <1>5, <2>1, ShrinksIsFine DEF PlayHere
<1>6. CASE PlaybackOver(p)
  <2>1. Shrinks
    BY <1>0, <1>6 DEF PlaybackOver, Shrinks, ProcTypes, Open, PastUnix, PastTcp, Binding
  <2> QED
    BY <1>6, <2>1, ShrinksIsFine DEF PlaybackOver
<1>7. CASE Unblock(p)
  <2>1. Shrinks
    BY <1>0, <1>7 DEF Unblock, Shrinks, ProcTypes, Open, PastUnix, PastTcp, Binding
  <2> QED
    BY <1>7, <2>1, ShrinksIsFine DEF Unblock
<1>8. CASE JoinServer(p)
  <2>1. Shrinks
    BY <1>0, <1>8 DEF JoinServer, Shrinks, ProcTypes, Open, PastUnix, PastTcp, Binding
  <2> QED
    BY <1>8, <2>1, ShrinksIsFine DEF JoinServer
<1>9. CASE Join(p)
  <2>1. Shrinks
    BY <1>0, <1>9 DEF Join, Shrinks, ProcTypes, Open, PastUnix, PastTcp, Binding
  <2> QED
    BY <1>9, <2>1, ShrinksIsFine DEF Join
<1>10. CASE Serve(p)
  <2>1. Shrinks
    BY <1>0, <1>10 DEF Serve, Shrinks, ProcTypes, Open, PastUnix, PastTcp, Binding
  <2> QED
    BY <1>10, <2>1, ShrinksIsFine DEF Serve
<1>11. CASE Signal(p)
  <2>1. Shrinks
    BY <1>0, <1>11 DEF Signal, Shrinks, ProcTypes, Open, PastUnix, PastTcp, Binding
  <2> QED
    BY <1>11, <2>1, ShrinksIsFine DEF Signal
<1>12. CASE Play(p)
  <2>1. Shrinks
    BY <1>0, <1>12 DEF Play, Shrinks, ProcTypes, Open, PastUnix, PastTcp, Binding
  <2> QED
    BY <1>12, <2>1, ShrinksIsFine DEF Play
<1>13. CASE Crash(p)
  <2>1. Shrinks
    BY <1>0, <1>13 DEF Crash, Shrinks, ProcTypes, Open, PastUnix, PastTcp, Binding
  <2> QED
    BY <1>13, <2>1, ShrinksIsFine DEF Crash
<1> QED
  BY <1>1, <1>2, <1>3, <1>4, <1>5, <1>6, <1>7, <1>8, <1>9, <1>10, <1>11, <1>12, <1>13

\* The accept loops, but for the removal of their files.
LEMMA LoopFound ==
  ASSUME StageInv, FoundInv, NEW p \in Procs, NEW t \in Transports,
         \/ Check(p, t) \/ Accept(p, t) \/ ReadEof(p, t) \/ Handle(p, t)
         \/ Answer(p, t)
  PROVE  FoundInv'
<1> USE DEF procVars, fileVars, callVars, Goto, SetTask, SetMain, At, CloseAll, Effect,
        Transports, Gone
<1>0. ProcTypes
  BY DEF StageInv
<1>1. CASE Check(p, t)
  <2>1. Shrinks
    BY <1>0, <1>1 DEF Check, Shrinks, ProcTypes, Open, PastUnix, PastTcp, Binding
  <2> QED
    BY <1>1, <2>1, ShrinksIsFine DEF Check
<1>2. CASE Accept(p, t)
  <2>1. Shrinks
    BY <1>0, <1>2 DEF Accept, Shrinks, ProcTypes, Open, PastUnix, PastTcp, Binding
  <2> QED
    BY <1>2, <2>1, ShrinksIsFine DEF Accept
<1>3. CASE ReadEof(p, t)
  <2>1. Shrinks
    BY <1>0, <1>3 DEF ReadEof, Shrinks, ProcTypes, Open, PastUnix, PastTcp, Binding
  <2> QED
    BY <1>3, <2>1, ShrinksIsFine DEF ReadEof
<1>4. CASE Handle(p, t)
  <2>1. Shrinks
    BY <1>0, <1>4 DEF Handle, Shrinks, ProcTypes, Open, PastUnix, PastTcp, Binding
  <2> QED
    BY <1>4, <2>1, ShrinksIsFine DEF Handle
<1>5. CASE Answer(p, t)
  <2>1. Shrinks
    BY <1>0, <1>5 DEF Answer, Shrinks, ProcTypes, Open, PastUnix, PastTcp, Binding
  <2> QED
    BY <1>5, <2>1, ShrinksIsFine DEF Answer
<1> QED
  BY <1>1, <1>2, <1>3, <1>4, <1>5

\* The start-up.  Whoever is past a probe knows that nobody else can be found.
LEMMA StartUpFound ==
  ASSUME StageInv, FoundInv, NEW p \in Procs,
         \/ ProbeUnix(p) \/ ProbeTcp(p) \/ DropStalePort(p) \/ Unlink(p)
         \/ BindUnix(p) \/ BindTcp(p) \/ WritePort(p) \/ ClearPort(p)
  PROVE  FoundInv'
<1> SUFFICES ASSUME ~raced' PROVE Undisturbed'
  BY DEF FoundInv
<1> USE DEF Goto, SetTask, At, fileVars, Transports
<1>1. /\ Watch /\ ~Gone(p) /\ main' = main /\ p \in Procs
      /\ \A q \in Procs : Gone(q)' <=> Gone(q)
  BY DEF ProbeUnix, ProbeTcp, DropStalePort, Unlink, BindUnix, BindTcp, WritePort, ClearPort, Gone
<1>2. ~raced /\ Undisturbed /\ ~Disturbed' /\ ~Disturbed
  BY <1>1 DEF Watch, FoundInv, Undisturbed
<1>3. ProcTypes /\ Listeners(p)
  BY DEF StageInv
<1>4. stage[p] \in Binding
  BY DEF ProbeUnix, ProbeTcp, DropStalePort, Unlink, BindUnix, BindTcp, WritePort, ClearPort, Binding
\* Nobody else starts or closes.
<1>5. \A q \in Procs \ {p} : ~Gone(q) =>
        stage[q] \notin Binding /\ \A t \in Transports : task[q][t] # "closed"
  BY <1>1, <1>2, <1>4 DEF Disturbed, Starting, Closing
<1>6. \A q \in Procs : Gone(q) => \A t \in Transports : task[q][t] \in {"none", "done"}
  BY DEF StageInv, Listeners, Rest
\* A step of p once it is past both probes: nobody else is live.
<1>7. ASSUME stage[p] \in PastTcp,
             stage' = [stage EXCEPT ![p] = stage'[p]],
             \A q \in Procs \ {p} : task'[q] = task[q],
             Open(p, "unix")' => sock' = p,
             Open(p, "tcp")' /\ p \notin FixedTcp /\ stage'[p] = "serving" => port' = p
      PROVE  Undisturbed'
  <2>1. \A q \in Procs \ {p} : ~Live(q) /\ ~Live(q)' /\ ~Open(q, "unix")'
                               /\ (q \notin FixedTcp => ~Open(q, "tcp")')
    <3> SUFFICES ASSUME NEW q \in Procs \ {p}
                 PROVE  ~Live(q) /\ ~Live(q)' /\ ~Open(q, "unix")'
                        /\ (q \notin FixedTcp => ~Open(q, "tcp")')
      OBVIOUS
    <3>1. ~Live(q)
      BY <1>1, <1>2, <1>7 DEF Undisturbed
    <3> QED
      BY <3>1, <1>7 DEF Live, Open
  <2>2. \A q \in Procs \ {p} : ~Gone(q)' => stage'[q] \notin PastUnix
    BY <1>1, <1>3, <1>5, <1>7 DEF PastUnix, ProcTypes
  <2>3. \A q \in Procs, r \in Procs : q # r => ~(Live(q)' /\ Live(r)')
    BY <2>1
  <2>4. \A q \in Procs :
          /\ Open(q, "unix")' => sock' = q
          /\ Open(q, "tcp")' /\ q \notin FixedTcp /\ stage'[q] = "serving" => port' = q
    BY <1>7, <2>1
  <2>5. \A q \in Procs, r \in Procs : r # q /\ ~Gone(q)' =>
          /\ stage'[q] \in PastUnix => ~Open(r, "unix")'
          /\ stage'[q] \in PastTcp => ~Live(r)'
    BY <2>1, <2>2 DEF PastTcp
  <2> QED
    BY <1>2, <2>3, <2>4, <2>5 DEF Undisturbed, PastUnix, PastTcp
\* A probe: the listeners and the files stay as they are.
<1>8. ASSUME task' = task, sock' = sock, port' = port,
             stage' = [stage EXCEPT ![p] = stage'[p]], stage'[p] # "serving",
             stage'[p] \in PastUnix => \A q \in Procs \ {p} : ~Open(q, "unix"),
             stage'[p] \in PastTcp => \A q \in Procs \ {p} : ~Live(q)
      PROVE  Undisturbed'
  <2>1. \A q \in Procs : /\ Live(q)' <=> Live(q)
                         /\ \A t \in Transports : Open(q, t)' <=> Open(q, t)
    BY <1>8 DEF Live, Open
  <2>2. \A q \in Procs \ {p} : stage'[q] = stage[q]
    BY <1>3, <1>8 DEF ProcTypes
  <2>3. \A q, r \in Procs : q # r => ~(Live(q)' /\ Live(r)')
    BY <1>2, <2>1 DEF Undisturbed
  <2>4. \A q \in Procs :
          /\ Open(q, "unix")' => sock' = q
          /\ Open(q, "tcp")' /\ q \notin FixedTcp /\ stage'[q] = "serving" => port' = q
    BY <1>2, <1>8, <2>1, <2>2 DEF Undisturbed
  <2>5. \A q \in Procs, r \in Procs : r # q /\ ~Gone(q)' =>
          /\ stage'[q] \in PastUnix => ~Open(r, "unix")'
          /\ stage'[q] \in PastTcp => ~Live(r)'
    BY <1>1, <1>2, <1>8, <2>1, <2>2 DEF Undisturbed
  <2> QED
    BY <1>2, <2>3, <2>4, <2>5 DEF Undisturbed, PastUnix, PastTcp
<1>9. CASE ProbeUnix(p)
  <2>1. task' = task /\ sock' = sock /\ port' = port
        /\ stage' = [stage EXCEPT ![p] = stage'[p]] /\ stage'[p] \in {"refused", "probeTcp"}
    BY <1>3, <1>9 DEF ProbeUnix, ProcTypes
  <2>2. stage'[p] = "probeTcp" => \A q \in Procs \ {p} : ~Open(q, "unix")
    <3>1. stage'[p] = "probeTcp" => ~(sock # None /\ Open(sock, "unix"))
      BY <1>3, <1>9 DEF ProbeUnix, ProcTypes
    <3>2. \A q \in Procs : Open(q, "unix") => sock = q /\ q # None
      BY <1>2, ServiceAssumption DEF Undisturbed
    <3> QED
      BY <3>1, <3>2
  <2> QED
    BY <1>8, <2>1, <2>2 DEF PastUnix, PastTcp, Binding
<1>10. CASE ProbeTcp(p)
  <2>1. /\ task' = task /\ sock' = sock /\ port' = port
        /\ stage' = [stage EXCEPT ![p] = stage'[p]]
        /\ stage'[p] \in {"refused", "unlink", "holdPort"}
    BY <1>3, <1>10 DEF ProbeTcp, ProcTypes
  <2>2. stage[p] \in PastUnix
    BY <1>10 DEF ProbeTcp, PastUnix, Binding
  <2>3. ASSUME stage'[p] # "refused", NEW q \in Procs \ {p} PROVE ~Live(q) /\ ~Open(q, "unix")
    <3>1. ~Open(q, "unix")
      BY <1>1, <1>2, <2>2 DEF Undisturbed
    <3>2. port = None \/ ~Open(port, "tcp")
      BY <1>3, <1>10, <2>3 DEF ProbeTcp, ProcTypes, InUse
    <3>3. CASE Gone(q)
      BY <1>6, <3>1, <3>3 DEF Live
    <3>4. CASE ~Gone(q) /\ q \notin FixedTcp /\ Open(q, "tcp")
      <4>1. stage[q] \notin Binding
        BY <1>5, <3>4
      <4>2. stage[q] = "serving"
        BY <3>4, <4>1 DEF StageInv, Listeners, ProcTypes, Stages, BeforeUnix, Rest, Open, Binding
      <4>3. port = q
        BY <1>2, <3>4, <4>2 DEF Undisturbed
      <4> QED
        BY <3>2, <3>4, <4>3, ServiceAssumption
    <3>5. CASE ~Gone(q) /\ ~(q \notin FixedTcp /\ Open(q, "tcp"))
      BY <1>5, <3>1, <3>5 DEF Live, Open
    <3> QED
      BY <3>1, <3>3, <3>4, <3>5
  <2> QED
    BY <1>8, <2>1, <2>3 DEF PastUnix, PastTcp, Binding
<1>11. CASE DropStalePort(p) \/ Unlink(p)
  <2>1. /\ stage[p] \in PastTcp /\ task' = task
        /\ stage' = [stage EXCEPT ![p] = stage'[p]]
    BY <1>3, <1>11 DEF DropStalePort, Unlink, ProcTypes, PastTcp, PastUnix, Binding
  <2>2. \A t \in Transports : task[p][t] = "none"
    BY <1>3, <1>11 DEF DropStalePort, Unlink, Listeners, BeforeUnix
  <2> QED
    BY <1>7, <2>1, <2>2 DEF Open
<1>12. CASE BindUnix(p)
  <2>1. /\ stage[p] \in PastTcp /\ stage' = [stage EXCEPT ![p] = stage'[p]]
        /\ stage'[p] # "serving"
    BY <1>3, <1>12 DEF BindUnix, ProcTypes, PastTcp, PastUnix, Binding
  <2>2. \A q \in Procs \ {p} : task'[q] = task[q]
    BY <1>3, <1>12 DEF BindUnix, ProcTypes
  <2>3. \A t \in Transports : task[p][t] = "none"
    BY <1>3, <1>12 DEF BindUnix, Listeners, BeforeUnix
  <2>4. Open(p, "unix")' => sock' = p
    BY <1>12, <2>3 DEF BindUnix, Open
  <2> QED
    BY <1>7, <2>1, <2>2, <2>4
<1>13. CASE BindTcp(p)
  <2>1. /\ stage[p] \in PastTcp /\ stage' = [stage EXCEPT ![p] = stage'[p]]
        /\ sock' = sock /\ (p \notin FixedTcp => stage'[p] # "serving")
    BY <1>3, <1>13 DEF BindTcp, ProcTypes, PastTcp, PastUnix, Binding
  <2>2. \A q \in Procs \ {p} : task'[q] = task[q]
    BY <1>3, <1>13 DEF BindTcp, ProcTypes, CloseAll
  <2>3. Open(p, "unix")' => Open(p, "unix")
    BY <1>3, <1>13 DEF BindTcp, ProcTypes, CloseAll, Open
  <2>4. Open(p, "unix")' => sock' = p
    BY <1>2, <2>1, <2>3 DEF Undisturbed
  <2> QED
    BY <1>7, <2>1, <2>2, <2>4
<1>14. CASE WritePort(p)
  <2>1. /\ stage[p] \in PastTcp /\ stage' = [stage EXCEPT ![p] = stage'[p]]
        /\ task' = task /\ sock' = sock /\ port' = p
    BY <1>3, <1>14 DEF WritePort, ProcTypes, PastTcp, PastUnix, Binding
  <2>2. Open(p, "unix")' => sock' = p
    BY <1>2, <2>1 DEF Undisturbed, Open
  <2> QED
    BY <1>7, <2>1, <2>2
<1>15. CASE ClearPort(p)
  <2>1. /\ stage[p] \in PastTcp /\ stage' = [stage EXCEPT ![p] = stage'[p]]
        /\ task' = task /\ sock' = sock
    BY <1>3, <1>15 DEF ClearPort, ProcTypes, PastTcp, PastUnix, Binding
  <2>2. Open(p, "unix")' => sock' = p
    BY <1>2, <2>1 DEF Undisturbed, Open
  <2>3. ~Open(p, "tcp")'
    BY <1>3, <1>15, <2>1 DEF ClearPort, Listeners, Open
  <2> QED
    BY <1>7, <2>1, <2>2, <2>3
<1> QED
  BY <1>9, <1>10, <1>11, <1>12, <1>13, <1>14, <1>15

\* A file is removed only by the process it leads to, or by nobody's.
LEMMA RemovalFound ==
  ASSUME StageInv, FoundInv, NEW p \in Procs,
         PlayReturns(p) \/ \E t \in Transports : RemoveFile(p, t)
  PROVE  FoundInv'
<1> SUFFICES ASSUME ~raced' PROVE Undisturbed'
  BY DEF FoundInv
<1> USE DEF Goto, SetTask, SetMain, At, fileVars, callVars, Transports
<1>0. ProcTypes /\ Listeners(p)
  BY DEF StageInv
<1>1. Watch
  BY DEF PlayReturns, RemoveFile
<1>2. ~raced /\ Undisturbed /\ ~Disturbed
  BY <1>1 DEF Watch, FoundInv, Undisturbed
<1>3. CASE PlayReturns(p)
  <2>1. \A q \in Procs : q \notin FixedTcp /\ stage[q] = "serving" => ~Open(q, "tcp")
    <3> SUFFICES ASSUME NEW q \in Procs, q \notin FixedTcp, stage[q] = "serving", Open(q, "tcp")
                 PROVE  FALSE
      OBVIOUS
    <3>1. port = q /\ ~Gone(q)
      BY <1>2 DEF Undisturbed, StageInv, Listeners, Rest, Open
    <3>2. p # q
      BY <1>0, <1>3 DEF PlayReturns, Listeners, Over, Open
    <3>3. main[p] = "dropPort" /\ ~Gone(p)
      BY <1>3 DEF PlayReturns, Gone
    <3> QED
      BY <1>2, <3>1, <3>2, <3>3 DEF Disturbed
  <2>2. Shrinks
    BY <1>0, <1>3, <2>1 DEF PlayReturns, Shrinks, ProcTypes, Open
  <2> QED
    BY <1>1, <2>2, ShrinksIsFine DEF FoundInv
<1>4. ASSUME NEW t \in Transports, RemoveFile(p, t) PROVE Undisturbed'
  <2>1. task[p][t] = "closed"
    BY <1>4 DEF RemoveFile
  <2>2. \A q \in Procs, u \in Transports :
          task'[q][u] = IF q = p /\ u = t THEN "done" ELSE task[q][u]
    BY <1>0, <1>4 DEF RemoveFile, ProcTypes
  <2>3. main' = main /\ stage' = stage
    BY <1>4 DEF RemoveFile
  <2>4. CASE t = "unix" \/ p \notin FixedTcp
    <3>1. Live(p)
      BY <2>1, <2>4 DEF Live
    <3>2. \A q \in Procs \ {p} : ~Live(q)
      BY <1>2, <3>1 DEF Undisturbed
    <3>3. t = "unix" => port' = port
      BY <1>4 DEF RemoveFile
    <3>4. t = "tcp" => sock' = sock
      BY <1>4 DEF RemoveFile
    <3>5. \A q \in Procs : task'[q]["unix"] \notin {"none", "closed", "done"} => sock' = sock
      BY <2>2, <3>2, <3>4 DEF Live
    <3>6. \A q \in Procs : q \notin FixedTcp /\ task'[q]["tcp"] \notin {"none", "closed", "done"}
                            => port' = port
      BY <2>2, <3>2, <3>3 DEF Live
    <3>7. Shrinks
      BY <2>2, <2>3, <3>5, <3>6 DEF Shrinks, Open
    <3> QED
      BY <1>1, <3>7, ShrinksIsFine DEF FoundInv
  <2>5. CASE t = "tcp" /\ p \in FixedTcp
    <3>1. sock' = sock /\ port' = port
      BY <1>4, <2>5 DEF RemoveFile
    <3>2. Shrinks
      BY <2>2, <2>3, <3>1 DEF Shrinks, Open
    <3> QED
      BY <1>1, <3>2, ShrinksIsFine DEF FoundInv
  <2> QED
    BY <2>4, <2>5
<1> QED
  BY <1>3, <1>4

\* Every step that is not a race leaves at most one instance to be found.
LEMMA FoundStep == StageInv /\ FoundInv /\ [Next]_vars => FoundInv'
<1> SUFFICES ASSUME StageInv, FoundInv, [Next]_vars PROVE FoundInv'
  OBVIOUS
<1>1. ASSUME NEW p \in Procs, StartUp(p) PROVE FoundInv'
  BY <1>1, StartUpFound, MainFound DEF StartUp
<1>2. ASSUME NEW p \in Procs, MainStep(p) PROVE FoundInv'
  BY <1>2, MainFound, RemovalFound DEF MainStep
<1>3. ASSUME NEW p \in Procs, Serve(p) \/ Signal(p) \/ Play(p) \/ Crash(p) PROVE FoundInv'
  BY <1>3, MainFound
<1>4. ASSUME NEW p \in Procs, NEW t \in Transports, Serves(p, t) PROVE FoundInv'
  BY <1>4, LoopFound, RemovalFound DEF Serves
<1>5. CASE \/ \E c \in Callers : Asks(c)
           \/ \E c \in Clients, m \in Commands : Invoke(c, m)
  <2>1. procVars' = procVars /\ fileVars' = fileVars /\ Watch
    BY <1>5 DEF Asks, TryUnix, TryTcp, Invoke
  <2>2. Shrinks
    BY <2>1 DEF Shrinks, procVars, fileVars, Open
  <2> QED
    BY <2>1, <2>2, ShrinksIsFine
<1>6. CASE UNCHANGED vars
  BY <1>6 DEF vars, procVars, fileVars, FoundInv, Undisturbed, Disturbed, Starting, Closing, Gone,
              Live, Open, Transports, PastUnix, PastTcp
<1> QED
  BY <1>1, <1>2, <1>3, <1>4, <1>5, <1>6 DEF Next

\* While no start-ups or exits overlap, at most one instance that can be found
\* serves, also after kills at any point, and its socket or port file leads to
\* it (check_running_instance, bind_unix_socket, serve).
THEOREM OneInstance == Spec => []SoleInstance
<1>1. StageInv /\ FoundInv => SoleInstance
  <2> SUFFICES ASSUME StageInv, Undisturbed, NEW p \in Procs, Serving(p), Discoverable(p)
               PROVE  /\ \A q \in Procs \ {p} : ~(Serving(q) /\ Discoverable(q))
                      /\ IF Open(p, "unix") THEN sock = p ELSE port = p
    BY DEF FoundInv, SoleInstance
  <2>1. ASSUME NEW q \in Procs, Serving(q), Discoverable(q)
        PROVE  /\ Live(q)
               /\ Open(q, "unix") \/ (q \notin FixedTcp /\ Open(q, "tcp"))
    <3>1. /\ \A t \in Transports : task[q][t] \notin {"closed", "done"}
          /\ \E t \in Transports : task[q][t] # "none"
      BY <2>1 DEF StageInv, Listeners, Serving
    <3>2. CASE task[q]["unix"] # "none"
      <4>1. "unix" \in Transports /\ task[q]["unix"] \notin {"none", "closed", "done"}
        BY <3>1, <3>2 DEF Transports
      <4>2. Live(q)
        BY <4>1 DEF Live
      <4> QED
        BY <4>1, <4>2 DEF Open
    <3>3. CASE task[q]["unix"] = "none"
      BY <2>1, <3>1, <3>3 DEF Discoverable, Live, Open, Transports
    <3> QED
      BY <3>2, <3>3
  <2>2. \A q \in Procs \ {p} : ~(Serving(q) /\ Discoverable(q))
    BY <2>1 DEF Undisturbed
  <2>3. IF Open(p, "unix") THEN sock = p ELSE port = p
    BY <2>1 DEF Undisturbed, Serving
  <2> QED
    BY <2>2, <2>3
<1> QED
  BY StageInit, StageStep, FoundInit, FoundStep, <1>1, PTL DEF Spec

\* A start is refused only while another process listens, or after start-ups
\* that overlapped: files a killed process left never block the next
\* (check_running_instance).
THEOREM RefusalsAreJustified == Spec => RefusedOnlyByLive
<1> DEFINE Justified ==
      \A p \in Procs : stage[p] # "refused" /\ stage'[p] = "refused" =>
        raced' \/ \E q \in Procs \ {p}, t \in Transports : Open(q, t)
<1>1. StageInv /\ FoundInv /\ [Next]_vars => [Justified]_vars
  <2> SUFFICES ASSUME StageInv, FoundInv, Next, NEW p \in Procs,
                      stage[p] # "refused", stage'[p] = "refused", ~raced'
               PROVE  \E q \in Procs \ {p}, t \in Transports : Open(q, t)
    OBVIOUS
  <2>0. ProcTypes /\ Listeners(p)
    BY DEF StageInv
  <2>1. ProbeUnix(p) \/ ProbeTcp(p)
    <3> USE DEF procVars, Goto, SetTask, SetMain, At, CloseAll, Effect, ProcTypes
    <3>1. ASSUME NEW q \in Procs, StartUp(q) PROVE ProbeUnix(p) \/ ProbeTcp(p)
      BY <2>0, <3>1 DEF StartUp, ProbeUnix, ProbeTcp, ReleasePort, DropStalePort, Unlink, BindUnix,
                        BindTcp, WritePort, ClearPort
    <3>2. ASSUME NEW q \in Procs, MainStep(q) PROVE FALSE
      BY <2>0, <3>2 DEF MainStep, ServeReturns, Delegate, Delegated, PlayHere, PlaybackOver, Unblock,
                        JoinServer, PlayReturns, Join
    <3>3. ASSUME NEW q \in Procs, Serve(q) \/ Signal(q) \/ Play(q) \/ Crash(q) PROVE FALSE
      BY <2>0, <3>3 DEF Serve, Signal, Play, Crash
    <3>4. ASSUME NEW q \in Procs, NEW t \in Transports, Serves(q, t) PROVE FALSE
      BY <2>0, <3>4 DEF Serves, Check, RemoveFile, Accept, ReadEof, Handle, Answer
    <3>5. CASE \/ \E c \in Callers : Asks(c)
               \/ \E c \in Clients, m \in Commands : Invoke(c, m)
      BY <3>5 DEF Asks, TryUnix, TryTcp, Invoke
    <3> QED
      BY <3>1, <3>2, <3>3, <3>4, <3>5 DEF Next
  <2>2. stage[p] \in BeforeUnix /\ stage[p] \in Binding /\ ~Gone(p) /\ Watch
    BY <2>1 DEF ProbeUnix, ProbeTcp, At, BeforeUnix, Binding
  <2>3. \A t \in Transports : ~Open(p, t)
    BY <2>0, <2>2 DEF Listeners, Open
  <2>4. ~Disturbed
    BY <2>2 DEF Watch, FoundInv, Undisturbed
  <2>5. CASE ProbeUnix(p)
    BY <2>0, <2>3, <2>5 DEF ProbeUnix, Goto, ProcTypes, Transports
  <2>6. CASE ProbeTcp(p)
    <3>1. port # None /\ InUse(p)
      BY <2>0, <2>6 DEF ProbeTcp, Goto, ProcTypes
    <3>2. ASSUME NEW q \in Procs \ {p}, stage[q] = "holdPort", ~Gone(q) PROVE FALSE
      BY <2>2, <2>4, <3>2 DEF Disturbed, Starting, Binding
    <3> QED
      BY <2>0, <2>3, <3>1, <3>2 DEF InUse, ProcTypes, Transports
  <2> QED
    BY <2>1, <2>5, <2>6
<1> QED
  BY StageInit, StageStep, FoundInit, FoundStep, <1>1, PTL DEF Spec, RefusedOnlyByLive

-----------------------------------------------------------------------------
(* Every connection is in one place, and its command runs there or not.    *)

\* No caller has called.
LEMMA CallInit == Init => CallInv
<1> SUFFICES ASSUME Init PROVE CallInv
  OBVIOUS
<1>1. CallTypes
  BY DEF Init, CallTypes, Call, CallStates
<1>2. /\ \A p \in Procs, t \in Transports :
           /\ task[p][t] = "none" /\ queue[p][t] = <<>> /\ Len(queue[p][t]) = 0
      /\ \A c \in Callers : call[c].at = "idle" /\ ran[c] = 0
  BY DEF Init
<1>3. \A c \in Callers, p \in Procs, t \in Transports : ~Queued(c, p, t) /\ ~InHand(c, p, t)
  BY <1>2 DEF Queued, In, InHand
<1>4. ConnInv
  BY <1>1, <1>2, <1>3 DEF ConnInv, Placed, Once, Transports, Callers
<1>5. RanInv
  BY <1>2, <1>3 DEF RanInv, Counted
<1> QED
  BY <1>4, <1>5 DEF CallInv

\* What the kernel's queue holds after a connection joins it or leaves it.
LEMMA InAppend ==
  ASSUME NEW S, NEW q \in Seq(S), NEW e \in S, NEW c
  PROVE  /\ In(c, Append(q, e)) <=> In(c, q) \/ e = c
         /\ Once(c, q) /\ ~(In(c, q) /\ e = c) => Once(c, Append(q, e))
<1>1. /\ Len(q) \in Nat /\ Len(Append(q, e)) = Len(q) + 1
      /\ \A i \in 1..Len(q) : Append(q, e)[i] = q[i]
      /\ Append(q, e)[Len(q) + 1] = e
  BY AppendProperties
<1>2. \A i \in 1..(Len(q) + 1) : i \in 1..Len(q) \/ i = Len(q) + 1
  BY <1>1
<1>3. In(c, Append(q, e)) <=> In(c, q) \/ e = c
  BY <1>1, <1>2 DEF In
<1>4. ASSUME Once(c, q), ~(In(c, q) /\ e = c) PROVE Once(c, Append(q, e))
  BY <1>1, <1>2, <1>4 DEF Once, In
<1> QED
  BY <1>3, <1>4

\* What taking the head of a queue leaves of a caller's place in it.
LEMMA InTail ==
  ASSUME NEW S, NEW q \in Seq(S), q # <<>>, NEW c
  PROVE  /\ Head(q) \in S /\ Tail(q) \in Seq(S)
         /\ In(c, q) <=> Head(q) = c \/ In(c, Tail(q))
         /\ Once(c, q) => Once(c, Tail(q)) /\ ~(Head(q) = c /\ In(c, Tail(q)))
<1>1. /\ Len(q) \in Nat /\ Len(q) > 0 /\ Len(Tail(q)) = Len(q) - 1 /\ Head(q) = q[1]
      /\ Head(q) \in S /\ Tail(q) \in Seq(S)
      /\ \A i \in 1..(Len(q) - 1) : Tail(q)[i] = q[i + 1]
  BY HeadTailProperties, EmptySeq, LenProperties
<1>2. \A i \in 1..Len(q) : i = 1 \/ i - 1 \in 1..(Len(q) - 1)
  BY <1>1
<1>3. \A i \in 1..(Len(q) - 1) : i + 1 \in 1..Len(q) /\ i + 1 # 1
  BY <1>1
<1>4. In(c, q) <=> Head(q) = c \/ In(c, Tail(q))
  BY <1>1, <1>2, <1>3, SMTT(60) DEF In
<1>5. ASSUME Once(c, q) PROVE Once(c, Tail(q)) /\ ~(Head(q) = c /\ In(c, Tail(q)))
  BY <1>1, <1>3, <1>5 DEF Once, In
<1> QED
  BY <1>1, <1>4, <1>5

\* Only a process that serves has a connection in hand.
LEMMA HandsServe ==
  ASSUME StageInv, NEW p \in Procs, NEW t \in Transports, stage[p] # "serving"
  PROVE  task[p][t] \notin {"accept", "reading", "answer"}
  BY DEF StageInv, ProcTypes, Listeners, BeforeUnix, Rest, Stages, Binding, Transports

\* A caller and a listener between which nothing changes.
LEMMA SamePlace ==
  ASSUME NEW c \in Callers, NEW p \in Procs, NEW t \in Transports, Placed(c, p, t),
         queue'[p][t] = queue[p][t],
         cur'[p][t] = c /\ task'[p][t] \in {"reading", "answer"} <=> InHand(c, p, t),
         call'[c].at = t /\ call'[c].of = p <=> call[c].at = t /\ call[c].of = p
  PROVE  /\ Placed(c, p, t)'
         /\ Queued(c, p, t)' <=> Queued(c, p, t)
         /\ InHand(c, p, t)' <=> InHand(c, p, t)
<1>1. Queued(c, p, t)' <=> Queued(c, p, t)
  BY DEF Queued
<1>2. InHand(c, p, t)' <=> InHand(c, p, t)
  BY DEF InHand
<1> QED
  BY <1>1, <1>2 DEF Placed

\* Steps that move no connection.
LEMMA QuietConn ==
  ASSUME CallInv, cur' = cur, queue' = queue, call' = call, ran' = ran,
         \A p \in Procs, t \in Transports :
           \/ task'[p][t] = task[p][t]
           \/ {task'[p][t], task[p][t]} \cap {"reading", "answer"} = {},
         \A p \in Procs : /\ main'[p] = "off" => main[p] = "off"
                          /\ main[p] = "crashed" => main'[p] = "crashed"
  PROVE  CallInv'
<1>1. CallTypes'
  BY DEF CallInv, ConnInv, CallTypes
<1>2. \A p \in Procs, t \in Transports : task'[p][t] = "answer" => cur'[p][t] \in Callers
  BY DEF CallInv, ConnInv
<1>3. \A c \in Callers, p \in Procs, t \in Transports :
        /\ Queued(c, p, t)' <=> Queued(c, p, t)
        /\ InHand(c, p, t)' <=> InHand(c, p, t)
        /\ Placed(c, p, t)'
  <2> SUFFICES ASSUME NEW c \in Callers, NEW p \in Procs, NEW t \in Transports
               PROVE  /\ Queued(c, p, t)' <=> Queued(c, p, t)
                      /\ InHand(c, p, t)' <=> InHand(c, p, t)
                      /\ Placed(c, p, t)'
    OBVIOUS
  <2>1. Placed(c, p, t)
    BY DEF CallInv, ConnInv
  <2>2. cur'[p][t] = c /\ task'[p][t] \in {"reading", "answer"} <=> InHand(c, p, t)
    BY DEF InHand
  <2> QED
    BY <2>1, <2>2, SamePlace
<1>4. ConnInv'
  BY <1>1, <1>2, <1>3, ServiceAssumption DEF CallInv, ConnInv
<1>5. RanInv'
  <2> SUFFICES ASSUME Uncrashed', NEW c \in Callers PROVE Counted(c)'
    BY DEF RanInv
  <2>1. Counted(c)
    BY DEF CallInv, RanInv, Uncrashed
  <2>2. \A p \in Procs, t \in Transports :
          InHand(c, p, t) => (task'[p][t] = "answer" <=> task[p][t] = "answer")
    BY DEF InHand
  <2> QED
    BY <1>3, <2>1, <2>2 DEF Counted
<1> QED
  BY <1>4, <1>5 DEF CallInv

\* A probe or a wake-up call joins a queue.
LEMMA EofConn ==
  ASSUME CallInv, NEW p0 \in Procs, NEW t0 \in Transports,
         queue' = [queue EXCEPT ![p0][t0] = Append(@, Eof)],
         cur' = cur, task' = task, call' = call, ran' = ran,
         \A p \in Procs : /\ main'[p] = "off" => main[p] = "off"
                          /\ main[p] = "crashed" => main'[p] = "crashed"
  PROVE  CallInv'
<1>0. CallTypes /\ \A c \in Callers, p \in Procs, t \in Transports : Placed(c, p, t)
  BY DEF CallInv, ConnInv
<1>1. /\ queue[p0][t0] \in Seq(Callers \cup {Eof})
      /\ queue'[p0][t0] = Append(queue[p0][t0], Eof)
      /\ \A p \in Procs, t \in Transports :
           p # p0 \/ t # t0 => queue'[p][t] = queue[p][t]
  BY <1>0 DEF CallTypes
<1>2. Append(queue[p0][t0], Eof) \in Seq(Callers \cup {Eof})
  BY <1>1, AppendProperties
<1>3. CallTypes'
  BY <1>0, <1>2 DEF CallTypes
<1>4. \A c \in Callers, p \in Procs, t \in Transports :
        /\ Queued(c, p, t)' <=> Queued(c, p, t)
        /\ InHand(c, p, t)' <=> InHand(c, p, t)
        /\ Placed(c, p, t)'
  <2> SUFFICES ASSUME NEW c \in Callers, NEW p \in Procs, NEW t \in Transports
               PROVE  /\ Queued(c, p, t)' <=> Queued(c, p, t)
                      /\ InHand(c, p, t)' <=> InHand(c, p, t)
                      /\ Placed(c, p, t)'
    OBVIOUS
  <2>1. cur'[p][t] = c /\ task'[p][t] \in {"reading", "answer"} <=> InHand(c, p, t)
    BY DEF InHand
  <2>2. CASE p # p0 \/ t # t0
    BY <1>0, <1>1, <2>1, <2>2, SamePlace
  <2>3. CASE p = p0 /\ t = t0
    <3>1. c # Eof
      BY ServiceAssumption DEF Callers, Eof
    <3>2. /\ In(c, queue'[p][t]) <=> In(c, queue[p][t])
          /\ Once(c, queue[p][t]) => Once(c, queue'[p][t])
      BY <1>1, <2>3, <3>1, InAppend
    <3>3. Queued(c, p, t)' <=> Queued(c, p, t)
      BY <3>2 DEF Queued
    <3>4. InHand(c, p, t)' <=> InHand(c, p, t)
      BY DEF InHand
    <3>5. Placed(c, p, t)'
      BY <1>0, <3>2, <3>3, <3>4 DEF Placed
    <3> QED
      BY <3>3, <3>4, <3>5
  <2> QED
    BY <2>2, <2>3
<1>5. ConnInv'
  BY <1>3, <1>4, ServiceAssumption DEF CallInv, ConnInv
<1>6. RanInv'
  <2> SUFFICES ASSUME Uncrashed', NEW c \in Callers PROVE Counted(c)'
    BY DEF RanInv
  <2>1. Counted(c)
    BY DEF CallInv, RanInv, Uncrashed
  <2> QED
    BY <1>4, <2>1 DEF Counted
<1> QED
  BY <1>5, <1>6 DEF CallInv

\* A caller goes on without a connection.
LEMMA CallOnly ==
  ASSUME CallInv, NEW c0 \in Callers, call[c0].at \notin Transports,
         NEW r \in Call, r.at \notin Transports, call' = [call EXCEPT ![c0] = r],
         cur' = cur, queue' = queue, task' = task, ran' \in [Callers -> Nat],
         \A c \in Callers \ {c0} : ran'[c] = ran[c],
         r.at \in {"idle", "tryUnix", "tryTcp", "failed"},
         Uncrashed => ran'[c0] = 0,
         \A p \in Procs : /\ main'[p] = "off" => main[p] = "off" /\ p # c0
                          /\ main[p] = "crashed" => main'[p] = "crashed"
  PROVE  CallInv'
<1>0. CallTypes /\ \A c \in Callers, p \in Procs, t \in Transports : Placed(c, p, t)
  BY DEF CallInv, ConnInv
<1>1. call'[c0] = r /\ \A c \in Callers \ {c0} : call'[c] = call[c]
  BY <1>0 DEF CallTypes
<1>2. CallTypes'
  BY <1>0 DEF CallTypes
<1>3. \A c \in Callers, p \in Procs, t \in Transports :
        /\ Queued(c, p, t)' <=> Queued(c, p, t)
        /\ InHand(c, p, t)' <=> InHand(c, p, t)
        /\ Placed(c, p, t)'
  <2> SUFFICES ASSUME NEW c \in Callers, NEW p \in Procs, NEW t \in Transports
               PROVE  /\ Queued(c, p, t)' <=> Queued(c, p, t)
                      /\ InHand(c, p, t)' <=> InHand(c, p, t)
                      /\ Placed(c, p, t)'
    OBVIOUS
  <2>1. cur'[p][t] = c /\ task'[p][t] \in {"reading", "answer"} <=> InHand(c, p, t)
    BY DEF InHand
  <2>2. call'[c].at = t /\ call'[c].of = p <=> call[c].at = t /\ call[c].of = p
    BY <1>1
  <2> QED
    BY <1>0, <2>1, <2>2, SamePlace
<1>4. ConnInv'
  BY <1>1, <1>2, <1>3, ServiceAssumption DEF CallInv, ConnInv, Callers
<1>5. RanInv'
  <2> SUFFICES ASSUME Uncrashed', NEW c \in Callers PROVE Counted(c)'
    BY DEF RanInv
  <2>1. Uncrashed /\ Counted(c)
    BY DEF CallInv, RanInv, Uncrashed
  <2>2. CASE c # c0
    BY <1>1, <1>3, <2>1, <2>2 DEF Counted
  <2>3. CASE c = c0
    <3>1. \A p \in Procs, t \in Transports : ~Queued(c, p, t) /\ ~InHand(c, p, t)
      BY <1>0, <2>3 DEF Placed
    <3> QED
      BY <1>1, <1>3, <2>1, <2>3, <3>1 DEF Counted
  <2> QED
    BY <2>2, <2>3
<1> QED
  BY <1>4, <1>5 DEF CallInv

\* A caller connects: its connection joins a queue, its command has not run.
LEMMA ConnectConn ==
  ASSUME CallInv, NEW c0 \in Callers, NEW p0 \in Procs, NEW t0 \in Transports,
         call[c0].at \in {"tryUnix", "tryTcp"}, Connect(c0, p0, t0),
         cur' = cur, task' = task, main' = main, ran' = ran
  PROVE  CallInv'
<1>0. CallTypes /\ \A c \in Callers, p \in Procs, t \in Transports : Placed(c, p, t)
  BY DEF CallInv, ConnInv
<1>1. /\ queue[p0][t0] \in Seq(Callers \cup {Eof})
      /\ queue'[p0][t0] = Append(queue[p0][t0], c0)
      /\ \A p \in Procs, t \in Transports :
           p # p0 \/ t # t0 => queue'[p][t] = queue[p][t]
  BY <1>0 DEF CallTypes, Connect
<1>2. call[c0] \in Call /\ t0 \in CallStates
  BY <1>0 DEF CallTypes, CallStates, Transports
<1>3. /\ call' = [call EXCEPT ![c0] = [call[c0] EXCEPT !.at = t0, !.of = p0]]
      /\ [call[c0] EXCEPT !.at = t0, !.of = p0] \in Call
  BY <1>0, <1>2 DEF CallTypes, Connect, Call
<1>4. /\ call'[c0].at = t0 /\ call'[c0].of = p0
      /\ \A c \in Callers \ {c0} : call'[c] = call[c]
  BY <1>0, <1>2, <1>3 DEF CallTypes, Call
<1>5. CallTypes'
  <2>1. Append(queue[p0][t0], c0) \in Seq(Callers \cup {Eof})
    BY <1>1, AppendProperties
  <2>2. queue' \in [Procs -> [Transports -> Seq(Callers \cup {Eof})]]
    BY <1>0, <2>1 DEF CallTypes, Connect
  <2>3. call' \in [Callers -> Call]
    BY <1>0, <1>3 DEF CallTypes
  <2> QED
    BY <1>0, <2>2, <2>3 DEF CallTypes
<1>6. \A p \in Procs, t \in Transports : ~Queued(c0, p, t) /\ ~InHand(c0, p, t)
  BY <1>0 DEF Placed, Transports
<1>7. \A c \in Callers, p \in Procs, t \in Transports :
        /\ Queued(c, p, t)' <=> Queued(c, p, t) \/ (c = c0 /\ p = p0 /\ t = t0)
        /\ InHand(c, p, t)' <=> InHand(c, p, t)
        /\ Placed(c, p, t)'
  <2> SUFFICES ASSUME NEW c \in Callers, NEW p \in Procs, NEW t \in Transports
               PROVE  /\ Queued(c, p, t)' <=> Queued(c, p, t) \/ (c = c0 /\ p = p0 /\ t = t0)
                      /\ InHand(c, p, t)' <=> InHand(c, p, t)
                      /\ Placed(c, p, t)'
    OBVIOUS
  <2>1. InHand(c, p, t)' <=> InHand(c, p, t)
    BY DEF InHand
  <2>2. /\ Queued(c, p, t)' <=> Queued(c, p, t) \/ (c = c0 /\ p = p0 /\ t = t0)
        /\ Once(c, queue'[p][t])
    <3>1. CASE p # p0 \/ t # t0
      BY <1>0, <1>1, <3>1 DEF Queued, Placed
    <3>2. CASE p = p0 /\ t = t0
      <4> DEFINE q == queue[p0][t0]
      <4>0. q \in Seq(Callers \cup {Eof}) /\ c0 \in Callers \cup {Eof}
        BY <1>1
      <4>1. /\ In(c, Append(q, c0)) <=> In(c, q) \/ c0 = c
            /\ Once(c, q) /\ ~(In(c, q) /\ c0 = c) => Once(c, Append(q, c0))
        <5> HIDE DEF q
        <5> QED
          BY <4>0, InAppend
      <4> QED
        <5>1. queue[p][t] = q /\ queue'[p][t] = Append(q, c0)
          BY <1>1, <3>2
        <5>2. /\ Queued(c, p, t)' <=> In(c, q) \/ c0 = c
              /\ Queued(c, p, t) <=> In(c, q)
          BY <4>1, <5>1 DEF Queued
        <5>3. Once(c, q) /\ ~(In(c, q) /\ c0 = c)
          BY <1>0, <1>6, <5>1, <5>2 DEF Placed
        <5> QED
          BY <3>2, <4>1, <5>1, <5>2, <5>3
    <3> QED
      BY <3>1, <3>2
  <2>3. CASE c # c0
    BY <1>0, <1>4, <2>1, <2>2, <2>3 DEF Placed
  <2>4. CASE c = c0
    BY <1>4, <1>6, <2>1, <2>2, <2>4 DEF Placed
  <2> QED
    BY <2>1, <2>2, <2>3, <2>4
<1>8. ConnInv'
  <2>1. \A p \in PlayProcs : main'[p] = "off" => p # c0
    BY ServiceAssumption DEF CallInv, ConnInv
  <2>2. \A p \in PlayProcs : main'[p] = "off" => call'[p].at = "idle"
    BY <1>4, <2>1 DEF CallInv, ConnInv, Callers
  <2>3. \A c \in Callers : call'[c].at \in Transports => call'[c].of \in Procs
    BY <1>4 DEF CallInv, ConnInv
  <2> QED
    BY <1>5, <1>7, <2>2, <2>3 DEF CallInv, ConnInv
<1>9. RanInv'
  <2> SUFFICES ASSUME Uncrashed', NEW c \in Callers PROVE Counted(c)'
    BY DEF RanInv
  <2>1. Uncrashed /\ Counted(c)
    BY DEF CallInv, RanInv, Uncrashed
  <2>2. CASE c # c0
    BY <1>4, <1>7, <2>1, <2>2 DEF Counted
  <2>3. CASE c = c0
    BY <1>4, <1>6, <1>7, <2>1, <2>3 DEF Counted, Transports
  <2> QED
    BY <2>2, <2>3
<1> QED
  BY <1>8, <1>9 DEF CallInv

\* The listeners of p0 for the transports in T are closed, with the connections
\* that wait for them.  What p0 had in hand is only lost to a kill.
LEMMA ClosedConn ==
  ASSUME CallInv, NEW p0 \in Procs, NEW T \in SUBSET Transports,
         call' = Reset(p0, T), ran' = ran,
         cur' \in [Procs -> [Transports -> Callers \cup {Eof, None}]],
         queue' \in [Procs -> [Transports -> Seq(Callers \cup {Eof})]],
         \A p \in Procs, t \in Transports :
           IF p = p0 /\ t \in T
           THEN queue'[p][t] = <<>> /\ task'[p][t] \notin {"reading", "answer"}
           ELSE queue'[p][t] = queue[p][t] /\ cur'[p][t] = cur[p][t] /\ task'[p][t] = task[p][t],
         Uncrashed' => \A t \in T : task[p0][t] \notin {"reading", "answer"},
         \A p \in Procs : /\ main'[p] = "off" => main[p] = "off"
                          /\ main[p] = "crashed" => main'[p] = "crashed"
  PROVE  CallInv'
<1>0. CallTypes /\ \A c \in Callers, p \in Procs, t \in Transports : Placed(c, p, t)
  BY DEF CallInv, ConnInv
<1> DEFINE Cut(c) == call[c].of = p0 /\ call[c].at \in T
<1>1. \A c \in Callers :
        /\ call'[c] \in Call
        /\ ~Cut(c) => call'[c] = call[c]
        /\ Cut(c) => call'[c].at \in {"tryTcp", "failed"}
  <2> SUFFICES ASSUME NEW c \in Callers
               PROVE  /\ call'[c] \in Call
                      /\ ~Cut(c) => call'[c] = call[c]
                      /\ Cut(c) => call'[c].at \in {"tryTcp", "failed"}
    OBVIOUS
  <2>1. call[c] \in Call
    BY <1>0 DEF CallTypes
  <2>2. /\ [call[c] EXCEPT !.at = "tryTcp", !.of = None] \in Call
        /\ [call[c] EXCEPT !.at = "failed", !.of = None] \in Call
        /\ [call[c] EXCEPT !.at = "tryTcp", !.of = None].at = "tryTcp"
        /\ [call[c] EXCEPT !.at = "failed", !.of = None].at = "failed"
    BY <2>1 DEF Call, CallStates
  <2> QED
    BY <2>1, <2>2 DEF Reset, Transports
<1>2. CallTypes'
  BY <1>0, <1>1 DEF CallTypes, Reset
<1>3. \A c \in Callers, p \in Procs, t \in Transports :
        /\ IF p = p0 /\ t \in T THEN ~Queued(c, p, t)' /\ ~InHand(c, p, t)'
           ELSE /\ Queued(c, p, t)' <=> Queued(c, p, t)
                /\ InHand(c, p, t)' <=> InHand(c, p, t)
        /\ Placed(c, p, t)'
  <2> SUFFICES ASSUME NEW c \in Callers, NEW p \in Procs, NEW t \in Transports
               PROVE  /\ IF p = p0 /\ t \in T THEN ~Queued(c, p, t)' /\ ~InHand(c, p, t)'
                         ELSE /\ Queued(c, p, t)' <=> Queued(c, p, t)
                              /\ InHand(c, p, t)' <=> InHand(c, p, t)
                      /\ Placed(c, p, t)'
    OBVIOUS
  <2>1. CASE p = p0 /\ t \in T
    <3>1. ~Queued(c, p, t)' /\ ~InHand(c, p, t)' /\ Once(c, queue'[p][t])
      BY <2>1 DEF Queued, In, Once, InHand
    <3>2. ~(call'[c].at = t /\ call'[c].of = p)
      <4>1. CASE Cut(c)
        BY <1>1, <4>1 DEF Transports
      <4>2. CASE ~Cut(c)
        BY <1>1, <2>1, <4>2
      <4> QED
        BY <4>1, <4>2
    <3> QED
      BY <2>1, <3>1, <3>2 DEF Placed
  <2>2. CASE ~(p = p0 /\ t \in T)
    <3>1. call'[c].at = t /\ call'[c].of = p <=> call[c].at = t /\ call[c].of = p
      BY <1>1, <2>2 DEF Transports
    <3>2. /\ queue'[p][t] = queue[p][t]
          /\ cur'[p][t] = c /\ task'[p][t] \in {"reading", "answer"} <=> InHand(c, p, t)
      BY <2>2 DEF InHand
    <3> QED
      BY <1>0, <2>2, <3>1, <3>2, SamePlace
  <2> QED
    BY <2>1, <2>2
<1>4. ConnInv'
  <2>1. \A c \in Callers : call'[c].at \in Transports => call'[c].of \in Procs
    BY <1>1 DEF CallInv, ConnInv, Transports
  <2>2. \A p \in PlayProcs : main'[p] = "off" => call'[p].at = "idle"
    BY <1>1, ServiceAssumption DEF CallInv, ConnInv, Callers, Transports
  <2>3. \A p \in Procs, t \in Transports : task'[p][t] = "answer" => cur'[p][t] \in Callers
    BY DEF CallInv, ConnInv
  <2> QED
    BY <1>2, <1>3, <2>1, <2>2, <2>3 DEF ConnInv
<1>5. RanInv'
  <2> SUFFICES ASSUME Uncrashed', NEW c \in Callers PROVE Counted(c)'
    BY DEF RanInv
  <2>1. Uncrashed /\ Counted(c)
    BY DEF CallInv, RanInv, Uncrashed
  <2>2. CASE Cut(c)
    <3>1. PICK t \in T : call[c].at = t /\ call[c].of = p0
      BY <2>2
    <3>2. Queued(c, p0, t)
      <4>1. t \in Transports /\ ~InHand(c, p0, t)
        BY DEF InHand
      <4> QED
        BY <1>0, <3>1, <4>1 DEF Placed
    <3>3. ran[c] = 0
      BY <2>1, <3>2 DEF Counted
    <3>4. \A p \in Procs, u \in Transports : ~Queued(c, p, u)' /\ ~InHand(c, p, u)'
      BY <1>0, <1>3, <3>1 DEF Placed
    <3> QED
      BY <1>1, <2>2, <3>3, <3>4 DEF Counted
  <2>3. CASE ~Cut(c)
    <3>1. \A p \in Procs, t \in Transports :
            /\ Queued(c, p, t)' => Queued(c, p, t)
            /\ InHand(c, p, t)' => InHand(c, p, t) /\ task'[p][t] = task[p][t]
      <4> SUFFICES ASSUME NEW p \in Procs, NEW t \in Transports
                   PROVE  /\ Queued(c, p, t)' => Queued(c, p, t)
                          /\ InHand(c, p, t)' => InHand(c, p, t) /\ task'[p][t] = task[p][t]
        OBVIOUS
      <4>1. CASE p = p0 /\ t \in T
        BY <1>3, <4>1
      <4>2. CASE ~(p = p0 /\ t \in T)
        BY <1>3, <4>2
      <4> QED
        BY <4>1, <4>2
    <3>2. call'[c] = call[c] /\ ran'[c] = ran[c]
      BY <1>1, <2>3
    <3>3. \A p \in Procs, t \in Transports :
            /\ Queued(c, p, t)' => ran'[c] = 0
            /\ InHand(c, p, t)' => ran'[c] = IF task'[p][t] = "answer" THEN 1 ELSE 0
      <4> SUFFICES ASSUME NEW p \in Procs, NEW t \in Transports
                   PROVE  /\ Queued(c, p, t)' => ran'[c] = 0
                          /\ InHand(c, p, t)' => ran'[c] = IF task'[p][t] = "answer" THEN 1 ELSE 0
        OBVIOUS
      <4>1. /\ Queued(c, p, t) => ran[c] = 0
            /\ InHand(c, p, t) => ran[c] = IF task[p][t] = "answer" THEN 1 ELSE 0
        BY <2>1 DEF Counted
      <4>2. /\ Queued(c, p, t)' => Queued(c, p, t)
            /\ InHand(c, p, t)' => InHand(c, p, t) /\ task'[p][t] = task[p][t]
        BY <3>1
      <4> QED
        BY <3>2, <4>1, <4>2
    <3> QED
      BY <2>1, <3>2, <3>3 DEF Counted
  <2> QED
    BY <2>2, <2>3
<1> QED
  BY <1>4, <1>5 DEF CallInv

\* One loop turns to its next connection, or finishes with the one it has.
LEMMA OneLoopConn ==
  ASSUME CallInv, NEW p0 \in Procs, NEW t0 \in Transports, CallTypes',
         \A p \in Procs, t \in Transports : p # p0 \/ t # t0 =>
           queue'[p][t] = queue[p][t] /\ cur'[p][t] = cur[p][t] /\ task'[p][t] = task[p][t],
         task'[p0][t0] = "answer" => cur'[p0][t0] \in Callers,
         main' = main,
         \A c \in Callers :
           \/ call'[c] = call[c] /\ ran'[c] = ran[c]
           \/ InHand(c, p0, t0) /\ call'[c].at \in {t0, "answered"} /\ call'[c].of = call[c].of,
         \A c \in Callers : Placed(c, p0, t0)',
         Uncrashed => \A c \in Callers :
           /\ call'[c] # call[c] => ran'[c] = 1
           /\ Queued(c, p0, t0)' => ran'[c] = 0
           /\ InHand(c, p0, t0)' => ran'[c] = IF task'[p0][t0] = "answer" THEN 1 ELSE 0
  PROVE  CallInv'
<1>0. CallTypes /\ \A c \in Callers, p \in Procs, t \in Transports : Placed(c, p, t)
  BY DEF CallInv, ConnInv
\* What is in hand here is nowhere else.
<1>1. ASSUME NEW c \in Callers, NEW p \in Procs, NEW t \in Transports, p # p0 \/ t # t0
      PROVE  /\ Placed(c, p, t)'
             /\ Queued(c, p, t)' <=> Queued(c, p, t)
             /\ InHand(c, p, t)' <=> InHand(c, p, t)
             /\ InHand(c, p0, t0) => ~Queued(c, p, t) /\ ~InHand(c, p, t)
  <2>1. InHand(c, p0, t0) => call[c].at = t0 /\ call[c].of = p0
    BY <1>0 DEF Placed
  <2>2. call'[c].at = t /\ call'[c].of = p <=> call[c].at = t /\ call[c].of = p
    BY <1>1, <2>1 DEF Transports
  <2>3. /\ queue'[p][t] = queue[p][t]
        /\ cur'[p][t] = c /\ task'[p][t] \in {"reading", "answer"} <=> InHand(c, p, t)
    BY <1>1 DEF InHand
  <2>4. InHand(c, p0, t0) => ~Queued(c, p, t) /\ ~InHand(c, p, t)
    BY <1>0, <1>1, <2>1 DEF Placed
  <2> QED
    BY <1>0, <2>2, <2>3, <2>4, SamePlace
<1>2. ConnInv'
  <2>1. \A c \in Callers, p \in Procs, t \in Transports : Placed(c, p, t)'
    BY <1>1
  <2>2. \A p \in Procs, t \in Transports : task'[p][t] = "answer" => cur'[p][t] \in Callers
    BY DEF CallInv, ConnInv
  <2>3. \A c \in Callers : call'[c].at \in Transports => call'[c].of \in Procs
    <3> SUFFICES ASSUME NEW c \in Callers, call'[c].at \in Transports PROVE call'[c].of \in Procs
      OBVIOUS
    <3>1. InHand(c, p0, t0) => call[c].at = t0 /\ call[c].of = p0
      BY <1>0 DEF Placed
    <3> QED
      BY <3>1 DEF CallInv, ConnInv
  <2>4. \A p \in PlayProcs : main'[p] = "off" => call'[p].at = "idle"
    <3> SUFFICES ASSUME NEW p \in PlayProcs, main[p] = "off" PROVE call'[p].at = "idle"
      OBVIOUS
    <3>1. p \in Callers /\ call[p].at = "idle"
      BY DEF CallInv, ConnInv, Callers
    <3>2. ~InHand(p, p0, t0)
      BY <1>0, <3>1 DEF Placed, Transports
    <3> QED
      BY <3>1, <3>2
  <2> QED
    BY <2>1, <2>2, <2>3, <2>4 DEF ConnInv
<1>3. RanInv'
  <2> SUFFICES ASSUME Uncrashed', NEW c \in Callers PROVE Counted(c)'
    BY DEF RanInv
  <2>1. Uncrashed /\ Counted(c)
    BY DEF CallInv, RanInv, Uncrashed
  <2>2. CASE InHand(c, p0, t0)
    <3>1. \A p \in Procs, t \in Transports :
            p # p0 \/ t # t0 => ~Queued(c, p, t)' /\ ~InHand(c, p, t)'
      BY <1>1, <2>2
    <3>2. call[c].at = t0
      BY <1>0, <2>2 DEF Placed
    <3>3. /\ call'[c].at \in {"idle", "tryUnix", "tryTcp", "failed"} => ran'[c] = 0
          /\ call'[c].at = "answered" => ran'[c] = 1
      BY <2>1, <3>2 DEF Transports
    <3>4. \A p \in Procs, t \in Transports :
            /\ Queued(c, p, t)' => ran'[c] = 0
            /\ InHand(c, p, t)' => ran'[c] = IF task'[p][t] = "answer" THEN 1 ELSE 0
      BY <2>1, <3>1
    <3> QED
      BY <3>3, <3>4 DEF Counted
  <2>3. CASE ~InHand(c, p0, t0)
    <3>1. call'[c] = call[c] /\ ran'[c] = ran[c]
      BY <2>3
    <3>2. \A p \in Procs, t \in Transports :
            /\ Queued(c, p, t)' => ran'[c] = 0
            /\ InHand(c, p, t)' => ran'[c] = IF task'[p][t] = "answer" THEN 1 ELSE 0
      <4> SUFFICES ASSUME NEW p \in Procs, NEW t \in Transports
                   PROVE  /\ Queued(c, p, t)' => ran'[c] = 0
                          /\ InHand(c, p, t)' => ran'[c] = IF task'[p][t] = "answer" THEN 1 ELSE 0
        OBVIOUS
      <4>1. CASE p = p0 /\ t = t0
        BY <2>1, <4>1
      <4>2. CASE p # p0 \/ t # t0
        <5>1. task'[p][t] = task[p][t]
          BY <4>2
        <5> QED
          BY <1>1, <2>1, <3>1, <4>2, <5>1 DEF Counted
      <4> QED
        BY <4>1, <4>2
    <3> QED
      BY <2>1, <3>1, <3>2 DEF Counted
  <2> QED
    BY <2>2, <2>3
<1> QED
  BY <1>2, <1>3 DEF CallInv

\* The four steps of a loop with a connection.
LEMMA LoopConn ==
  ASSUME StageInv, CallInv, NEW p \in Procs, NEW t \in Transports,
         Accept(p, t) \/ ReadEof(p, t) \/ Handle(p, t) \/ Answer(p, t)
  PROVE  CallInv'
<1> USE DEF SetTask, Effect, callVars
<1>0. /\ ProcTypes /\ CallTypes /\ RanInv
      /\ \A c \in Callers, q \in Procs, u \in Transports : Placed(c, q, u)
      /\ task[p][t] = "answer" => cur[p][t] \in Callers
  BY DEF CallInv, ConnInv, StageInv
<1>1. \A c \in Callers : c # Eof /\ c # None
  BY ServiceAssumption DEF Callers, Eof
<1>2. CASE Accept(p, t)
  <2> DEFINE q == queue[p][t]
  <2>1. /\ q \in Seq(Callers \cup {Eof}) /\ q # <<>>
        /\ cur' = [cur EXCEPT ![p][t] = Head(q)] /\ queue' = [queue EXCEPT ![p][t] = Tail(q)]
        /\ task' = [task EXCEPT ![p][t] = "reading"] /\ call' = call /\ ran' = ran /\ main' = main
        /\ task[p][t] = "accept"
    BY <1>0, <1>2 DEF Accept, CallTypes
  <2>2. /\ Head(q) \in Callers \cup {Eof} /\ Tail(q) \in Seq(Callers \cup {Eof})
        /\ \A c \in Callers : /\ In(c, q) <=> Head(q) = c \/ In(c, Tail(q))
                              /\ Once(c, q) => /\ Once(c, Tail(q))
                                               /\ ~(Head(q) = c /\ In(c, Tail(q)))
    <3> HIDE DEF q
    <3> QED
      BY <2>1, InTail
  <2> HIDE DEF q
  <2>3. CallTypes'
    BY <1>0, <2>1, <2>2 DEF CallTypes
  <2>4. /\ cur'[p][t] = Head(q) /\ queue'[p][t] = Tail(q) /\ task'[p][t] = "reading"
        /\ \A r \in Procs, u \in Transports : r # p \/ u # t =>
             queue'[r][u] = queue[r][u] /\ cur'[r][u] = cur[r][u] /\ task'[r][u] = task[r][u]
    BY <1>0, <2>1 DEF CallTypes, ProcTypes
  <2>5. \A c \in Callers :
          /\ Queued(c, p, t)' <=> In(c, Tail(q))
          /\ InHand(c, p, t)' <=> Head(q) = c
          /\ ~InHand(c, p, t)
          /\ Queued(c, p, t) <=> In(c, q)
    BY <2>1, <2>4 DEF Queued, InHand, q
  <2>6. \A c \in Callers : Once(c, q) /\ (call[c].at = t /\ call[c].of = p <=> In(c, q))
    BY <1>0, <2>5 DEF Placed, q
  <2>7. \A c \in Callers : Placed(c, p, t)'
    BY <2>1, <2>2, <2>4, <2>5, <2>6 DEF Placed
  <2>8. Uncrashed => \A c \in Callers : In(c, q) => ran[c] = 0
    BY <1>0, <2>5 DEF RanInv, Counted
  <2>9. Uncrashed => \A c \in Callers :
          /\ call'[c] # call[c] => ran'[c] = 1
          /\ Queued(c, p, t)' => ran'[c] = 0
          /\ InHand(c, p, t)' => ran'[c] = IF task'[p][t] = "answer" THEN 1 ELSE 0
    BY <2>1, <2>2, <2>4, <2>5, <2>8
  <2> QED
    BY <2>1, <2>3, <2>4, <2>7, <2>9, OneLoopConn
<1>3. CASE ReadEof(p, t)
  <2>1. /\ cur' = [cur EXCEPT ![p][t] = None] /\ task' = [task EXCEPT ![p][t] = "check"]
        /\ queue' = queue /\ call' = call /\ ran' = ran /\ main' = main /\ cur[p][t] = Eof
    BY <1>3 DEF ReadEof
  <2>2. CallTypes'
    BY <1>0, <2>1 DEF CallTypes
  <2>3. /\ task'[p][t] = "check"
        /\ \A r \in Procs, u \in Transports : r # p \/ u # t =>
             queue'[r][u] = queue[r][u] /\ cur'[r][u] = cur[r][u] /\ task'[r][u] = task[r][u]
    BY <1>0, <2>1 DEF CallTypes, ProcTypes
  <2>4. \A c \in Callers : /\ Queued(c, p, t)' <=> Queued(c, p, t)
                           /\ ~InHand(c, p, t)' /\ ~InHand(c, p, t)
    BY <1>1, <2>1, <2>3 DEF Queued, InHand
  <2>5. \A c \in Callers : Placed(c, p, t)'
    BY <1>0, <2>1, <2>4 DEF Placed
  <2>6. Uncrashed => \A c \in Callers :
          /\ call'[c] # call[c] => ran'[c] = 1
          /\ Queued(c, p, t)' => ran'[c] = 0
          /\ InHand(c, p, t)' => ran'[c] = IF task'[p][t] = "answer" THEN 1 ELSE 0
    BY <1>0, <2>1, <2>4 DEF RanInv, Counted
  <2> QED
    BY <2>1, <2>2, <2>3, <2>5, <2>6, OneLoopConn
<1>4. CASE Handle(p, t)
  <2>1. /\ task' = [task EXCEPT ![p][t] = "answer"] /\ ran' = [ran EXCEPT ![cur[p][t]] = @ + 1]
        /\ cur' = cur /\ queue' = queue /\ call' = call /\ main' = main
        /\ task[p][t] = "reading" /\ cur[p][t] \in Callers
    BY <1>4 DEF Handle
  <2>2. CallTypes'
    BY <1>0, <2>1 DEF CallTypes
  <2>3. /\ task'[p][t] = "answer"
        /\ \A r \in Procs, u \in Transports : r # p \/ u # t =>
             queue'[r][u] = queue[r][u] /\ cur'[r][u] = cur[r][u] /\ task'[r][u] = task[r][u]
    BY <1>0, <2>1 DEF CallTypes, ProcTypes
  <2>4. \A c \in Callers : /\ Queued(c, p, t)' <=> Queued(c, p, t)
                           /\ InHand(c, p, t)' <=> c = cur[p][t]
                           /\ InHand(c, p, t) <=> c = cur[p][t]
    BY <2>1, <2>3 DEF Queued, InHand
  <2>5. \A c \in Callers : Placed(c, p, t)'
    BY <1>0, <2>1, <2>4 DEF Placed
  <2>6. \A c \in Callers : ran'[c] = IF c = cur[p][t] THEN ran[c] + 1 ELSE ran[c]
    BY <1>0, <2>1 DEF CallTypes
  <2>7. Uncrashed => /\ ran[cur[p][t]] = 0
                     /\ \A c \in Callers : Queued(c, p, t) => ran[c] = 0 /\ c # cur[p][t]
    BY <1>0, <2>1, <2>4 DEF RanInv, Counted, Placed
  <2>8. Uncrashed => \A c \in Callers :
          /\ call'[c] # call[c] => ran'[c] = 1
          /\ Queued(c, p, t)' => ran'[c] = 0
          /\ InHand(c, p, t)' => ran'[c] = IF task'[p][t] = "answer" THEN 1 ELSE 0
    BY <2>1, <2>3, <2>4, <2>6, <2>7
  <2>9. \A c \in Callers :
          \/ call'[c] = call[c] /\ ran'[c] = ran[c]
          \/ InHand(c, p, t) /\ call'[c].at \in {t, "answered"} /\ call'[c].of = call[c].of
    BY <1>0, <2>1, <2>4, <2>6 DEF Placed
  <2> QED
    BY <2>1, <2>2, <2>3, <2>5, <2>8, <2>9, OneLoopConn
<1>5. CASE Answer(p, t)
  <2> DEFINE d == cur[p][t]
  <2>1. /\ task' = [task EXCEPT ![p][t] = "check"] /\ cur' = [cur EXCEPT ![p][t] = None]
        /\ call' = [call EXCEPT ![d].at = "answered"] /\ queue' = queue /\ ran' = ran
        /\ main' = main /\ task[p][t] = "answer" /\ d \in Callers
    BY <1>0, <1>5 DEF Answer
  <2>2. /\ call[d] \in Call /\ [call[d] EXCEPT !.at = "answered"] \in Call
        /\ [call[d] EXCEPT !.at = "answered"].at = "answered"
        /\ [call[d] EXCEPT !.at = "answered"].of = call[d].of
    BY <1>0, <2>1, ZenonT(60) DEF CallTypes, Call, CallStates
  <2>3. /\ call' = [call EXCEPT ![d] = [call[d] EXCEPT !.at = "answered"]]
        /\ call'[d].at = "answered" /\ call'[d].of = call[d].of
        /\ \A c \in Callers \ {d} : call'[c] = call[c]
    BY <1>0, <2>1, <2>2 DEF CallTypes
  <2>4. CallTypes'
    BY <1>0, <2>1, <2>2, <2>3 DEF CallTypes
  <2>5. /\ task'[p][t] = "check"
        /\ \A r \in Procs, u \in Transports : r # p \/ u # t =>
             queue'[r][u] = queue[r][u] /\ cur'[r][u] = cur[r][u] /\ task'[r][u] = task[r][u]
    BY <1>0, <2>1 DEF CallTypes, ProcTypes
  <2>6. \A c \in Callers : /\ Queued(c, p, t)' <=> Queued(c, p, t)
                           /\ ~InHand(c, p, t)'
                           /\ InHand(c, p, t) <=> c = d
    BY <2>1, <2>5 DEF Queued, InHand
  <2>7. \A c \in Callers : Placed(c, p, t)'
    BY <1>0, <2>1, <2>3, <2>6 DEF Placed, Transports
  <2>8. Uncrashed => \A c \in Callers :
          /\ call'[c] # call[c] => ran'[c] = 1
          /\ Queued(c, p, t)' => ran'[c] = 0
          /\ InHand(c, p, t)' => ran'[c] = IF task'[p][t] = "answer" THEN 1 ELSE 0
    BY <1>0, <2>1, <2>3, <2>6 DEF RanInv, Counted
  <2>9. \A c \in Callers :
          \/ call'[c] = call[c] /\ ran'[c] = ran[c]
          \/ InHand(c, p, t) /\ call'[c].at \in {t, "answered"} /\ call'[c].of = call[c].of
    BY <2>1, <2>3, <2>6
  <2> QED
    BY <2>1, <2>4, <2>5, <2>7, <2>8, <2>9, OneLoopConn
<1> QED
  BY <1>2, <1>3, <1>4, <1>5

\* Start-up and main thread move no connection, but for the listeners they
\* close and the wake-up calls they make.
LEMMA ProcessConn ==
  ASSUME StageInv, CallInv, NEW p \in Procs,
         StartUp(p) \/ MainStep(p) \/ Serve(p) \/ Signal(p) \/ Play(p) \/ Crash(p)
  PROVE  CallInv'
<1> USE DEF procVars, fileVars, callVars, Goto, SetTask, SetMain, At
<1>0. /\ ProcTypes /\ CallTypes
      /\ stage[p] # "serving" => \A t \in Transports : task[p][t] \notin {"reading", "answer"}
  BY HandsServe DEF CallInv, ConnInv, StageInv
<1>1. CASE \/ ProbeTcp(p) \/ ReleasePort(p) \/ DropStalePort(p) \/ Unlink(p) \/ WritePort(p)
           \/ ClearPort(p) \/ Join(p) \/ Signal(p)
  BY <1>1, QuietConn DEF ProbeTcp, ReleasePort, DropStalePort, Unlink, WritePort, ClearPort, Join,
                         Signal
<1>2. CASE \/ ServeReturns(p) \/ Delegated(p) \/ PlayHere(p) \/ PlaybackOver(p)
           \/ JoinServer(p) \/ PlayReturns(p) \/ Serve(p)
  <2>1. cur' = cur /\ queue' = queue /\ call' = call /\ ran' = ran /\ task' = task
    BY <1>2 DEF ServeReturns, Delegated, PlayHere, PlaybackOver, JoinServer, PlayReturns, Serve
  <2>2. \A q \in Procs : /\ main'[q] = "off" => main[q] = "off"
                         /\ main[q] = "crashed" => main'[q] = "crashed"
    BY <1>0, <1>2 DEF ProcTypes, ServeReturns, Delegated, PlayHere, PlaybackOver, JoinServer,
                      PlayReturns, Serve
  <2>3. \A q \in Procs, t \in Transports : task'[q][t] = task[q][t]
    BY <2>1
  <2> QED
    BY <2>1, <2>2, <2>3, QuietConn
<1>3. CASE BindUnix(p)
  <2>1. cur' = cur /\ queue' = queue /\ call' = call /\ ran' = ran /\ main' = main
    BY <1>3 DEF BindUnix
  <2>2. task' = task \/ task' = [task EXCEPT ![p]["unix"] = "check"]
    BY <1>3 DEF BindUnix
  <2>3. \A t \in Transports : task[p][t] \notin {"reading", "answer"}
    BY <1>0, <1>3 DEF BindUnix
  <2>4. \A q \in Procs, t \in Transports :
          \/ task'[q][t] = task[q][t]
          \/ {task'[q][t], task[q][t]} \cap {"reading", "answer"} = {}
    BY <1>0, <2>2, <2>3 DEF ProcTypes
  <2> QED
    BY <2>1, <2>4, QuietConn
<1>4. CASE ProbeUnix(p)
  <2>1. cur' = cur /\ task' = task /\ call' = call /\ ran' = ran /\ main' = main
    BY <1>4 DEF ProbeUnix
  <2>2. CASE queue' = queue
    BY <2>1, <2>2, QuietConn
  <2>3. CASE sock # None /\ queue' = [queue EXCEPT ![sock]["unix"] = Append(@, Eof)]
    <3>1. sock \in Procs /\ "unix" \in Transports
      BY <1>0, <2>3 DEF ProcTypes, Transports
    <3> QED
      BY <2>1, <2>3, <3>1, EofConn
  <2> QED
    BY <1>4, <2>2, <2>3 DEF ProbeUnix
<1>5. CASE Unblock(p)
  <2>1. /\ cur' = cur /\ task' = task /\ call' = call /\ ran' = ran
        /\ \A q \in Procs : /\ main'[q] = "off" => main[q] = "off"
                            /\ main[q] = "crashed" => main'[q] = "crashed"
    BY <1>0, <1>5 DEF Unblock, ProcTypes
  <2>2. CASE queue' = queue
    BY <2>1, <2>2, QuietConn
  <2>3. CASE port # None /\ queue' = [queue EXCEPT ![port]["tcp"] = Append(@, Eof)]
    <3>1. port \in Procs /\ "tcp" \in Transports
      BY <1>0, <2>3 DEF ProcTypes, Transports
    <3> QED
      BY <2>1, <2>3, <3>1, EofConn
  <2> QED
    BY <1>5, <2>2, <2>3 DEF Unblock
\* The listeners that CloseAll closes.
<1>6. ASSUME CloseAll(p), ran' = ran,
             Uncrashed' => \A t \in Transports : task[p][t] \notin {"reading", "answer"},
             \A q \in Procs : /\ main'[q] = "off" => main[q] = "off"
                              /\ main[q] = "crashed" => main'[q] = "crashed"
      PROVE  CallInv'
  <2>1. /\ cur' \in [Procs -> [Transports -> Callers \cup {Eof, None}]]
        /\ queue' \in [Procs -> [Transports -> Seq(Callers \cup {Eof})]]
    <3>1. <<>> \in Seq(Callers \cup {Eof})
      BY EmptySeq
    <3> QED
      BY <1>0, <1>6, <3>1 DEF CloseAll, CallTypes
  <2>2. \A q \in Procs, t \in Transports :
          IF q = p /\ t \in Transports
          THEN queue'[q][t] = <<>> /\ task'[q][t] \notin {"reading", "answer"}
          ELSE queue'[q][t] = queue[q][t] /\ cur'[q][t] = cur[q][t] /\ task'[q][t] = task[q][t]
    BY <1>0, <1>6 DEF CloseAll, CallTypes, ProcTypes
  <2>3. call' = Reset(p, Transports) /\ Transports \in SUBSET Transports
    BY <1>6 DEF CloseAll
  <2> QED
    BY <1>6, <2>1, <2>2, <2>3, ClosedConn
<1>7. CASE BindTcp(p)
  <2>1. ran' = ran /\ main' = main /\ stage[p] = "bindTcp"
    BY <1>7 DEF BindTcp
  <2>2. CASE task' = [task EXCEPT ![p]["tcp"] = "check"] /\ cur' = cur /\ queue' = queue /\ call' = call
    <3>1. \A q \in Procs, t \in Transports :
            \/ task'[q][t] = task[q][t]
            \/ {task'[q][t], task[q][t]} \cap {"reading", "answer"} = {}
      BY <1>0, <2>1, <2>2 DEF ProcTypes
    <3> QED
      BY <2>1, <2>2, <3>1, QuietConn
  <2>3. CASE CloseAll(p)
    BY <1>0, <1>6, <2>1, <2>3
  <2> QED
    BY <1>7, <2>2, <2>3 DEF BindTcp
<1>8. CASE Crash(p)
  <2>1. CloseAll(p) /\ ran' = ran
    BY <1>8 DEF Crash
  <2>2. /\ ~Uncrashed'
        /\ \A q \in Procs : /\ main'[q] = "off" => main[q] = "off"
                            /\ main[q] = "crashed" => main'[q] = "crashed"
    BY <1>0, <1>8 DEF Crash, ProcTypes, Uncrashed
  <2> QED
    BY <1>6, <2>1, <2>2
<1>9. CASE Play(p)
  <2>1. /\ p \in PlayProcs /\ p \in Callers /\ main[p] = "off"
        /\ cur' = cur /\ queue' = queue /\ task' = task /\ ran' = ran
    BY <1>9 DEF Play, Callers
  <2>2. call[p].at = "idle" /\ call[p] \in Call
    BY <1>0, <2>1 DEF CallInv, ConnInv, CallTypes
  <2>3. /\ call' = [call EXCEPT ![p] = [call[p] EXCEPT !.at = "tryUnix"]]
        /\ [call[p] EXCEPT !.at = "tryUnix"] \in Call
        /\ [call[p] EXCEPT !.at = "tryUnix"].at = "tryUnix"
    BY <1>0, <1>9, <2>1, <2>2 DEF Play, CallTypes, Call, CallStates
  <2>4. \A q \in Procs : /\ main'[q] = "off" => main[q] = "off" /\ q # p
                         /\ main[q] = "crashed" => main'[q] = "crashed"
    BY <1>0, <1>9 DEF Play, ProcTypes
  <2>5. Uncrashed => ran'[p] = 0
    BY <2>1, <2>2 DEF CallInv, RanInv, Counted
  <2>6. ran' \in [Callers -> Nat]
    BY <1>0, <2>1 DEF CallTypes
  <2>7. call[p].at \notin Transports /\ "tryUnix" \notin Transports
    BY <2>2 DEF Transports
  <2> DEFINE r == [call[p] EXCEPT !.at = "tryUnix"]
  <2> HIDE DEF r
  <2>8. r \in Call /\ r.at = "tryUnix" /\ call' = [call EXCEPT ![p] = r]
    BY <2>3 DEF r
  <2>9. r.at \notin Transports /\ r.at \in {"idle", "tryUnix", "tryTcp", "failed"}
    BY <2>7, <2>8
  <2>10. \A c \in Callers \ {p} : ran'[c] = ran[c]
    BY <2>1
  <2> QED
    BY <2>1, <2>4, <2>5, <2>6, <2>7, <2>8, <2>9, <2>10, CallOnly
<1>10. CASE Delegate(p)
  <2> DEFINE r == [call[p] EXCEPT !.at = "tryUnix", !.of = None]
  <2>1. /\ p \in Callers /\ call[p].at = "answered"
        /\ cur' = cur /\ queue' = queue /\ task' = task
    BY <1>10 DEF Delegate, StageInv, Listeners, Callers
  <2>2. call[p] \in Call
    BY <1>0, <2>1 DEF CallTypes
  <2>3. r \in Call /\ r.at = "tryUnix" /\ call' = [call EXCEPT ![p] = r]
    BY <1>0, <1>10, <2>1, <2>2 DEF Delegate, CallTypes, Call, CallStates
  <2>4. \A q \in Procs : /\ main'[q] = "off" => main[q] = "off" /\ q # p
                         /\ main[q] = "crashed" => main'[q] = "crashed"
    BY <1>0, <1>10 DEF Delegate, ProcTypes
  <2>5. /\ ran' \in [Callers -> Nat] /\ ran'[p] = 0
        /\ \A c \in Callers \ {p} : ran'[c] = ran[c]
    BY <1>0, <1>10, <2>1 DEF Delegate, CallTypes
  <2>6. call[p].at \notin Transports /\ "tryUnix" \notin Transports
    BY <2>1 DEF Transports
  <2> HIDE DEF r
  <2>7. r.at \notin Transports /\ r.at \in {"idle", "tryUnix", "tryTcp", "failed"}
    BY <2>3, <2>6
  <2> QED
    BY <2>1, <2>3, <2>4, <2>5, <2>6, <2>7, CallOnly
<1> QED
  BY <1>1, <1>2, <1>3, <1>4, <1>5, <1>7, <1>8, <1>9, <1>10 DEF StartUp, MainStep

\* The callers.
LEMMA CallerConn ==
  ASSUME StageInv, CallInv,
         \/ \E c \in Callers : Asks(c)
         \/ \E c \in Clients, m \in Commands : Invoke(c, m)
  PROVE  CallInv'
<1> USE DEF procVars, fileVars, callVars
<1>0. ProcTypes /\ CallTypes
  BY DEF CallInv, ConnInv, StageInv
\* A call that goes on without a connection.
<1>1. ASSUME NEW c \in Callers, call[c].at \in {"idle", "tryUnix", "tryTcp"}, NEW r \in Call,
             r.at \in {"tryUnix", "tryTcp", "failed"}, call' = [call EXCEPT ![c] = r],
             cur' = cur, queue' = queue, task' = task, ran' = ran, main' = main,
             c \in Procs => main[c] # "off"
      PROVE  CallInv'
  <2>1. call[c].at \notin Transports /\ r.at \notin Transports
    BY <1>1 DEF Transports
  <2>2. Uncrashed => ran'[c] = 0
    BY <1>1 DEF CallInv, RanInv, Counted
  <2>3. ran' \in [Callers -> Nat]
    BY <1>0, <1>1 DEF CallTypes
  <2> QED
    BY <1>1, <2>1, <2>2, <2>3, CallOnly
<1>2. ASSUME NEW c \in Clients, NEW m \in Commands, Invoke(c, m) PROVE CallInv'
  <2> DEFINE r == [call[c] EXCEPT !.at = "tryUnix", !.cmd = m]
  <2>1. /\ c \in Callers /\ call[c] \in Call /\ call[c].at = "idle" /\ c \notin Procs
        /\ m \in {"query", "shutdown"}
    BY <1>0, <1>2, ServiceAssumption DEF CallTypes, Callers, Invoke
  <2>2. r \in Call /\ r.at = "tryUnix" /\ call' = [call EXCEPT ![c] = r]
    BY <1>0, <1>2, <2>1 DEF Invoke, CallTypes, Call, CallStates
  <2>3. cur' = cur /\ queue' = queue /\ task' = task /\ ran' = ran /\ main' = main
    BY <1>2 DEF Invoke
  <2> HIDE DEF r
  <2> QED
    BY <1>1, <2>1, <2>2, <2>3
<1>3. ASSUME NEW c \in Callers, Asks(c) PROVE CallInv'
  <2>1. /\ call[c] \in Call /\ call[c].at \in {"tryUnix", "tryTcp"}
        /\ cur' = cur /\ task' = task /\ ran' = ran /\ main' = main
    BY <1>0, <1>3 DEF Asks, TryUnix, TryTcp, CallTypes
  <2>2. c \in Procs => main[c] # "off"
    BY <2>1, ServiceAssumption DEF CallInv, ConnInv, Callers
  <2>3. CASE \E p \in Procs, t \in Transports : Connect(c, p, t)
    BY <2>1, <2>3, ConnectConn
  <2>4. CASE \E a \in {"tryTcp", "failed"} : queue' = queue /\ call' = [call EXCEPT ![c].at = a]
    <3>1. PICK a \in {"tryTcp", "failed"} : queue' = queue /\ call' = [call EXCEPT ![c].at = a]
      BY <2>4
    <3> DEFINE r == [call[c] EXCEPT !.at = a]
    <3>2. r \in Call /\ r.at = a /\ call' = [call EXCEPT ![c] = r]
      BY <1>0, <2>1, <3>1 DEF CallTypes, Call, CallStates
    <3> HIDE DEF r
    <3> QED
      BY <1>1, <2>1, <2>2, <3>1, <3>2
  <2>5. \/ \E p \in Procs, t \in Transports : Connect(c, p, t)
        \/ \E a \in {"tryTcp", "failed"} : queue' = queue /\ call' = [call EXCEPT ![c].at = a]
    BY <1>0, <1>3 DEF Asks, TryUnix, TryTcp, ProcTypes, Transports
  <2> QED
    BY <2>3, <2>4, <2>5
<1> QED
  BY <1>2, <1>3

\* Every step keeps a call where its connection is.
LEMMA CallStep == StageInv /\ CallInv /\ [Next]_vars => CallInv'
<1> SUFFICES ASSUME StageInv, CallInv, [Next]_vars PROVE CallInv'
  OBVIOUS
<1>0. ProcTypes /\ CallTypes
  BY DEF CallInv, ConnInv, StageInv
<1>1. ASSUME NEW p \in Procs, NEW t \in Transports, Check(p, t) PROVE CallInv'
  <2>1. ran' = ran /\ cur' = cur /\ main' = main /\ task[p][t] = "check"
    BY <1>1 DEF Check
  <2>2. CASE task' = [task EXCEPT ![p][t] = "accept"] /\ queue' = queue /\ call' = call
    <3>1. \A q \in Procs, u \in Transports :
            \/ task'[q][u] = task[q][u]
            \/ {task'[q][u], task[q][u]} \cap {"reading", "answer"} = {}
      BY <1>0, <2>1, <2>2 DEF ProcTypes
    <3> QED
      BY <2>1, <2>2, <3>1, QuietConn
  <2>3. CASE /\ task' = [task EXCEPT ![p][t] = "closed"] /\ queue' = [queue EXCEPT ![p][t] = <<>>]
             /\ call' = Reset(p, {t})
    <3>1. /\ cur' \in [Procs -> [Transports -> Callers \cup {Eof, None}]]
          /\ queue' \in [Procs -> [Transports -> Seq(Callers \cup {Eof})]]
      <4>1. <<>> \in Seq(Callers \cup {Eof})
        BY EmptySeq
      <4> QED
        BY <1>0, <2>1, <2>3, <4>1 DEF CallTypes
    <3>2. \A q \in Procs, u \in Transports :
            IF q = p /\ u \in {t}
            THEN queue'[q][u] = <<>> /\ task'[q][u] \notin {"reading", "answer"}
            ELSE queue'[q][u] = queue[q][u] /\ cur'[q][u] = cur[q][u] /\ task'[q][u] = task[q][u]
      BY <1>0, <2>1, <2>3 DEF CallTypes, ProcTypes
    <3>3. {t} \in SUBSET Transports
      OBVIOUS
    <3> QED
      BY <2>1, <2>3, <3>1, <3>2, <3>3, ClosedConn, ZenonT(60)
  <2> QED
    BY <1>1, <2>2, <2>3 DEF Check, SetTask
<1>2. ASSUME NEW p \in Procs, NEW t \in Transports, RemoveFile(p, t) PROVE CallInv'
  <2>1. ran' = ran /\ cur' = cur /\ main' = main /\ queue' = queue /\ call' = call
    BY <1>2 DEF RemoveFile, callVars
  <2>2. \A q \in Procs, u \in Transports :
          \/ task'[q][u] = task[q][u]
          \/ {task'[q][u], task[q][u]} \cap {"reading", "answer"} = {}
    BY <1>0, <1>2 DEF RemoveFile, SetTask, ProcTypes
  <2> QED
    BY <2>1, <2>2, QuietConn
<1>3. CASE UNCHANGED vars
  BY <1>3, QuietConn DEF vars, procVars, callVars
<1> QED
  BY <1>1, <1>2, <1>3, ProcessConn, LoopConn, CallerConn DEF Next, Serves

\* Unless a process is killed, a command is executed at most once, exactly once
\* when its caller has an answer, and never when the caller falls back or gives
\* up (send_ipc_command, handle_connection, serve).
THEOREM CommandsRunOnce == Spec => []ExecutedOnce
<1>1. CallInv => ExecutedOnce
  <2> SUFFICES ASSUME CallInv, Uncrashed, NEW c \in Callers
               PROVE  /\ ran[c] <= 1
                      /\ call[c].at = "answered" => ran[c] = 1
                      /\ call[c].at \in {"tryTcp", "failed"} => ran[c] = 0
    BY DEF ExecutedOnce, Uncrashed
  <2>1. call[c] \in Call /\ Counted(c) /\ \A p \in Procs, t \in Transports : Placed(c, p, t)
    BY DEF CallInv, ConnInv, RanInv, CallTypes
  <2>2. CASE call[c].at \in Transports
    <3>1. PICK p \in Procs, t \in Transports : call[c].at = t /\ call[c].of = p
      BY <2>2 DEF CallInv, ConnInv
    <3>2. Queued(c, p, t) \/ InHand(c, p, t)
      BY <2>1, <3>1 DEF Placed
    <3>3. ran[c] = 0 \/ ran[c] = 1
      BY <2>1, <3>2 DEF Counted
    <3> QED
      BY <2>2, <3>3 DEF Transports
  <2>3. CASE call[c].at \notin Transports
    <3>1. call[c].at \in {"idle", "tryUnix", "tryTcp", "failed", "answered"}
      BY <2>1, <2>3 DEF Call, CallStates, Transports
    <3> QED
      BY <2>1, <3>1 DEF Counted
  <2> QED
    BY <2>2, <2>3
<1> QED
  BY StageInit, StageStep, CallInit, CallStep, <1>1, PTL DEF Spec
=============================================================================
