-------------------------- MODULE StreamLifecycle ---------------------------
(***************************************************************************)
(* What the engine promises about a stream's resources, seen from outside: *)
(* a stream is opened with a codec stream and a reader, is published at    *)
(* most once, is played by at most one run, and is over for good only when *)
(* both resources have been given back, the codec stream before the reader *)
(* it calls into.  Nothing is said of threads, locks or tokens.            *)
(***************************************************************************)
CONSTANT Streams

VARIABLES
  phase,  \* "new", "refused", "ready", "playing", "over"
  held    \* the resources of the stream that are open

vars == <<phase, held>>

Resources == {"codec", "reader"}

Init ==
  /\ phase = [s \in Streams |-> "new"]
  /\ held = [s \in Streams |-> {}]

Acquire(s) ==
  /\ phase[s] = "new" /\ held[s] = {}
  /\ held' = [held EXCEPT ![s] = Resources]
  /\ UNCHANGED phase

\* A stream that is never published keeps nothing.
Refuse(s) ==
  /\ phase[s] = "new"
  /\ phase' = [phase EXCEPT ![s] = "refused"]
  /\ held' = [held EXCEPT ![s] = {}]

Publish(s) ==
  /\ phase[s] = "new" /\ held[s] = Resources
  /\ phase' = [phase EXCEPT ![s] = "ready"]
  /\ UNCHANGED held

Play(s) ==
  /\ phase[s] = "ready"
  /\ phase' = [phase EXCEPT ![s] = "playing"]
  /\ UNCHANGED held

ReleaseCodec(s) ==
  /\ phase[s] = "playing" /\ held[s] = Resources
  /\ held' = [held EXCEPT ![s] = {"reader"}]
  /\ UNCHANGED phase

ReleaseReader(s) ==
  /\ phase[s] = "playing" /\ held[s] = {"reader"}
  /\ held' = [held EXCEPT ![s] = {}]
  /\ UNCHANGED phase

Retire(s) ==
  /\ phase[s] = "playing" /\ held[s] = {}
  /\ phase' = [phase EXCEPT ![s] = "over"]
  /\ UNCHANGED held

\* The engine goes away: nothing is playing, and what was ready is given back.
Close ==
  /\ \A s \in Streams : phase[s] # "playing"
  /\ phase' = [s \in Streams |-> IF phase[s] = "ready" THEN "over" ELSE phase[s]]
  /\ held' = [s \in Streams |-> IF phase[s] = "ready" THEN {} ELSE held[s]]

Next ==
  \/ \E s \in Streams :
       \/ Acquire(s) \/ Refuse(s) \/ Publish(s) \/ Play(s)
       \/ ReleaseCodec(s) \/ ReleaseReader(s) \/ Retire(s)
  \/ Close

Spec == Init /\ [][Next]_vars
=============================================================================
