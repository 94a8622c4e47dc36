-------------------------- MODULE ExtensionRegistry --------------------------
(***************************************************************************)
(* What the framework promises when its calls are serialised: an extension *)
(* is loaded after the extensions that its file depends on, and none is    *)
(* unloaded or taken out for a new version while another depends on it.    *)
(* The new version takes its place whether or not the extensions that this *)
(* one depends on are there.                                               *)
(***************************************************************************)
EXTENDS Sequences

CONSTANTS Extensions, FilesOf, ReloadFiles, DependsOn, None

VARIABLES
  version,    \* the file of each extension that is there, else None
  replacing   \* extensions taken out for a new version

Needs(f) == {DependsOn[f][i] : i \in DOMAIN DependsOn[f]}

Live == {e \in Extensions : version[e] # None}

Init == version = [e \in Extensions |-> None] /\ replacing = {}

Load(e) ==
  /\ replacing = {} /\ e \notin Live
  /\ \E f \in FilesOf[e] : Needs(f) \subseteq Live /\ version' = [version EXCEPT ![e] = f]
  /\ UNCHANGED replacing

\* Nothing else that is there depends on e.
Leave(e) ==
  /\ replacing = {} /\ e \in Live
  /\ \A d \in Live \ {e} : e \notin Needs(version[d])
  /\ version' = [version EXCEPT ![e] = None]

Unload(e) == Leave(e) /\ UNCHANGED replacing

TakeOut(e) == Leave(e) /\ replacing' = {e}

Replace(e) ==
  /\ replacing = {e}
  /\ \E f \in ReloadFiles[e] : version' = [version EXCEPT ![e] = f]
  /\ replacing' = {}

Next == \E e \in Extensions : Load(e) \/ Unload(e) \/ TakeOut(e) \/ Replace(e)

Spec == Init /\ [][Next]_<<version, replacing>>
=============================================================================
