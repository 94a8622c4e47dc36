------------------------ MODULE FrameworkProperties -------------------------
(***************************************************************************)
(* What ExtensionFramework guarantees, for calls that overlap and for      *)
(* calls made one at a time, and a statement of the repository that it     *)
(* does not meet.                                                          *)
(***************************************************************************)
EXTENDS ExtensionFramework
-----------------------------------------------------------------------------
(***************************************************************************)
(* However calls overlap.                                                  *)
(***************************************************************************)

\* Where a load holds the claim on its name.
Claimed(c) ==
  /\ calls[c].op = "load"
  /\ calls[c].pc \notin {"fast", "claim"} \cup Returned

\* The set of names being loaded is exactly the names of the loads past their
\* claim, and no two of these are for one name: a claim is neither shared nor
\* left behind by any of the error returns of load.
ClaimsExclusive ==
  /\ loading = {NameOf(c) : c \in {d \in DOMAIN calls : Claimed(d)}}
  /\ \A c, d \in DOMAIN calls : Claimed(c) /\ Claimed(d) /\ NameOf(c) = NameOf(d) => c = d

\* The extensions on a dependency cycle, those that no file has and all that
\* depend on one, through any number of others, whichever of their files a scan
\* finds: their dependencies cannot all be loaded before them.
Cyclic == UNION {S \in SUBSET Extensions : \A e \in S : \A f \in FilesOf[e] : Needs(f) \cap S # {}}

\* An extension that is on a dependency cycle, or depends on one, is never
\* loaded nor initialised, whichever of its members are loaded at the same time
\* and by whom.
CyclesRefused ==
  \A e \in Cyclic : loaded[e] = 0 /\ up \cap FilesOf[e] = {}

\* Every call returns (a prepared reload waits for its commit): loads of one
\* another's dependencies never wait for each other.
CallsReturn == (Running # {}) ~> (Running = {})
-----------------------------------------------------------------------------
(***************************************************************************)
(* One call at a time (MaxConcurrent = 1; reloads may stay prepared).      *)
(***************************************************************************)

\* Metadata that an entry of a live register points to is never freed: unload,
\* reload and the error returns of load leave no entry behind.
NoDanglingEntries == \A x \in entries : x.meta \in metas

\* A register in the slot map belongs to a library that is open, and a load never
\* pushes into one that is not.
RegistersLive ==
  /\ \A s \in Slots : slotMap[s] # None /\ slotMap[s].file # None
                        => MappedBy(handles, slotMap[s].file)
  /\ ~stray

\* Between calls the two maps agree, and the libraries and metadata boxes in
\* existence are theirs and the prepared reloads': no error return leaks one.
NothingLeft ==
  Running = {} =>
    /\ loaded = loadedMeta
    /\ handles = metas
    /\ handles = ({loaded[e] : e \in Extensions} \ {0}) \cup {c \in DOMAIN calls : At(c, "prepared")}

\* A commit between the removal of the old version and its end.
Replacing(c) ==
  /\ calls[c].op = "reload"
  /\ calls[c].pc \in {"removeEntries", "removeOwned", "deinit", "close", "attach", "push"}

\* The file of each extension that is there, and the names being replaced.
Version == [e \in Extensions |-> IF loadedMeta[e] = 0 THEN None ELSE FileOf(loadedMeta[e])]
Replaced == {NameOf(c) : c \in {d \in DOMAIN calls : Replacing(d)}}

Registry == INSTANCE ExtensionRegistry WITH version <- Version, replacing <- Replaced

\* load brings the extensions that a file depends on first, and unload and reload
\* refuse to take away what the version in use of another extension depends on.
\* What the new version of a reload depends on is not promised to be there:
\* prepare_reload keeps its depends_on for a validation that does not exist yet.
ImplementsRegistry == Registry!Spec
-----------------------------------------------------------------------------
(***************************************************************************)
(* A statement of the repository that the code does not meet.              *)
(***************************************************************************)

\* lib.rs on the claim: it "prevents circular dependencies and TOCTOU races": of
\* several loads of one name only one opens and initialises the library.
LoadsOnce ==
  \A c, d \in handles :
    calls[c].op = "load" /\ calls[d].op = "load" /\ NameOf(c) = NameOf(d) => c = d
=============================================================================
