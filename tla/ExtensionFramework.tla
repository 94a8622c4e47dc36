------------------------- MODULE ExtensionFramework --------------------------
(***************************************************************************)
(* The extension framework (around-extensions): a process-wide registry    *)
(* that loads extensions with their dependencies, unloads them and swaps   *)
(* them for new versions.  Its maps (loaded libraries, their metadata, the *)
(* slot registers, the names being loaded) each have a lock of their own,  *)
(* and no lock spans a call, so calls interleave at every map access.      *)
(*                                                                         *)
(* A call is a frame in `calls`; load() calls itself for each dependency,  *)
(* and the nested frame names its parent.  A frame's number also stands    *)
(* for the library handle and the metadata box that this call creates.     *)
(*                                                                         *)
(* What an extension needs and brings is that of its file (AROUND_META,    *)
(* AROUND_SLOTS): a reload installs a version with other dependencies,     *)
(* other slots and another api_version, and looks at none of the three.    *)
(*                                                                         *)
(* push_raw is an extern "C" function: a panic in it ends the process      *)
(* before the crash guard can turn it into an error, so a push succeeds    *)
(* and the buffer of pending entries stays empty.                          *)
(***************************************************************************)
EXTENDS Naturals, Sequences, FiniteSets

CONSTANTS
  Extensions,    \* extension names
  Files,         \* shared libraries on disk
  FilesOf,       \* the files that a scan finds under each name
  ReloadFiles,   \* the files that clients reload each name from
  DependsOn,     \* depends_on in each file, in order
  NeedsSlots,    \* depends_on_slots in each file
  BadApi,        \* files built for another api_version
  HostSlots,     \* slots that the host attaches
  OwnSlots,      \* slots that each file defines (AROUND_SLOTS)
  Provides,      \* slots that each file exports a create function for
  Operations,    \* bound: the calls that clients of this instance make
  MaxCalls,      \* bound: calls made from outside
  MaxFrames,     \* bound: frames those calls take, nested loads included
  MaxConcurrent, \* bound: of those, how many are in progress at a time
  None           \* no file, no slot, no owner

Slots == HostSlots \cup UNION {OwnSlots[f] : f \in Files}

ASSUME FrameworkAssumption ==
  /\ FilesOf \in [Extensions -> SUBSET Files]
  /\ ReloadFiles \in [Extensions -> SUBSET Files]
  \* the name of an extension is part of its file (AROUND_META)
  /\ \A d, e \in Extensions :
       d # e => (FilesOf[d] \cup ReloadFiles[d]) \cap (FilesOf[e] \cup ReloadFiles[e]) = {}
  /\ DependsOn \in [Files -> Seq(Extensions)]
  /\ NeedsSlots \in [Files -> SUBSET Slots]
  /\ BadApi \subseteq Files
  /\ Provides \in [Files -> SUBSET Slots]
  /\ Operations \subseteq {"scan", "load", "unload", "reload"}
  /\ MaxCalls \in Nat /\ MaxFrames \in Nat /\ MaxConcurrent \in Nat
  /\ None \notin Files \cup Slots \cup Extensions

\* No slot of the map holds None for a register.
ASSUME NoneIsNoRegister ==
  None \notin [owner : Extensions \cup {None}, file : Files \cup {None}]

VARIABLES
  calls,       \* the frames of every call so far
  loading,     \* Framework.loading: names claimed by a load
  index,       \* Framework.index: the file known for a name
  loaded,      \* Framework.loaded: name -> library (0: absent)
  loadedMeta,  \* Framework.loaded_meta: name -> metadata box (0: absent)
  slotMap,     \* Framework.slot_map: slot -> owner and register
  handles,     \* libraries (frame numbers) that have not been dropped
  metas,       \* metadata boxes that have not been freed
  up,          \* files whose image has run around_init and not around_deinit
  entries,     \* what the registers hold: slot, the register's file, metadata
  stray        \* a push went to a register whose library was already closed

mapVars  == <<loading, index, loaded, loadedMeta, slotMap>>
liveVars == <<handles, metas, up>>
regVars  == <<entries, stray>>
vars == <<calls, mapVars, liveVars, regVars>>
-----------------------------------------------------------------------------
Returned == {"ok", "failed"}

Frame(op, e, f, p, parent) ==
  [op |-> op, name |-> e, file |-> f, pc |-> p, parent |-> parent,
   todo |-> <<>>, regs |-> {}, old |-> 0, oldLib |-> 0]

At(c, p) == c \in DOMAIN calls /\ calls[c].pc = p
Goto(c, p) == calls' = [calls EXCEPT ![c].pc = p]

\* The call returns: its locals are gone (the file stays, for its library may).
Return(c, result) ==
  calls' = [calls EXCEPT ![c] = Frame(@.op, @.name, @.file, result, @.parent)]

NameOf(c) == calls[c].name
FileOf(c) == calls[c].file

\* The extensions that a file depends on.
Needs(f) == {DependsOn[f][i] : i \in DOMAIN DependsOn[f]}

\* Calls from outside that are running; a prepared reload waits for its commit.
Running == {c \in DOMAIN calls : calls[c].parent = 0 /\ calls[c].pc \notin Returned \cup {"prepared"}}

\* A shared library is mapped while some handle to its file is open.
MappedBy(H, f) == \E c \in H : calls[c].file = f

\* Dropping handles: the last one of a file unmaps the image, its statics and
\* the registers in it.
DropLibraries(H) ==
  /\ handles' = handles \ H
  /\ up' = {f \in up : MappedBy(handles \ H, f)}
  /\ entries' = {x \in entries : x.file = None \/ MappedBy(handles \ H, x.file)}

Init ==
  /\ calls = <<>>
  /\ loading = {}
  /\ index = [e \in Extensions |-> None]
  /\ loaded = [e \in Extensions |-> 0]
  /\ loadedMeta = [e \in Extensions |-> 0]
  /\ slotMap = [s \in Slots |-> None]
  /\ handles = {}
  /\ metas = {}
  /\ up = {}
  /\ entries = {}
  /\ stray = FALSE
-----------------------------------------------------------------------------
(***************************************************************************)
(* scan and attach_register.                                               *)
(***************************************************************************)

\* scan: a name keeps the first file found for it.
Scan ==
  /\ "scan" \in Operations
  /\ \E e \in Extensions : index[e] = None /\ FilesOf[e] # {}
  /\ index' \in [Extensions -> Files \cup {None}]
  /\ \A e \in Extensions :
       IF index[e] = None /\ FilesOf[e] # {} THEN index'[e] \in FilesOf[e]
                                             ELSE index'[e] = index[e]
  /\ UNCHANGED <<calls, loading, loaded, loadedMeta, slotMap, liveVars, regVars>>

\* attach_register: the host installs a register of its own.
AttachRegister(s) ==
  /\ slotMap' = [slotMap EXCEPT ![s] = [owner |-> None, file |-> None]]
  /\ UNCHANGED <<calls, loading, index, loaded, loadedMeta, liveVars, regVars>>
-----------------------------------------------------------------------------
(***************************************************************************)
(* load.                                                                   *)
(***************************************************************************)

Start(op, e, f, p) ==
  /\ op \in Operations
  /\ Cardinality({c \in DOMAIN calls : calls[c].parent = 0}) < MaxCalls
  /\ Cardinality(Running) < MaxConcurrent
  /\ calls' = Append(calls, Frame(op, e, f, p, 0))
  /\ UNCHANGED <<mapVars, liveVars, regVars>>

\* Already loaded: the caller gets the library that is there.
FastPath(c) ==
  /\ At(c, "fast")
  /\ Goto(c, IF loaded[NameOf(c)] # 0 THEN "ok" ELSE "claim")
  /\ UNCHANGED <<mapVars, liveVars, regVars>>

\* Mutant of Claim: a name being loaded counts as loaded.
ClaimSatisfied(c) ==
  /\ At(c, "claim")
  /\ Goto(c, IF NameOf(c) \in loading THEN "ok" ELSE "resolve")
  /\ loading' = loading \cup {NameOf(c)}
  /\ UNCHANGED <<index, loaded, loadedMeta, slotMap, liveVars, regVars>>

\* Mutant of Claim: a load waits for the one that has the claim.
ClaimWaits(c) ==
  /\ At(c, "claim")
  /\ NameOf(c) \notin loading
  /\ Goto(c, "resolve")
  /\ loading' = loading \cup {NameOf(c)}
  /\ UNCHANGED <<index, loaded, loadedMeta, slotMap, liveVars, regVars>>

\* Mutant of Claim: the claim is not checked.
ClaimUnchecked(c) ==
  /\ At(c, "claim")
  /\ Goto(c, "resolve")
  /\ loading' = loading \cup {NameOf(c)}
  /\ UNCHANGED <<index, loaded, loadedMeta, slotMap, liveVars, regVars>>

\* Claim the name, or report a circular dependency, whoever holds the claim.
Claim(c) ==
  /\ At(c, "claim")
  /\ Goto(c, IF NameOf(c) \in loading THEN "failed" ELSE "resolve")
  /\ loading' = loading \cup {NameOf(c)}
  /\ UNCHANGED <<index, loaded, loadedMeta, slotMap, liveVars, regVars>>

\* An error return: LoadingGuard gives the claim back.
FailLoad(c) ==
  /\ Return(c, "failed")
  /\ loading' = loading \ {NameOf(c)}

\* The file comes from the index, or else from a fresh scan; its api_version is
\* checked before anything else is done with it.
Resolve(c) ==
  LET e == NameOf(c)
      known == IF index[e] # None THEN {index[e]} ELSE FilesOf[e]
  IN
  /\ At(c, "resolve")
  /\ \/ /\ known = {}
        /\ FailLoad(c)
        /\ UNCHANGED index
     \/ \E f \in known :
          /\ index' = [index EXCEPT ![e] = f]
          /\ \/ f \in BadApi /\ FailLoad(c)
             \/ /\ f \notin BadApi
                /\ calls' = [calls EXCEPT ![c].pc = "slots", ![c].file = f]
                /\ UNCHANGED loading
  /\ UNCHANGED <<loaded, loadedMeta, slotMap, liveVars, regVars>>

\* Every slot the extension depends on must be attached before, not by, the
\* extensions it depends on.
CheckSlots(c) ==
  /\ At(c, "slots")
  /\ \/ /\ \E s \in NeedsSlots[FileOf(c)] : slotMap[s] = None
        /\ FailLoad(c)
     \/ /\ \A s \in NeedsSlots[FileOf(c)] : slotMap[s] # None
        /\ calls' = [calls EXCEPT ![c].pc = "deps", ![c].todo = DependsOn[FileOf(c)]]
        /\ UNCHANGED loading
  /\ UNCHANGED <<index, loaded, loadedMeta, slotMap, liveVars, regVars>>

\* self.load(dep): a nested frame, for which this one waits.
LoadDependency(c) ==
  /\ At(c, "deps")
  /\ calls[c].todo # <<>>
  /\ calls' = Append([calls EXCEPT ![c].pc = "await", ![c].todo = Tail(@)],
                     Frame("load", Head(calls[c].todo), None, "fast", c))
  /\ UNCHANGED <<mapVars, liveVars, regVars>>

\* The nested load returns; its error is this call's error.
DependencyReturns(c) ==
  /\ At(c, "await")
  /\ \E d \in {x \in DOMAIN calls : calls[x].parent = c} :
       /\ \A x \in DOMAIN calls : calls[x].parent = c => x <= d
       /\ \/ At(d, "ok") /\ Goto(c, "deps") /\ UNCHANGED loading
          \/ At(d, "failed") /\ FailLoad(c)
  /\ UNCHANGED <<index, loaded, loadedMeta, slotMap, liveVars, regVars>>

\* dlopen, and a metadata box of its own for this load.
OpenLibrary(c) ==
  /\ At(c, "deps")
  /\ calls[c].todo = <<>>
  /\ \/ /\ handles' = handles \cup {c}
        /\ metas' = metas \cup {c}
        /\ Goto(c, "init")
        /\ UNCHANGED loading
     \/ FailLoad(c) /\ UNCHANGED <<handles, metas>>
  /\ UNCHANGED <<index, loaded, loadedMeta, slotMap, up, regVars>>

\* around_init, if it refuses, is not followed by around_deinit.
InitExtension(c) ==
  /\ At(c, "init")
  /\ \/ /\ up' = up \cup {calls[c].file}
        /\ Goto(c, "attach")
        /\ UNCHANGED <<loading, handles, metas, entries>>
     \/ /\ FailLoad(c)
        /\ DropLibraries({c})
        /\ metas' = metas \ {c}
  /\ UNCHANGED <<index, loaded, loadedMeta, slotMap, stray>>

\* The entry that this call's extension pushes into the register of f for slot s.
Entry(c, s, f) == [slot |-> s, file |-> f, meta |-> c]

\* AROUND_SLOTS: attach the extension's own registers and fill them.  Whatever
\* was attached under the same name is replaced.
AttachOwned(c) ==
  LET f == FileOf(c)
      own == OwnSlots[f]
  IN
  /\ At(c, "attach")
  /\ slotMap' = [s \in Slots |-> IF s \in own THEN [owner |-> NameOf(c), file |-> f]
                                              ELSE slotMap[s]]
  /\ entries' = entries \cup {Entry(c, s, f) : s \in own \cap Provides[f]}
  /\ Goto(c, IF calls[c].op = "load" THEN "snapshot" ELSE "push")
  /\ UNCHANGED <<loading, index, loaded, loadedMeta, liveVars, stray>>

\* The registers of other owners, as they are now, that the extension has
\* entries for (it exports the slot's create function).
OthersRegisters(c) ==
  {[slot |-> s, file |-> slotMap[s].file] :
     s \in {t \in Provides[FileOf(c)] : slotMap[t] # None /\ slotMap[t].owner # NameOf(c)}}

Snapshot(c) ==
  /\ At(c, "snapshot")
  /\ calls' = [calls EXCEPT ![c].pc = "push", ![c].regs = OthersRegisters(c)]
  /\ UNCHANGED <<mapVars, liveVars, regVars>>

\* Fill one register of the snapshot, wherever its owner is by now.
PushEntries(c) ==
  /\ At(c, "push")
  /\ calls[c].op = "load"
  /\ \E r \in calls[c].regs :
       LET open == r.file = None \/ MappedBy(handles, r.file) IN
       /\ calls' = [calls EXCEPT ![c].regs = @ \ {r}]
       /\ entries' = IF open THEN entries \cup {Entry(c, r.slot, r.file)} ELSE entries
       /\ stray' = (stray \/ ~open)
  /\ UNCHANGED <<mapVars, liveVars>>

\* loaded.insert drops the library that was there.
StoreLibrary(c) ==
  /\ At(c, "push")
  /\ calls[c].op = "load"
  /\ calls[c].regs = {}
  /\ loaded' = [loaded EXCEPT ![NameOf(c)] = c]
  /\ DropLibraries({loaded[NameOf(c)]})
  /\ Goto(c, "storeMeta")
  /\ UNCHANGED <<loading, index, loadedMeta, slotMap, metas, stray>>

\* loaded_meta.insert frees the box that was there.  The OnLoad broadcast and
\* the trust counter that follow change nothing that is modelled here.
StoreMeta(c) ==
  /\ At(c, "storeMeta")
  /\ loadedMeta' = [loadedMeta EXCEPT ![NameOf(c)] = c]
  /\ metas' = metas \ {loadedMeta[NameOf(c)]}
  /\ Goto(c, "finish")
  /\ UNCHANGED <<loading, index, loaded, slotMap, handles, up, regVars>>

\* The claim is given back when load returns.
FinishLoad(c) ==
  /\ At(c, "finish")
  /\ Return(c, "ok")
  /\ loading' = loading \ {NameOf(c)}
  /\ UNCHANGED <<index, loaded, loadedMeta, slotMap, liveVars, regVars>>
-----------------------------------------------------------------------------
(***************************************************************************)
(* unload, and what a reload's commit shares with it.                      *)
(***************************************************************************)

Fail(c) == Return(c, "failed")

\* Mutant of Dependents: nobody depends on anybody.
NoDependents(e) == {}

\* The loaded extensions whose present version depends on e.
Dependents(e) ==
  {d \in Extensions \ {e} : loadedMeta[d] # 0 /\ e \in Needs(FileOf(loadedMeta[d]))}

\* Mutant of AbandonReload: the error return forgets what was opened.
AbandonReloadLeaks(c) == Fail(c) /\ UNCHANGED <<liveVars, entries>>

\* What an abandoned reload opened is dropped; around_deinit is not called.
AbandonReload(c) ==
  /\ Fail(c)
  /\ DropLibraries({c})
  /\ metas' = metas \ {c}

\* unload and commit_reload refuse while a loaded extension depends on this one.
CheckDependents(c) ==
  /\ At(c, "dependents")
  /\ \/ /\ Dependents(NameOf(c)) = {}
        /\ Goto(c, IF calls[c].op = "unload" THEN "removeMeta" ELSE "removeOld")
        /\ UNCHANGED <<liveVars, entries>>
     \/ /\ Dependents(NameOf(c)) # {}
        /\ IF calls[c].op = "unload" THEN Fail(c) /\ UNCHANGED <<liveVars, entries>>
                                     ELSE AbandonReload(c)
  /\ UNCHANGED <<mapVars, stray>>

\* The metadata leaves its map first: it names the entries to remove.
RemoveMeta(c) ==
  LET e == NameOf(c) IN
  /\ At(c, "removeMeta")
  /\ \/ loadedMeta[e] = 0 /\ Fail(c) /\ UNCHANGED loadedMeta
     \/ /\ loadedMeta[e] # 0
        /\ loadedMeta' = [loadedMeta EXCEPT ![e] = 0]
        /\ calls' = [calls EXCEPT ![c].pc = "removeEntries", ![c].old = loadedMeta[e]]
  /\ UNCHANGED <<loading, index, loaded, slotMap, liveVars, regVars>>

\* Mutant of Reachable: only the registers that the host owns are visited.
HostRegisters == {x \in entries : slotMap[x.slot] # None /\ slotMap[x.slot].owner = None}

\* The entries that remove_by_meta can find: in registers of the slot map.
Reachable == {x \in entries : slotMap[x.slot] # None /\ slotMap[x.slot].file = x.file}

\* remove_by_meta on every register of the slot map.
RemoveEntries(c) ==
  /\ At(c, "removeEntries")
  /\ entries' = entries \ {x \in Reachable : x.meta = calls[c].old}
  /\ Goto(c, "removeOwned")
  /\ UNCHANGED <<mapVars, liveVars, stray>>

\* Mutant of RemoveOwned: the registers of a closed library stay in the map.
KeepOwned(c) ==
  /\ At(c, "removeOwned")
  /\ Goto(c, IF calls[c].op = "unload" THEN "removeLib" ELSE "deinit")
  /\ UNCHANGED <<mapVars, liveVars, regVars>>

RemoveOwned(c) ==
  /\ At(c, "removeOwned")
  /\ slotMap' = [s \in Slots |-> IF slotMap[s] # None /\ slotMap[s].owner = NameOf(c)
                                 THEN None ELSE slotMap[s]]
  /\ Goto(c, IF calls[c].op = "unload" THEN "removeLib" ELSE "deinit")
  /\ UNCHANGED <<loading, index, loaded, loadedMeta, liveVars, regVars>>

\* unload: the library leaves its map only now; if a rival took it, the metadata
\* is freed and the call fails.
RemoveLibrary(c) ==
  LET e == NameOf(c) IN
  /\ At(c, "removeLib")
  /\ \/ /\ loaded[e] = 0
        /\ Fail(c)
        /\ metas' = metas \ {calls[c].old}
        /\ UNCHANGED loaded
     \/ /\ loaded[e] # 0
        /\ loaded' = [loaded EXCEPT ![e] = 0]
        /\ calls' = [calls EXCEPT ![c].pc = "deinit", ![c].oldLib = loaded[e]]
        /\ UNCHANGED metas
  /\ UNCHANGED <<loading, index, loadedMeta, slotMap, handles, up, regVars>>

\* around_deinit on the image of the old library (after OnUnload, in unload).
Deinit(c) ==
  /\ At(c, "deinit")
  /\ up' = up \ {calls[calls[c].oldLib].file}
  /\ Goto(c, "close")
  /\ UNCHANGED <<mapVars, handles, metas, regVars>>

\* The old library and metadata are dropped; a reload then installs the new.
CloseOld(c) ==
  /\ At(c, "close")
  /\ DropLibraries({calls[c].oldLib})
  /\ metas' = metas \ {calls[c].old}
  /\ IF calls[c].op = "unload" THEN Return(c, "ok") ELSE Goto(c, "attach")
  /\ UNCHANGED <<mapVars, stray>>
-----------------------------------------------------------------------------
(***************************************************************************)
(* reload: prepare_reload, then commit_reload.                             *)
(***************************************************************************)

\* The pointer to the old metadata is read, and kept without a lock.
FindOld(c) ==
  LET m == loadedMeta[NameOf(c)] IN
  /\ At(c, "old")
  /\ calls' = [calls EXCEPT ![c].pc = IF m = 0 THEN "failed" ELSE "prepare", ![c].old = m]
  /\ UNCHANGED <<mapVars, liveVars, regVars>>

\* prepare_reload: open the new file, create its entries for today's registers.
\* Its api_version and depends_on_slots are not looked at; its depends_on is read
\* and kept, but neither checked nor loaded, here or in commit_reload.
PrepareReload(c) ==
  /\ At(c, "prepare")
  /\ \/ /\ handles' = handles \cup {c}
        /\ metas' = metas \cup {c}
        /\ calls' = [calls EXCEPT ![c].pc = "initNew", ![c].regs = OthersRegisters(c)]
     \/ Fail(c) /\ UNCHANGED <<handles, metas>>
  /\ UNCHANGED <<mapVars, up, regVars>>

\* The new version's around_init runs before the old one's around_deinit.
InitNew(c) ==
  /\ At(c, "initNew")
  /\ \/ /\ up' = up \cup {calls[c].file}
        /\ Goto(c, "prepared")
        /\ UNCHANGED <<handles, metas, entries>>
     \/ AbandonReload(c)
  /\ UNCHANGED <<mapVars, stray>>

\* commit_reload starts: the old metadata must still be that of a loaded
\* extension (OnReload and OnUnload are broadcast once it is).
CommitReload(c) ==
  /\ At(c, "prepared")
  /\ Cardinality(Running) < MaxConcurrent
  /\ \/ /\ loadedMeta[NameOf(c)] = calls[c].old
        /\ Goto(c, "dependents")
        /\ UNCHANGED <<handles, metas, up, entries>>
     \/ /\ loadedMeta[NameOf(c)] # calls[c].old
        /\ AbandonReload(c)
  /\ UNCHANGED <<mapVars, stray>>

\* The client drops its PendingReload instead of committing it.
DropPrepared(c) ==
  /\ At(c, "prepared")
  /\ AbandonReload(c)
  /\ UNCHANGED <<mapVars, stray>>

\* Both maps, under both locks.  The box removed is the one there now.
RemoveOld(c) ==
  LET e == NameOf(c) IN
  /\ At(c, "removeOld")
  /\ loadedMeta' = [loadedMeta EXCEPT ![e] = 0]
  /\ \/ /\ loadedMeta[e] # 0 /\ loaded[e] # 0
        /\ loaded' = [loaded EXCEPT ![e] = 0]
        /\ calls' = [calls EXCEPT ![c].pc = "removeEntries", ![c].old = loadedMeta[e],
                                  ![c].oldLib = loaded[e]]
        /\ UNCHANGED <<handles, metas, up, entries>>
     \/ /\ loadedMeta[e] = 0 \/ loaded[e] = 0
        /\ Fail(c)
        /\ DropLibraries({c})
        /\ metas' = metas \ {c, loadedMeta[e]}
        /\ UNCHANGED loaded
  /\ UNCHANGED <<loading, index, slotMap, stray>>

\* Prepared entries go into the register that has the slot now, if one has.
PushPrepared(c) ==
  /\ At(c, "push")
  /\ calls[c].op = "reload"
  /\ \E r \in calls[c].regs :
       LET s == slotMap[r.slot] IN
       /\ calls' = [calls EXCEPT ![c].regs = @ \ {r}]
       /\ entries' = IF s = None THEN entries ELSE entries \cup {Entry(c, r.slot, s.file)}
  /\ UNCHANGED <<mapVars, liveVars, stray>>

\* The new version is there, whether or not the extensions it depends on are.
StoreReloaded(c) ==
  LET e == NameOf(c) IN
  /\ At(c, "push")
  /\ calls[c].op = "reload"
  /\ calls[c].regs = {}
  /\ loaded' = [loaded EXCEPT ![e] = c]
  /\ loadedMeta' = [loadedMeta EXCEPT ![e] = c]
  /\ DropLibraries({loaded[e]})
  /\ metas' = metas \ {loadedMeta[e]}
  /\ Return(c, "ok")
  /\ UNCHANGED <<loading, index, slotMap, stray>>
-----------------------------------------------------------------------------
CallLoad(e)      == Start("load", e, None, "fast")
CallUnload(e)    == Start("unload", e, None, "dependents")
CallReload(e, f) == Start("reload", e, f, "old")

LoadStep(c) ==
  \/ FastPath(c) \/ Claim(c) \/ Resolve(c) \/ CheckSlots(c)
  \/ LoadDependency(c) \/ DependencyReturns(c) \/ OpenLibrary(c) \/ InitExtension(c)
  \/ AttachOwned(c) \/ Snapshot(c) \/ PushEntries(c)
  \/ StoreLibrary(c) \/ StoreMeta(c) \/ FinishLoad(c)

UnloadStep(c) ==
  \/ CheckDependents(c) \/ RemoveMeta(c) \/ RemoveEntries(c) \/ RemoveOwned(c)
  \/ RemoveLibrary(c) \/ Deinit(c) \/ CloseOld(c)

ReloadStep(c) ==
  \/ FindOld(c) \/ PrepareReload(c) \/ InitNew(c) \/ RemoveOld(c)
  \/ PushPrepared(c) \/ StoreReloaded(c)

Step(c) == LoadStep(c) \/ UnloadStep(c) \/ ReloadStep(c)

Next ==
  \/ Scan
  \/ \E s \in HostSlots : AttachRegister(s)
  \/ \E e \in Extensions :
       CallLoad(e) \/ CallUnload(e) \/ (\E f \in ReloadFiles[e] : CallReload(e, f))
  \/ \E c \in 1..MaxFrames : Step(c) \/ CommitReload(c) \/ DropPrepared(c)

Spec == Init /\ [][Next]_vars

\* The threads that make the calls are scheduled.
FairSpec == Spec /\ WF_vars(\E c \in 1..MaxFrames : Step(c))
=============================================================================
