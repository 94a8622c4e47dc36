---------------------- MODULE FrameworkEntries_proofs -----------------------
(***************************************************************************)
(* What unload and reload leave in other extensions' registers and in the  *)
(* images that stay mapped, for every set of extensions and files, every   *)
(* dependency graph and every number of calls made one at a time.          *)
(*                                                                         *)
(* Entries: both find every entry of the metadata that they free, if no    *)
(* slot has two owners and no file is closed while the client has another  *)
(* reload of it prepared, which would keep its image mapped.  TLC finds    *)
(* dangling entries without either condition.                              *)
(*                                                                         *)
(* Images: an extension in use has been initialised and not torn down, if  *)
(* no file is torn down that the new version or another prepared reload    *)
(* has too.  TLC finds the extension torn down without that condition.     *)
(***************************************************************************)
EXTENDS ExtensionFramework_proofs
-----------------------------------------------------------------------------
\* The slots that some version of an extension defines.
SlotsOf(e) == UNION {OwnSlots[f] : f \in OwnFiles(e)}

\* The host and the extensions define slots of different names.
OneOwner ==
  \A e \in Extensions :
    /\ SlotsOf(e) \cap HostSlots = {}
    /\ \A d \in Extensions : d # e => SlotsOf(d) \cap SlotsOf(e) = {}

\* When unload or commit_reload closes a library, its image goes away: the client has no
\* other reload of that file prepared, which would keep it mapped.
ImagesClose ==
  \A c, d \in DOMAIN calls :
    At(c, "close") /\ At(d, "prepared") => calls[d].file # calls[calls[c].oldLib].file
-----------------------------------------------------------------------------
(***************************************************************************)
(* Every library that is open has a file.                                  *)
(***************************************************************************)

\* A reload is given its file; a load finds it before it opens it.
FileInv ==
  /\ \A c \in DOMAIN calls :
       calls[c].op = "reload" \/ calls[c].pc \in {"slots", "deps", "await"}
         => calls[c].file # None
  /\ \A m \in handles : m \in DOMAIN calls /\ calls[m].file # None

(***************************************************************************)
(* The registers and what is in them.                                      *)
(***************************************************************************)

\* A register in the slot map is the host's, in a slot of the host, or is in a library,
\* a version of its owner, in a slot that this version defines.
SlotsOwned ==
  \A s \in Slots : slotMap[s] # None =>
    \/ slotMap[s].owner = None /\ slotMap[s].file = None /\ s \in HostSlots
    \/ /\ slotMap[s].owner \in Extensions
       /\ slotMap[s].file \in OwnFiles(slotMap[s].owner)
       /\ s \in OwnSlots[slotMap[s].file]

\* How far the call that made an entry is: it has got through every step that may fail.
Filling == {"snapshot", "push", "storeMeta", "finish", "ok"}

\* The frame has removed the entries of the metadata that it will free.
Emptied(c) ==
  \/ calls[c].op = "unload" /\ calls[c].pc \in {"removeOwned", "removeLib", "deinit", "close"}
  \/ calls[c].op = "reload" /\ calls[c].pc \in {"removeOwned", "deinit", "close"}

\* The image that the frame's extension has its registers in while these are out of the
\* slot map: the old version's until it is closed, then the new one's.
ImageOf(c, f) ==
  \/ calls[c].pc = "removeLib" /\ f = calls[loaded[calls[c].name]].file
  \/ calls[c].pc \in {"deinit", "close"} /\ f = calls[calls[c].oldLib].file
  \/ calls[c].pc = "attach" /\ f = calls[c].file

\* The register that the entry is in is one of those.
Detached(c, n) == Disowned(c) /\ n.slot \in OwnSlots[n.file] /\ ImageOf(c, n.file)

\* remove_by_meta finds the entry.
Seen(n) == slotMap[n.slot] # None /\ slotMap[n.slot].file = n.file

EntryOK(n) ==
  /\ n.meta \in metas
  /\ n.meta \in DOMAIN calls /\ calls[n.meta].pc \in Filling
  /\ n.file # None => n.slot \notin HostSlots
  /\ Seen(n) \/ \E c \in DOMAIN calls : Detached(c, n)

\* A load's snapshot is of registers that are in the slot map.
SnapshotOK(c) ==
  calls[c].op = "load" /\ calls[c].pc = "push" =>
    \A r \in calls[c].regs : slotMap[r.slot] # None /\ slotMap[r.slot].file = r.file

EntryInv ==
  /\ SlotsOwned
  /\ \A n \in entries : EntryOK(n)
  /\ \A c \in DOMAIN calls : Emptied(c) => \A n \in entries : n.meta # calls[c].old
  /\ \A c \in DOMAIN calls : SnapshotOK(c)
-----------------------------------------------------------------------------
(***************************************************************************)
(* Files.                                                                  *)
(***************************************************************************)

\* Every version is in a file.
LEMMA NoOwnNone ==
  ASSUME NEW e \in Extensions
  PROVE  None \notin OwnFiles(e)
BY FrameworkAssumption DEF OwnFiles

\* A step of frame c that keeps its file or finds one, and opens no library without.
FileKept(c) ==
  /\ Only(c)
  /\ calls'[c].op = calls[c].op
  /\ calls[c].file # None => calls'[c].file # None
  /\ calls'[c].pc \in {"slots", "deps", "await"} =>
       calls[c].pc \in {"slots", "deps", "await"} \/ calls'[c].file # None
  /\ \/ handles' \subseteq handles
     \/ handles' = handles \cup {c} /\ (calls[c].op = "reload" \/ calls[c].pc = "deps")

\* Such a step keeps the files' invariant.
LEMMA FileLocal ==
  ASSUME FileInv, NEW c, FileKept(c)
  PROVE  FileInv'
<1>1. /\ c \in DOMAIN calls /\ DOMAIN calls' = DOMAIN calls
      /\ \A d \in DOMAIN calls : d # c => calls'[d] = calls[d]
  BY DEF FileKept, Only
<1>2. ASSUME NEW d \in DOMAIN calls',
             calls'[d].op = "reload" \/ calls'[d].pc \in {"slots", "deps", "await"}
      PROVE  calls'[d].file # None
  BY <1>1, <1>2 DEF FileKept, FileInv
<1>3. ASSUME NEW m \in handles'
      PROVE  m \in DOMAIN calls' /\ calls'[m].file # None
  BY <1>1, <1>3 DEF FileKept, FileInv
<1> QED
  BY <1>2, <1>3 DEF FileInv

\* Every step of a call but the start of a nested load is one.
LEMMA FileSteps ==
  ASSUME TypeInv, FileInv, NEW c, AnyStep(c), ~LoadDependency(c)
  PROVE  FileKept(c)
<1>a. ASSUME c \in DOMAIN calls
      PROVE  /\ FrameOK(c) /\ calls[c].op \in {"load", "unload", "reload"}
             /\ \A p \in Pcs : Goto(c, p) => Moves(c, p)
             /\ \A p \in Pcs : Return(c, p) => Ends(c, p)
  BY <1>a, RegContext
<1>b. \A H : DropLibraries(H) => handles' \subseteq handles
  BY DropShrinks
<1>1. CASE FastPath(c)
  BY <1>1, <1>a, <1>b
     DEF FileKept, FastPath, At, FailLoad, Fail, AbandonReload, Moves, Ends, Becomes, FrameOK,
         Pcs, LoadPcs, UnloadPcs, ReloadPcs, liveVars
<1>2. CASE Claim(c)
  BY <1>2, <1>a, <1>b
     DEF FileKept, Claim, At, FailLoad, Fail, AbandonReload, Moves, Ends, Becomes, FrameOK,
         Pcs, LoadPcs, UnloadPcs, ReloadPcs, liveVars
<1>3. CASE Resolve(c)
  <2>1. c \in DOMAIN calls /\ NameOf(c) \in Extensions /\ handles' = handles
    BY <1>3, RegContext, ResolveEffect DEF NameOf, liveVars
  <2>2. None \notin KnownFiles(NameOf(c))
    BY <2>1, FrameworkAssumption DEF KnownFiles
  <2>3. \/ Ends(c, "failed")
        \/ \E f \in KnownFiles(NameOf(c)) :
             /\ Only(c)
             /\ Becomes(c, "slots", f, calls[c].todo, calls[c].regs, calls[c].old, calls[c].oldLib)
    BY <1>3, <1>a, <2>1, ResolveEffect DEF FailLoad, Pcs, LoadPcs
  <2> QED
    BY <2>1, <2>2, <2>3 DEF FileKept, Ends, Becomes
<1>4. CASE CheckSlots(c)
  BY <1>4, <1>a, <1>b, CheckSlotsEffect
     DEF FileKept, FailLoad, Fail, Moves, Ends, Becomes, FrameOK, Pcs, LoadPcs, UnloadPcs, ReloadPcs,
         liveVars
<1>5. CASE DependencyReturns(c)
  BY <1>5, <1>a, <1>b
     DEF FileKept, DependencyReturns, At, FailLoad, Fail, AbandonReload, Moves, Ends, Becomes, FrameOK,
         Pcs, LoadPcs, UnloadPcs, ReloadPcs, liveVars
<1>6. CASE OpenLibrary(c)
  BY <1>6, <1>a, <1>b
     DEF FileKept, OpenLibrary, At, FailLoad, Fail, AbandonReload, Moves, Ends, Becomes, FrameOK,
         Pcs, LoadPcs, UnloadPcs, ReloadPcs, liveVars
<1>7. CASE InitExtension(c)
  BY <1>7, <1>a, <1>b
     DEF FileKept, InitExtension, At, FailLoad, Fail, AbandonReload, Moves, Ends, Becomes, FrameOK,
         Pcs, LoadPcs, UnloadPcs, ReloadPcs, liveVars
<1>8. CASE AttachOwned(c)
  BY <1>8, <1>a, <1>b
     DEF FileKept, AttachOwned, At, FailLoad, Fail, AbandonReload, Moves, Ends, Becomes, FrameOK,
         Pcs, LoadPcs, UnloadPcs, ReloadPcs, liveVars
<1>9. CASE Snapshot(c)
  BY <1>9, <1>a, <1>b, SnapshotEffect
     DEF FileKept, FailLoad, Fail, Moves, Ends, Becomes, FrameOK, Pcs, LoadPcs, UnloadPcs, ReloadPcs,
         liveVars
<1>10. CASE PushEntries(c)
  BY <1>10, <1>a, <1>b, PushEntriesEffect
     DEF FileKept, FailLoad, Fail, Moves, Ends, Becomes, FrameOK, Pcs, LoadPcs, UnloadPcs, ReloadPcs,
         liveVars
<1>11. CASE StoreLibrary(c)
  BY <1>11, <1>a, <1>b
     DEF FileKept, StoreLibrary, At, FailLoad, Fail, AbandonReload, Moves, Ends, Becomes, FrameOK,
         Pcs, LoadPcs, UnloadPcs, ReloadPcs, liveVars
<1>12. CASE StoreMeta(c)
  BY <1>12, <1>a, <1>b
     DEF FileKept, StoreMeta, At, FailLoad, Fail, AbandonReload, Moves, Ends, Becomes, FrameOK,
         Pcs, LoadPcs, UnloadPcs, ReloadPcs, liveVars
<1>13. CASE FinishLoad(c)
  BY <1>13, <1>a, <1>b
     DEF FileKept, FinishLoad, At, FailLoad, Fail, AbandonReload, Moves, Ends, Becomes, FrameOK,
         Pcs, LoadPcs, UnloadPcs, ReloadPcs, liveVars
<1>14. CASE CheckDependents(c)
  BY <1>14, <1>a, <1>b
     DEF FileKept, CheckDependents, At, FailLoad, Fail, AbandonReload, Moves, Ends, Becomes, FrameOK,
         Pcs, LoadPcs, UnloadPcs, ReloadPcs, liveVars
<1>15. CASE RemoveMeta(c)
  BY <1>15, <1>a, <1>b, RemoveMetaEffect
     DEF FileKept, FailLoad, Fail, Moves, Ends, Becomes, FrameOK, Pcs, LoadPcs, UnloadPcs, ReloadPcs,
         liveVars
<1>16. CASE RemoveEntries(c)
  BY <1>16, <1>a, <1>b
     DEF FileKept, RemoveEntries, At, FailLoad, Fail, AbandonReload, Moves, Ends, Becomes, FrameOK,
         Pcs, LoadPcs, UnloadPcs, ReloadPcs, liveVars
<1>17. CASE RemoveOwned(c)
  BY <1>17, <1>a, <1>b
     DEF FileKept, RemoveOwned, At, FailLoad, Fail, AbandonReload, Moves, Ends, Becomes, FrameOK,
         Pcs, LoadPcs, UnloadPcs, ReloadPcs, liveVars
<1>18. CASE RemoveLibrary(c)
  BY <1>18, <1>a, <1>b, RemoveLibraryEffect
     DEF FileKept, FailLoad, Fail, Moves, Ends, Becomes, FrameOK, Pcs, LoadPcs, UnloadPcs, ReloadPcs,
         liveVars
<1>19. CASE Deinit(c)
  BY <1>19, <1>a, <1>b
     DEF FileKept, Deinit, At, FailLoad, Fail, AbandonReload, Moves, Ends, Becomes, FrameOK,
         Pcs, LoadPcs, UnloadPcs, ReloadPcs, liveVars
<1>20. CASE CloseOld(c)
  BY <1>20, <1>a, <1>b
     DEF FileKept, CloseOld, At, FailLoad, Fail, AbandonReload, Moves, Ends, Becomes, FrameOK,
         Pcs, LoadPcs, UnloadPcs, ReloadPcs, liveVars
<1>21. CASE FindOld(c)
  BY <1>21, <1>a, <1>b, FindOldEffect
     DEF FileKept, FailLoad, Fail, Moves, Ends, Becomes, FrameOK, Pcs, LoadPcs, UnloadPcs, ReloadPcs,
         liveVars
<1>22. CASE PrepareReload(c)
  BY <1>22, <1>a, <1>b, PrepareReloadEffect
     DEF FileKept, FailLoad, Fail, Moves, Ends, Becomes, FrameOK, Pcs, LoadPcs, UnloadPcs, ReloadPcs,
         liveVars
<1>23. CASE InitNew(c)
  BY <1>23, <1>a, <1>b
     DEF FileKept, InitNew, At, FailLoad, Fail, AbandonReload, Moves, Ends, Becomes, FrameOK,
         Pcs, LoadPcs, UnloadPcs, ReloadPcs, liveVars
<1>24. CASE RemoveOld(c)
  <2>1. c \in DOMAIN calls /\ calls[c].pc = "removeOld" /\ Only(c)
    BY <1>24, <1>a, RemoveOldEffect DEF Fail, Ends, Pcs, LoadPcs
  <2>2. \/ /\ Becomes(c, "removeEntries", calls[c].file, calls[c].todo, calls[c].regs,
                      loadedMeta[NameOf(c)], loaded[NameOf(c)])
           /\ handles' = handles
        \/ Fail(c) /\ DropLibraries({c})
    BY <1>24, RemoveOldEffect
  <2>3. handles' \subseteq handles
    BY <2>2, <1>b
  <2>4. /\ calls'[c].op = calls[c].op /\ calls'[c].file = calls[c].file
        /\ calls'[c].pc \in {"removeEntries", "failed"}
    BY <2>1, <2>2, <1>a DEF Fail, Ends, Becomes, Pcs, LoadPcs
  <2> QED
    BY <2>1, <2>3, <2>4 DEF FileKept
<1>25. CASE PushPrepared(c)
  BY <1>25, <1>a, <1>b, PushPreparedEffect
     DEF FileKept, FailLoad, Fail, Moves, Ends, Becomes, FrameOK, Pcs, LoadPcs, UnloadPcs, ReloadPcs,
         liveVars
<1>26. CASE StoreReloaded(c)
  BY <1>26, <1>a, <1>b
     DEF FileKept, StoreReloaded, At, FailLoad, Fail, AbandonReload, Moves, Ends, Becomes, FrameOK,
         Pcs, LoadPcs, UnloadPcs, ReloadPcs, liveVars
<1>27. CASE CommitReload(c)
  BY <1>27, <1>a, <1>b
     DEF FileKept, CommitReload, At, FailLoad, Fail, AbandonReload, Moves, Ends, Becomes, FrameOK,
         Pcs, LoadPcs, UnloadPcs, ReloadPcs, liveVars
<1>28. CASE DropPrepared(c)
  BY <1>28, <1>a, <1>b
     DEF FileKept, DropPrepared, At, FailLoad, Fail, AbandonReload, Moves, Ends, Becomes, FrameOK,
         Pcs, LoadPcs, UnloadPcs, ReloadPcs, liveVars
<1> QED
  BY <1>1, <1>2, <1>3, <1>4, <1>5, <1>6, <1>7, <1>8, <1>9, <1>10, <1>11, <1>12,
     <1>13, <1>14, <1>15, <1>16, <1>17, <1>18, <1>19, <1>20, <1>21, <1>22, <1>23,
     <1>24, <1>25, <1>26, <1>27, <1>28
     DEF AnyStep, Step, LoadStep, UnloadStep, ReloadStep

\* A step that leaves the frames and adds none without its file.
LEMMA FileStays ==
  ASSUME FileInv, handles' = handles, DOMAIN calls \subseteq DOMAIN calls',
         \A d \in DOMAIN calls' :
           \/ d \in DOMAIN calls /\ calls'[d] = calls[d]
           \/ d \in DOMAIN calls /\ calls[d].pc = "deps" /\ calls'[d].file = calls[d].file
           \/ /\ d \notin DOMAIN calls
              /\ \/ calls'[d].op # "reload" /\ calls'[d].pc \in {"fast", "dependents"}
                 \/ calls'[d].file # None
  PROVE  FileInv'
<1>1. ASSUME NEW d \in DOMAIN calls',
             calls'[d].op = "reload" \/ calls'[d].pc \in {"slots", "deps", "await"}
      PROVE  calls'[d].file # None
  BY <1>1 DEF FileInv
<1>2. ASSUME NEW m \in handles
      PROVE  m \in DOMAIN calls' /\ calls'[m].file # None
  BY <1>2 DEF FileInv
<1> QED
  BY <1>1, <1>2 DEF FileInv

\* Every step keeps the files' invariant.
LEMMA FileStep ==
  ASSUME TypeInv, FileInv, [Next]_vars
  PROVE  FileInv'
<1>0. FramesInv
  BY DEF TypeInv
<1>1. CASE Scan \/ (\E s \in HostSlots : AttachRegister(s)) \/ UNCHANGED vars
  <2>1. calls' = calls /\ handles' = handles
    BY <1>1 DEF Scan, AttachRegister, vars, liveVars
  <2> QED
    BY <2>1, FileStays
<1>2. ASSUME NEW e \in Extensions,
             CallLoad(e) \/ CallUnload(e) \/ (\E f \in ReloadFiles[e] : CallReload(e, f))
      PROVE  FileInv'
  <2>1. \/ Begins("load", e, None, "fast")
        \/ Begins("unload", e, None, "dependents")
        \/ \E f \in Files : Begins("reload", e, f, "old")
    BY <1>0, <1>2, StartKinds, StartFrame DEF MaybeFile, Pcs, LoadPcs, UnloadPcs, ReloadPcs
  <2>2. handles' = handles
    BY <1>2, StartKinds DEF Start, liveVars
  <2>3. None \notin Files
    BY FrameworkAssumption
  <2>4. /\ NewFrame \notin DOMAIN calls
        /\ DOMAIN calls' = DOMAIN calls \cup {NewFrame}
        /\ \A d \in DOMAIN calls : calls'[d] = calls[d]
        /\ \/ calls'[NewFrame].op # "reload" /\ calls'[NewFrame].pc \in {"fast", "dependents"}
           \/ calls'[NewFrame].file # None
    BY <2>1, <2>3 DEF Begins, Grows
  <2> QED
    BY <2>2, <2>4, FileStays
<1>3. ASSUME NEW c, LoadDependency(c)
      PROVE  FileInv'
  <2>1. /\ c \in DOMAIN calls /\ calls[c].pc = "deps"
        /\ NewFrame \notin DOMAIN calls
        /\ DOMAIN calls' = DOMAIN calls \cup {NewFrame}
        /\ \A d \in DOMAIN calls : d # c => calls'[d] = calls[d]
        /\ calls'[NewFrame].op = "load" /\ calls'[NewFrame].pc = "fast"
        /\ calls'[c].file = calls[c].file
        /\ handles' = handles
    BY <1>3, LoadDependencyEffect, ZenonT(60) DEF Grows, Becomes, liveVars
  <2> QED
    BY <2>1, FileStays
<1>4. ASSUME NEW c, AnyStep(c), ~LoadDependency(c)
      PROVE  FileInv'
  BY <1>4, FileSteps, FileLocal
<1> QED
  BY <1>1, <1>2, <1>3, <1>4 DEF Next, AnyStep, Step, LoadStep

\* A library that is open has a file, however calls overlap.
LEMMA FilesCorrect == Spec => []FileInv
<1>1. Init => FileInv
  BY DEF Init, FileInv
<1> QED
  BY <1>1, FileStep, TypeCorrect, PTL DEF Spec
-----------------------------------------------------------------------------
(***************************************************************************)
(* Entries.                                                                *)
(***************************************************************************)

\* The registers in host slots have no file, those in other slots have one.
LEMMA HostHasNoFile ==
  ASSUME OneOwner, SlotsOwned, NEW s \in Slots, slotMap[s] # None
  PROVE  slotMap[s].file = None <=> s \in HostSlots
<1>1. CASE slotMap[s].file = None /\ s \in HostSlots
  BY <1>1
<1>2. CASE /\ slotMap[s].owner \in Extensions
           /\ slotMap[s].file \in OwnFiles(slotMap[s].owner)
           /\ s \in OwnSlots[slotMap[s].file]
  <2>1. slotMap[s].file # None
    BY <1>2, NoOwnNone
  <2>2. s \in SlotsOf(slotMap[s].owner)
    BY <1>2 DEF SlotsOf
  <2>3. s \notin HostSlots
    BY <1>2, <2>2 DEF OneOwner
  <2> QED
    BY <2>1, <2>3
<1> QED
  BY <1>1, <1>2 DEF SlotsOwned

\* What is true of the entries when frame c takes a step: those that no call on the
\* slot map would find are in registers that c has taken out of it.
LEMMA EntryContext ==
  ASSUME TypeInv, EntryInv, NEW c \in DOMAIN calls, Alone(c), NEW n \in entries
  PROVE  /\ n.slot \in Slots
         /\ n.meta \in metas /\ n.meta \in DOMAIN calls /\ calls[n.meta].pc \in Filling
         /\ n.file # None => n.slot \notin HostSlots
         /\ Seen(n) \/ Detached(c, n)
         /\ ~Disowned(c) => Seen(n)
<1>1. EntryOK(n) /\ n.slot \in Slots
  BY DEF EntryInv, TypeInv, RegTypes
<1>2. \A d \in DOMAIN calls : d # c => ~Disowned(d)
  BY DEF Alone, Disowned
<1>3. Seen(n) \/ Detached(c, n)
  BY <1>1, <1>2 DEF EntryOK, Detached
<1> QED
  BY <1>1, <1>3 DEF EntryOK, Detached

\* A step of frame c keeps the entries' invariant if it keeps what is about c.
LEMMA EntryLocal ==
  ASSUME TypeInv, EntryInv, NEW c, Alone(c), Only(c),
         SlotsOwned',
         calls[c].pc \in Filling => calls'[c].pc \in Filling,
         \A n \in entries' :
           \/ n \in entries
           \/ /\ n.meta = c /\ calls'[c].pc \in Filling
              /\ n.file # None => n.slot \notin HostSlots,
         \A n \in entries' : n.meta \in metas',
         \A n \in entries' : Seen(n)' \/ Detached(c, n)',
         Emptied(c)' => \A n \in entries' : n.meta # calls'[c].old,
         SnapshotOK(c)'
  PROVE  EntryInv'
<1>0. /\ c \in DOMAIN calls /\ DOMAIN calls' = DOMAIN calls
      /\ \A d \in DOMAIN calls : d # c =>
           calls'[d] = calls[d] /\ calls[d].pc \in {"ok", "failed", "prepared", "await"}
  BY DEF Only, Alone
<1>1. ASSUME NEW n \in entries'
      PROVE  EntryOK(n)'
  <2>1. /\ n.meta \in DOMAIN calls' /\ calls'[n.meta].pc \in Filling
        /\ n.file # None => n.slot \notin HostSlots
    <3>1. CASE n \in entries
      <4>1. /\ n.meta \in DOMAIN calls /\ calls[n.meta].pc \in Filling
            /\ n.file # None => n.slot \notin HostSlots
        BY <1>0, <3>1, EntryContext
      <4> QED
        BY <1>0, <4>1
    <3>2. CASE n \notin entries
      BY <1>0, <1>1, <3>2
    <3> QED
      BY <3>1, <3>2
  <2>2. n.meta \in metas' /\ (Seen(n)' \/ Detached(c, n)')
    BY <1>1
  <2>3. Seen(n)' \/ \E d \in DOMAIN calls' : Detached(d, n)'
    BY <1>0, <2>2
  <2> QED
    BY <2>1, <2>2, <2>3, Zenon DEF EntryOK
<1>2. ASSUME NEW d \in DOMAIN calls', Emptied(d)'
      PROVE  \A n \in entries' : n.meta # calls'[d].old
  <2>1. d = c
    BY <1>0, <1>2 DEF Emptied
  <2> QED
    BY <1>2, <2>1
<1>3. ASSUME NEW d \in DOMAIN calls'
      PROVE  SnapshotOK(d)'
  <2>1. CASE d = c
    BY <2>1
  <2>2. CASE d # c
    BY <1>0, <1>3, <2>2 DEF SnapshotOK
  <2> QED
    BY <2>1, <2>2
<1> QED
  BY <1>1, <1>2, <1>3 DEF EntryInv

\* The steps that leave the registers alone, free the metadata of no extension that is
\* in use and make no promise about entries.
EntrySteady(c) ==
  /\ Only(c)
  /\ slotMap' = slotMap
  /\ entries' \subseteq entries
  /\ \A m \in metas : m \in metas' \/ (m = c /\ calls[c].pc \notin Filling)
  /\ calls[c].pc \in Filling => calls'[c].pc \in Filling
  /\ ~Disowned(c)
  /\ ~Emptied(c)'
  /\ ~(calls'[c].op = "load" /\ calls'[c].pc = "push")

\* Such a step keeps the entries' invariant.
LEMMA EntryUnmoved ==
  ASSUME TypeInv, EntryInv, NEW c, Alone(c), EntrySteady(c)
  PROVE  EntryInv'
<1>0. c \in DOMAIN calls /\ Only(c)
  BY DEF EntrySteady, Only
<1>1. SlotsOwned'
  BY DEF EntrySteady, EntryInv, SlotsOwned
<1>2. ASSUME NEW n \in entries'
      PROVE  n \in entries /\ n.meta \in metas' /\ Seen(n)'
  <2>1. n \in entries
    BY <1>2 DEF EntrySteady
  <2>2. Seen(n) /\ n.meta \in metas /\ calls[n.meta].pc \in Filling
    BY <1>0, <2>1, EntryContext DEF EntrySteady
  <2> QED
    BY <2>1, <2>2 DEF EntrySteady, Seen
<1>3. SnapshotOK(c)' /\ ~Emptied(c)' /\ (calls[c].pc \in Filling => calls'[c].pc \in Filling)
  BY DEF EntrySteady, SnapshotOK
<1> QED
  BY <1>0, <1>1, <1>2, <1>3, EntryLocal

\* The steps that free no metadata but that of a library they opened themselves and have
\* made no entry for.
SteadyForEntries(c) ==
  \/ FastPath(c) \/ Claim(c) \/ Resolve(c) \/ CheckSlots(c) \/ DependencyReturns(c)
  \/ OpenLibrary(c) \/ InitExtension(c) \/ FinishLoad(c) \/ CheckDependents(c)
  \/ RemoveMeta(c) \/ FindOld(c) \/ PrepareReload(c) \/ InitNew(c) \/ CommitReload(c)

\* They are steady.
LEMMA EntrySteadySteps ==
  ASSUME TypeInv, NEW c, SteadyForEntries(c)
  PROVE  EntrySteady(c)
<1>a. ASSUME c \in DOMAIN calls
      PROVE  /\ FrameOK(c) /\ calls[c].op \in {"load", "unload", "reload"}
             /\ \A p \in Pcs : Goto(c, p) => Moves(c, p)
             /\ \A p \in Pcs : Return(c, p) => Ends(c, p)
  BY <1>a, RegContext
<1>b. \A H : DropLibraries(H) => entries' \subseteq entries
  BY DropShrinks
<1>1. CASE FastPath(c)
  BY <1>1, <1>a, <1>b
     DEF FastPath, At, EntrySteady, Filling, Disowned, Emptied, FailLoad, Fail, AbandonReload, Moves, Ends,
         Becomes, FrameOK, Pcs, LoadPcs, UnloadPcs, ReloadPcs, mapVars, liveVars, regVars
<1>2. CASE Claim(c)
  BY <1>2, <1>a, <1>b
     DEF Claim, At, EntrySteady, Filling, Disowned, Emptied, FailLoad, Fail, AbandonReload, Moves, Ends,
         Becomes, FrameOK, Pcs, LoadPcs, UnloadPcs, ReloadPcs, mapVars, liveVars, regVars
<1>3. CASE Resolve(c)
  BY <1>3, <1>a, <1>b, ResolveEffect
     DEF EntrySteady, Filling, Disowned, Emptied, FailLoad, Fail, AbandonReload, Moves, Ends,
         Becomes, FrameOK, Pcs, LoadPcs, UnloadPcs, ReloadPcs, mapVars, liveVars, regVars
<1>4. CASE CheckSlots(c)
  BY <1>4, <1>a, <1>b, CheckSlotsEffect
     DEF EntrySteady, Filling, Disowned, Emptied, FailLoad, Fail, AbandonReload, Moves, Ends,
         Becomes, FrameOK, Pcs, LoadPcs, UnloadPcs, ReloadPcs, mapVars, liveVars, regVars
<1>5. CASE DependencyReturns(c)
  BY <1>5, <1>a, <1>b
     DEF DependencyReturns, At, EntrySteady, Filling, Disowned, Emptied, FailLoad, Fail, AbandonReload, Moves, Ends,
         Becomes, FrameOK, Pcs, LoadPcs, UnloadPcs, ReloadPcs, mapVars, liveVars, regVars
<1>6. CASE OpenLibrary(c)
  BY <1>6, <1>a, <1>b
     DEF OpenLibrary, At, EntrySteady, Filling, Disowned, Emptied, FailLoad, Fail, AbandonReload, Moves, Ends,
         Becomes, FrameOK, Pcs, LoadPcs, UnloadPcs, ReloadPcs, mapVars, liveVars, regVars
<1>7. CASE InitExtension(c)
  BY <1>7, <1>a, <1>b
     DEF InitExtension, At, EntrySteady, Filling, Disowned, Emptied, FailLoad, Fail, AbandonReload, Moves, Ends,
         Becomes, FrameOK, Pcs, LoadPcs, UnloadPcs, ReloadPcs, mapVars, liveVars, regVars
<1>8. CASE FinishLoad(c)
  BY <1>8, <1>a, <1>b
     DEF FinishLoad, At, EntrySteady, Filling, Disowned, Emptied, FailLoad, Fail, AbandonReload, Moves, Ends,
         Becomes, FrameOK, Pcs, LoadPcs, UnloadPcs, ReloadPcs, mapVars, liveVars, regVars
<1>9. CASE CheckDependents(c)
  BY <1>9, <1>a, <1>b
     DEF CheckDependents, At, EntrySteady, Filling, Disowned, Emptied, FailLoad, Fail, AbandonReload, Moves, Ends,
         Becomes, FrameOK, Pcs, LoadPcs, UnloadPcs, ReloadPcs, mapVars, liveVars, regVars
<1>10. CASE RemoveMeta(c)
  BY <1>10, <1>a, <1>b, RemoveMetaEffect
     DEF EntrySteady, Filling, Disowned, Emptied, FailLoad, Fail, AbandonReload, Moves, Ends,
         Becomes, FrameOK, Pcs, LoadPcs, UnloadPcs, ReloadPcs, mapVars, liveVars, regVars
<1>11. CASE FindOld(c)
  BY <1>11, <1>a, <1>b, FindOldEffect
     DEF EntrySteady, Filling, Disowned, Emptied, FailLoad, Fail, AbandonReload, Moves, Ends,
         Becomes, FrameOK, Pcs, LoadPcs, UnloadPcs, ReloadPcs, mapVars, liveVars, regVars
<1>12. CASE PrepareReload(c)
  BY <1>12, <1>a, <1>b, PrepareReloadEffect
     DEF EntrySteady, Filling, Disowned, Emptied, FailLoad, Fail, AbandonReload, Moves, Ends,
         Becomes, FrameOK, Pcs, LoadPcs, UnloadPcs, ReloadPcs, mapVars, liveVars, regVars
<1>13. CASE InitNew(c)
  BY <1>13, <1>a, <1>b
     DEF InitNew, At, EntrySteady, Filling, Disowned, Emptied, FailLoad, Fail, AbandonReload, Moves, Ends,
         Becomes, FrameOK, Pcs, LoadPcs, UnloadPcs, ReloadPcs, mapVars, liveVars, regVars
<1>14. CASE CommitReload(c)
  BY <1>14, <1>a, <1>b
     DEF CommitReload, At, EntrySteady, Filling, Disowned, Emptied, FailLoad, Fail, AbandonReload, Moves, Ends,
         Becomes, FrameOK, Pcs, LoadPcs, UnloadPcs, ReloadPcs, mapVars, liveVars, regVars
<1> QED
  BY <1>1, <1>2, <1>3, <1>4, <1>5, <1>6, <1>7, <1>8, <1>9, <1>10, <1>11, <1>12, <1>13, <1>14
     DEF SteadyForEntries

\* The new library and its metadata are stored where there were none: nothing is freed.
LEMMA EntryStore ==
  ASSUME TypeInv, ClaimsExclusive, DataInv, EntryInv, NEW c, Alone(c),
         StoreLibrary(c) \/ StoreMeta(c) \/ StoreReloaded(c)
  PROVE  EntryInv'
<1>0. /\ c \in DOMAIN calls
      /\ \/ calls[c].op = "load" /\ calls[c].pc = "push"
         \/ calls[c].pc = "storeMeta"
         \/ calls[c].op = "reload" /\ calls[c].pc = "push"
  BY DEF StoreLibrary, StoreMeta, StoreReloaded, At
<1>1. /\ FrameOK(c) /\ calls[c].op \in {"load", "unload", "reload"} /\ calls[c].name \in Extensions
      /\ \A p \in Pcs : Goto(c, p) => Moves(c, p)
      /\ \A p \in Pcs : Return(c, p) => Ends(c, p)
  BY <1>0, RegContext
<1>2. calls[c].op \in {"load", "reload"} /\ (calls[c].pc = "storeMeta" => calls[c].op = "load")
  BY <1>0, <1>1 DEF FrameOK, UnloadPcs, ReloadPcs
<1>3. loadedMeta[NameOf(c)] = 0
  <2>1. Knows(c)
    BY <1>0 DEF DataInv
  <2> QED
    BY <1>0, <1>2, <2>1 DEF Knows, Absent, HalfLoaded, NameOf
<1>4. /\ Only(c) /\ slotMap' = slotMap
      /\ calls'[c].op = calls[c].op /\ calls'[c].pc \in {"storeMeta", "finish", "ok"}
  BY <1>1 DEF StoreLibrary, StoreMeta, StoreReloaded, Moves, Ends, Becomes, Pcs, LoadPcs
<1>5. entries' \subseteq entries
  BY DropShrinks DEF StoreLibrary, StoreMeta, StoreReloaded, regVars
<1>6. metas' = metas \/ metas' = metas \ {loadedMeta[NameOf(c)]}
  BY DEF StoreLibrary, StoreMeta, StoreReloaded
<1>7. metas \subseteq metas'
  BY <1>0, <1>3, <1>6, DataContext
<1>8. /\ calls'[c].pc \in Filling /\ calls'[c].pc # "push"
      /\ ~Disowned(c) /\ ~Emptied(c)'
  BY <1>0, <1>4 DEF Filling, Disowned, Emptied
<1>9. EntrySteady(c)
  BY <1>4, <1>5, <1>7, <1>8 DEF EntrySteady
<1> QED
  BY <1>9, EntryUnmoved

\* The old version leaves the maps: nothing is freed, for a reload that fails here finds
\* no metadata either.
LEMMA EntryRemoveOld ==
  ASSUME TypeInv, ClaimsExclusive, DataInv, EntryInv, NEW c, Alone(c), RemoveOld(c)
  PROVE  EntryInv'
<1>0. c \in DOMAIN calls /\ calls[c].pc = "removeOld"
  BY DEF RemoveOld, At
<1>1. /\ FrameOK(c) /\ calls[c].op \in {"load", "unload", "reload"} /\ calls[c].name \in Extensions
      /\ FramesInv
      /\ \A p \in Pcs : Return(c, p) => Ends(c, p)
  BY <1>0, RegContext
<1>2. calls[c].op = "reload"
  BY <1>0, <1>1 DEF FrameOK, LoadPcs, UnloadPcs
<1>3. loaded[NameOf(c)] = loadedMeta[NameOf(c)]
  <2>1. ~HalfLoaded(c) /\ ~HalfUnloaded(c)
    BY <1>0 DEF HalfLoaded, HalfUnloaded
  <2>2. MapsAgree
    BY DEF DataInv
  <2> QED
    BY <1>0, <1>1, <2>1, <2>2, MapsAtStep DEF NameOf
<1>4. /\ Only(c) /\ slotMap' = slotMap /\ calls'[c].op = calls[c].op
      /\ calls'[c].pc \in {"removeEntries", "failed"}
  BY <1>1, RemoveOldEffect DEF Fail, Ends, Becomes, Pcs, LoadPcs
<1>5. entries' \subseteq entries
  BY RemoveOldEffect, DropShrinks
<1>6. metas' = metas \/ (metas' = metas \ {c, loadedMeta[NameOf(c)]} /\ loadedMeta[NameOf(c)] = 0)
  BY <1>3, RemoveOldEffect
<1>7. \A m \in metas : m \in metas' \/ m = c
  BY <1>0, <1>6, DataContext
<1>8. calls[c].pc \notin Filling /\ ~Disowned(c) /\ ~Emptied(c)' /\ calls'[c].pc # "push"
  BY <1>0, <1>4 DEF Filling, Disowned, Emptied
<1>9. EntrySteady(c)
  BY <1>4, <1>5, <1>7, <1>8 DEF EntrySteady
<1> QED
  BY <1>9, EntryUnmoved

\* The library that a frame took out of the map is there until it is closed.
LEMMA OldLibraryOpen ==
  ASSUME TypeInv, DataInv, NEW c \in DOMAIN calls, HoldsLib(c)
  PROVE  /\ calls[c].oldLib \in DOMAIN calls /\ calls[c].oldLib \in handles
         /\ calls[calls[c].oldLib].pc = "ok"
         /\ loaded[calls[c].name] = 0
<1>1. /\ calls[c].oldLib \in DOMAIN calls
      /\ calls[calls[c].oldLib].pc = "ok"
      /\ loaded[calls[c].name] = 0
  BY DEF DataInv, Knows, BroughtBy
<1>2. calls[c].oldLib \in Nat /\ calls[c].oldLib # 0
  BY <1>1, FrameNumbers DEF TypeInv
<1>3. HandleOwned(calls[c].oldLib)
  BY <1>2, Zenon DEF HandleOwned
<1> QED
  BY <1>1, <1>2, <1>3 DEF DataInv, NoneAstray

\* The image runs its around_deinit: the registers are where they were.
LEMMA EntryDeinit ==
  ASSUME TypeInv, DataInv, EntryInv, NEW c, Alone(c), Deinit(c)
  PROVE  EntryInv'
<1>0. c \in DOMAIN calls /\ calls[c].pc = "deinit"
  BY DEF Deinit, At
<1>1. /\ FrameOK(c) /\ calls[c].op \in {"load", "unload", "reload"}
      /\ \A p \in Pcs : Goto(c, p) => Moves(c, p)
  BY <1>0, RegContext
<1>2. Moves(c, "close")
  BY <1>1 DEF Deinit, Pcs, UnloadPcs
<1>3. /\ Only(c) /\ calls'[c].op = calls[c].op /\ calls'[c].name = calls[c].name
      /\ calls'[c].pc = "close" /\ calls'[c].old = calls[c].old
      /\ calls'[c].oldLib = calls[c].oldLib
      /\ \A d \in DOMAIN calls : calls'[d].file = calls[d].file
  BY <1>2 DEF Moves, Becomes, Only
<1>4. /\ slotMap' = slotMap /\ loaded' = loaded /\ metas' = metas /\ entries' = entries
  BY DEF Deinit, mapVars, regVars
<1>5. calls[c].op \in {"unload", "reload"}
  BY <1>0, <1>1 DEF FrameOK, LoadPcs
<1>6. Disowned(c)' /\ Emptied(c) /\ calls[c].pc \notin Filling /\ SnapshotOK(c)'
  BY <1>0, <1>3, <1>5 DEF Disowned, Emptied, Filling, SnapshotOK
<1>7. calls[c].oldLib \in DOMAIN calls
  BY <1>0, <1>5, OldLibraryOpen DEF HoldsLib, Swapping
<1>8. ASSUME NEW n \in entries
      PROVE  n.meta \in metas' /\ n.meta # calls'[c].old /\ (Seen(n)' \/ Detached(c, n)')
  <2>1. n.meta \in metas /\ (Seen(n) \/ Detached(c, n))
    BY <1>0, <1>8, EntryContext
  <2>2. n.meta # calls[c].old
    BY <1>0, <1>6, <1>8 DEF EntryInv
  <2>3. Detached(c, n) => Detached(c, n)'
    BY <1>0, <1>3, <1>6, <1>7 DEF Detached, ImageOf
  <2>4. Seen(n) => Seen(n)'
    BY <1>4 DEF Seen
  <2> QED
    BY <1>3, <1>4, <2>1, <2>2, <2>3, <2>4
<1>9. SlotsOwned'
  BY <1>4 DEF EntryInv, SlotsOwned
<1> QED
  BY <1>3, <1>4, <1>6, <1>8, <1>9, EntryLocal

\* unload takes the library out of the map: the registers it has taken out before are
\* still in its image.
LEMMA EntryRemoveLibrary ==
  ASSUME TypeInv, DataInv, EntryInv, NEW c, Alone(c), RemoveLibrary(c)
  PROVE  EntryInv'
<1>0. c \in DOMAIN calls /\ calls[c].pc = "removeLib"
  BY DEF RemoveLibrary, At
<1>1. /\ FrameOK(c) /\ calls[c].op \in {"load", "unload", "reload"} /\ calls[c].name \in Extensions
  BY <1>0, RegContext
<1>2. PICK e \in Extensions : e = calls[c].name
  BY <1>1
<1>3. calls[c].op = "unload"
  BY <1>0, <1>1 DEF FrameOK, LoadPcs, ReloadPcs
<1>4. loaded[e] \in DOMAIN calls /\ loaded[e] # 0 /\ calls[loaded[e]].pc = "ok"
  <2>1. Knows(c) /\ HalfUnloaded(c)
    BY <1>0, <1>3 DEF DataInv, HalfUnloaded
  <2> QED
    BY <1>2, <2>1, FrameNumbers DEF Knows, BroughtBy, TypeInv
<1>5. /\ Only(c) /\ calls'[c].op = "unload" /\ calls'[c].name = e
      /\ calls'[c].pc = "deinit" /\ calls'[c].old = calls[c].old
      /\ calls'[c].oldLib = loaded[e]
      /\ metas' = metas
  BY <1>2, <1>3, <1>4, RemoveLibraryEffect DEF Becomes, NameOf
<1>6. calls'[loaded[e]].file = calls[loaded[e]].file
  BY <1>0, <1>4, <1>5 DEF Only
<1>7. slotMap' = slotMap /\ entries' = entries
  BY DEF RemoveLibrary, regVars
<1>8. Disowned(c)' /\ Emptied(c) /\ calls[c].pc \notin Filling /\ SnapshotOK(c)'
  BY <1>0, <1>3, <1>5 DEF Disowned, Emptied, Filling, SnapshotOK
<1>9. ASSUME NEW n \in entries
      PROVE  n.meta \in metas' /\ n.meta # calls'[c].old /\ (Seen(n)' \/ Detached(c, n)')
  <2>1. n.meta \in metas /\ (Seen(n) \/ Detached(c, n))
    BY <1>0, <1>9, EntryContext
  <2>2. n.meta # calls[c].old
    BY <1>0, <1>8, <1>9 DEF EntryInv
  <2>3. Detached(c, n) => n.slot \in OwnSlots[n.file] /\ n.file = calls[loaded[e]].file
    BY <1>0, <1>2 DEF Detached, ImageOf
  <2>4. Detached(c, n) => Detached(c, n)'
    BY <1>5, <1>6, <1>8, <2>3 DEF Detached, ImageOf
  <2>5. Seen(n) => Seen(n)'
    BY <1>7 DEF Seen
  <2> QED
    BY <1>5, <2>1, <2>2, <2>4, <2>5
<1>10. SlotsOwned'
  BY <1>7 DEF EntryInv, SlotsOwned
<1> QED
  BY <1>5, <1>7, <1>8, <1>9, <1>10, EntryLocal

\* A load takes its snapshot: what is in it is in the slot map.
LEMMA EntrySnapshot ==
  ASSUME TypeInv, EntryInv, NEW c, Alone(c), Snapshot(c)
  PROVE  EntryInv'
<1>0. /\ c \in DOMAIN calls /\ calls[c].pc = "snapshot"
      /\ Only(c)
      /\ Becomes(c, "push", calls[c].file, calls[c].todo, OthersRegisters(c),
                 calls[c].old, calls[c].oldLib)
      /\ UNCHANGED <<mapVars, liveVars, regVars>>
  BY SnapshotEffect
<1>1. /\ calls'[c].pc = "push" /\ calls'[c].regs = OthersRegisters(c)
      /\ slotMap' = slotMap /\ metas' = metas /\ entries' = entries
  BY <1>0 DEF Becomes, mapVars, liveVars, regVars
<1>2. ~Disowned(c) /\ ~Emptied(c)' /\ calls'[c].pc \in Filling
  BY <1>0, <1>1 DEF Disowned, Emptied, Filling
<1>3. SnapshotOK(c)'
  BY <1>1 DEF SnapshotOK, OthersRegisters
<1>4. ASSUME NEW n \in entries
      PROVE  n.meta \in metas' /\ Seen(n)'
  <2>1. n.meta \in metas /\ Seen(n)
    BY <1>0, <1>2, <1>4, EntryContext
  <2> QED
    BY <1>1, <2>1 DEF Seen
<1>5. SlotsOwned'
  BY <1>1 DEF EntryInv, SlotsOwned
<1> QED
  BY <1>0, <1>1, <1>2, <1>3, <1>4, <1>5, EntryLocal

\* The extension of a load or of a reload makes an entry for a register in the slot map.
LEMMA EntryPush ==
  ASSUME OneOwner, TypeInv, DataInv, EntryInv, NEW c, Alone(c),
         PushEntries(c) \/ PushPrepared(c)
  PROVE  EntryInv'
<1>1. PICK r \in calls[c].regs :
        /\ c \in DOMAIN calls /\ calls[c].pc = "push" /\ calls[c].op \in {"load", "reload"}
        /\ Only(c)
        /\ Becomes(c, calls[c].pc, calls[c].file, calls[c].todo, calls[c].regs \ {r},
                   calls[c].old, calls[c].oldLib)
        /\ \/ entries' = entries
           \/ /\ calls[c].op = "load"
              /\ entries' = entries \cup {Entry(c, r.slot, r.file)}
           \/ /\ slotMap[r.slot] # None
              /\ entries' = entries \cup {Entry(c, r.slot, slotMap[r.slot].file)}
  BY PushEntriesEffect, PushPreparedEffect
<1>2. /\ slotMap' = slotMap /\ metas' = metas
      /\ calls'[c].op = calls[c].op /\ calls'[c].pc = "push"
      /\ calls'[c].regs \subseteq calls[c].regs
  BY <1>1 DEF PushEntries, PushPrepared, mapVars, liveVars, Becomes
<1>3. r.slot \in Slots /\ SnapshotOK(c)
  BY <1>1, FrameNumbers DEF EntryInv, TypeInv, FrameType, Register
<1>4. \/ entries' = entries
      \/ /\ slotMap[r.slot] # None
         /\ entries' = entries \cup {Entry(c, r.slot, slotMap[r.slot].file)}
  BY <1>1, <1>3 DEF SnapshotOK
<1>5. ~Disowned(c) /\ ~Emptied(c)' /\ calls'[c].pc \in Filling
  BY <1>1, <1>2 DEF Disowned, Emptied, Filling
<1>6. SnapshotOK(c)'
  BY <1>1, <1>2, <1>3 DEF SnapshotOK
<1>7. c \in metas
  <2>1. FreshMeta(c) /\ c \in Nat /\ c # 0
    BY <1>1, FrameNumbers DEF TypeInv, FreshMeta, Fresh
  <2>2. MetaOwned(c)
    BY <1>1, <2>1 DEF MetaOwned
  <2> QED
    BY <2>1, <2>2 DEF DataInv, NoneAstray
<1>8. ASSUME NEW n \in entries'
      PROVE  /\ n.meta \in metas' /\ Seen(n)'
             /\ n \in entries \/ (n.meta = c /\ (n.file # None => n.slot \notin HostSlots))
  <2>1. CASE n \in entries
    <3>1. n.meta \in metas /\ Seen(n)
      BY <1>1, <1>5, <2>1, EntryContext
    <3> QED
      BY <1>2, <2>1, <3>1 DEF Seen
  <2>2. CASE n \notin entries
    <3>1. /\ slotMap[r.slot] # None /\ n = Entry(c, r.slot, slotMap[r.slot].file)
      BY <1>4, <1>8, <2>2
    <3>2. n.slot = r.slot /\ n.file = slotMap[r.slot].file /\ n.meta = c
      BY <3>1 DEF Entry
    <3>3. n.file # None => n.slot \notin HostSlots
      BY <1>3, <3>1, <3>2, HostHasNoFile DEF EntryInv
    <3> QED
      BY <1>2, <1>7, <3>1, <3>2, <3>3 DEF Seen
  <2> QED
    BY <2>1, <2>2
<1>9. SlotsOwned'
  BY <1>2 DEF EntryInv, SlotsOwned
<1> QED
  BY <1>1, <1>2, <1>5, <1>6, <1>8, <1>9, EntryLocal

\* remove_by_meta on every register of the slot map: it finds every entry of the
\* metadata, for all registers that have entries are there.
LEMMA EntryRemoveEntries ==
  ASSUME TypeInv, EntryInv, NEW c, Alone(c), RemoveEntries(c)
  PROVE  EntryInv'
<1>0. c \in DOMAIN calls /\ calls[c].pc = "removeEntries"
  BY DEF RemoveEntries, At
<1>1. \A p \in Pcs : Goto(c, p) => Moves(c, p)
  BY <1>0, RegContext
<1>2. Moves(c, "removeOwned")
  BY <1>1 DEF RemoveEntries, Pcs, UnloadPcs
<1>3. Only(c) /\ calls'[c].pc = "removeOwned" /\ calls'[c].old = calls[c].old
  BY <1>2 DEF Moves, Becomes
<1>4. slotMap' = slotMap /\ metas' = metas
  BY DEF RemoveEntries, mapVars, liveVars
<1>5. entries' = entries \ {n \in Reachable : n.meta = calls[c].old}
  BY DEF RemoveEntries
<1>6. ~Disowned(c) /\ calls[c].pc \notin Filling /\ SnapshotOK(c)'
  BY <1>0, <1>3 DEF Disowned, Filling, SnapshotOK
<1>7. ASSUME NEW n \in entries'
      PROVE  n \in entries /\ n.meta \in metas' /\ Seen(n)' /\ n.meta # calls'[c].old
  <2>1. n \in entries
    BY <1>5, <1>7
  <2>2. n.meta \in metas /\ Seen(n)
    BY <1>0, <1>6, <2>1, EntryContext
  <2>3. n \in Reachable
    BY <2>1, <2>2 DEF Reachable, Seen
  <2> QED
    BY <1>3, <1>4, <1>5, <1>7, <2>1, <2>2, <2>3 DEF Seen
<1>8. SlotsOwned'
  BY <1>4 DEF EntryInv, SlotsOwned
<1> QED
  BY <1>3, <1>6, <1>7, <1>8, EntryLocal

\* A call attaches the registers of its extension.  Entries that are in registers of its
\* slots already are in the image it attaches: a reload of the file that was loaded has
\* its old registers back.
LEMMA EntryAttachOwned ==
  ASSUME OneOwner, TypeInv, FileInv, DataInv, RegInv, EntryInv, NEW c, Alone(c), AttachOwned(c)
  PROVE  EntryInv'
<1>0. c \in DOMAIN calls /\ calls[c].pc = "attach"
  BY DEF AttachOwned, At
<1>1. /\ FrameOK(c) /\ calls[c].op \in {"load", "unload", "reload"} /\ calls[c].name \in Extensions
      /\ c \in Nat /\ c # 0
      /\ \A p \in Pcs : Goto(c, p) => Moves(c, p)
  BY <1>0, RegContext
<1>2. PICK e \in Extensions : e = calls[c].name
  BY <1>1
<1>3. calls[c].op \in {"load", "reload"}
  BY <1>0, <1>1 DEF FrameOK, UnloadPcs
<1>4. PICK f \in OwnFiles(e) : f = calls[c].file
  <2>1. calls[c].file \in FilesOf[e] \cup ReloadFiles[e]
    BY <1>0, <1>1, <1>2, <1>3 DEF FrameOK, FileOK, Opening
  <2> QED
    BY <2>1 DEF OwnFiles
<1>5. /\ Only(c) /\ calls'[c].op = calls[c].op /\ metas' = metas
      /\ calls'[c].pc = IF calls[c].op = "load" THEN "snapshot" ELSE "push"
  BY <1>1 DEF AttachOwned, Moves, Becomes, Pcs, LoadPcs, liveVars
<1>6. /\ slotMap' = [s \in Slots |-> IF s \in OwnSlots[f] THEN [owner |-> e, file |-> f]
                                                          ELSE slotMap[s]]
      /\ entries' = entries \cup {Entry(c, s, f) : s \in OwnSlots[f] \cap Provides[f]}
  BY <1>2, <1>4 DEF AttachOwned, NameOf, FileOf
<1>7. c \in metas /\ f # None
  <2>1. Fresh(c) /\ FreshMeta(c)
    BY <1>0, <1>3 DEF Fresh, FreshMeta
  <2>2. HandleOwned(c) /\ MetaOwned(c)
    BY <1>0, <1>1, <2>1 DEF HandleOwned, MetaOwned
  <2>3. c \in handles /\ c \in metas
    BY <1>1, <2>2 DEF DataInv, NoneAstray
  <2> QED
    BY <1>4, <2>3 DEF FileInv
<1>8. /\ e # None /\ OwnSlots[f] \subseteq Slots
      /\ OwnSlots[f] \subseteq SlotsOf(e) /\ SlotsOf(e) \cap HostSlots = {}
      /\ \A d \in Extensions : d # e => SlotsOf(d) \cap SlotsOf(e) = {}
  <2>1. f \in Files /\ e # None
    BY FrameworkAssumption DEF OwnFiles
  <2>2. OwnSlots[f] \subseteq Slots
    BY <2>1 DEF Slots
  <2>3. OwnSlots[f] \subseteq SlotsOf(e)
    BY DEF SlotsOf
  <2> QED
    BY <2>1, <2>2, <2>3 DEF OneOwner
<1>9. ~Owns(e)
  <2>1. CASE calls[c].op = "reload"
    BY <1>0, <1>2, <2>1, DisownedOwnsNot DEF Disowned
  <2>2. CASE calls[c].op = "load"
    <3>1. loaded[e] = 0
      BY <1>0, <1>2, <2>2 DEF DataInv, Knows, Absent
    <3>2. ~ServesNew(c) /\ ~ServesOld(c)
      BY <1>0, <2>2 DEF ServesNew, ServesOld
    <3>3. \A m : ~Serving(m, e)
      BY <1>0, <3>1, <3>2, ServingAtStep
    <3> QED
      BY <3>3 DEF RegInv, Owns
  <2> QED
    BY <1>3, <2>1, <2>2
<1>10. \A s \in OwnSlots[f] : slotMap[s] = None
  <2> SUFFICES ASSUME NEW s \in OwnSlots[f], slotMap[s] # None
               PROVE  FALSE
    OBVIOUS
  <2>1. s \in Slots /\ s \notin HostSlots
    BY <1>8
  <2>2. /\ slotMap[s].owner \in Extensions /\ slotMap[s].file \in OwnFiles(slotMap[s].owner)
        /\ s \in OwnSlots[slotMap[s].file]
    BY <2>1 DEF EntryInv, SlotsOwned
  <2>4. s \in SlotsOf(slotMap[s].owner) /\ slotMap[s].file # None
    BY <2>2, NoOwnNone DEF SlotsOf
  <2>3. slotMap[s].owner = e
    BY <1>8, <2>2, <2>4
  <2> QED
    BY <1>9, <2>1, <2>3, <2>4 DEF Owns
<1>11. [owner |-> e, file |-> f] # None
  <2>1. f \in Files \cup {None}
    BY <1>0, <1>4, FrameNumbers DEF TypeInv, FrameType, MaybeFile
  <2> QED
    BY <2>1, NoneIsNoRegister
<1>12. ASSUME NEW n \in entries
       PROVE  n.meta \in metas /\ Seen(n)'
  <2>1. /\ n.slot \in Slots /\ n.meta \in metas
        /\ Seen(n) \/ Detached(c, n)
    BY <1>0, <1>12, EntryContext
  <2>2. CASE n.slot \in OwnSlots[f]
    <3>1. Detached(c, n)
      BY <1>10, <2>1, <2>2 DEF Seen
    <3>2. n.file = f
      BY <1>0, <1>4, <3>1 DEF Detached, ImageOf
    <3>3. slotMap'[n.slot] = [owner |-> e, file |-> f]
      BY <1>6, <2>1, <2>2
    <3>4. slotMap'[n.slot] # None
      BY <1>11, <3>3
    <3> QED
      BY <2>1, <3>2, <3>3, <3>4 DEF Seen
  <2>3. CASE n.slot \notin OwnSlots[f]
    <3>1. Seen(n)
      BY <1>0, <1>4, <2>1, <2>3 DEF Detached, ImageOf
    <3>2. slotMap'[n.slot] = slotMap[n.slot]
      BY <1>6, <2>1, <2>3
    <3> QED
      BY <2>1, <3>1, <3>2 DEF Seen
  <2> QED
    BY <2>2, <2>3
<1>13. ASSUME NEW n \in entries', n \notin entries
       PROVE  /\ n.meta = c /\ Seen(n)'
              /\ n.slot \notin HostSlots
  <2>1. PICK s \in OwnSlots[f] : n = Entry(c, s, f)
    BY <1>6, <1>13
  <2>2. n.slot = s /\ n.file = f /\ n.meta = c /\ s \in Slots
    BY <1>8, <2>1 DEF Entry
  <2>3. slotMap'[s] = [owner |-> e, file |-> f]
    BY <1>6, <2>2
  <2> QED
    BY <1>8, <1>11, <2>2, <2>3 DEF Seen
<1>14. SlotsOwned'
  <2> SUFFICES ASSUME NEW s \in Slots, slotMap'[s] # None
               PROVE  \/ slotMap'[s].owner = None /\ slotMap'[s].file = None /\ s \in HostSlots
                      \/ /\ slotMap'[s].owner \in Extensions
                         /\ slotMap'[s].file \in OwnFiles(slotMap'[s].owner)
                         /\ s \in OwnSlots[slotMap'[s].file]
    BY DEF SlotsOwned
  <2>1. CASE s \in OwnSlots[f]
    BY <1>6, <1>7, <2>1
  <2>2. CASE s \notin OwnSlots[f]
    <3>1. slotMap'[s] = slotMap[s]
      BY <1>6, <2>2
    <3> QED
      BY <3>1 DEF EntryInv, SlotsOwned
  <2> QED
    BY <2>1, <2>2
<1>15. /\ calls'[c].pc \in {"snapshot", "push"} /\ calls'[c].pc \in Filling
       /\ ~Emptied(c)' /\ SnapshotOK(c)'
  BY <1>3, <1>5 DEF Filling, Emptied, SnapshotOK
<1>16. \A n \in entries' :
         /\ n.meta \in metas' /\ Seen(n)'
         /\ n \in entries \/ (n.meta = c /\ n.slot \notin HostSlots)
  BY <1>5, <1>7, <1>12, <1>13
<1> QED
  BY <1>5, <1>14, <1>15, <1>16, EntryLocal

\* The registers of the owner leave the slot map: entries in them are in the image that
\* the call is about to take out of use.
LEMMA EntryRemoveOwned ==
  ASSUME TypeInv, DataInv, RegInv, EntryInv, NEW c, Alone(c), RemoveOwned(c)
  PROVE  EntryInv'
<1>0. c \in DOMAIN calls /\ calls[c].pc = "removeOwned"
  BY DEF RemoveOwned, At
<1>1. /\ FrameOK(c) /\ calls[c].op \in {"load", "unload", "reload"} /\ calls[c].name \in Extensions
      /\ \A p \in Pcs : Goto(c, p) => Moves(c, p)
  BY <1>0, RegContext
<1>2. PICK e \in Extensions : e = calls[c].name
  BY <1>1
<1>3. calls[c].op \in {"unload", "reload"}
  BY <1>0, <1>1 DEF FrameOK, LoadPcs
<1>4. Moves(c, IF calls[c].op = "unload" THEN "removeLib" ELSE "deinit")
  BY <1>1 DEF RemoveOwned, Pcs, UnloadPcs
<1>5. /\ Only(c) /\ calls'[c].op = calls[c].op /\ calls'[c].name = e
      /\ calls'[c].pc = IF calls[c].op = "unload" THEN "removeLib" ELSE "deinit"
      /\ calls'[c].old = calls[c].old /\ calls'[c].oldLib = calls[c].oldLib
      /\ \A d \in DOMAIN calls : calls'[d].file = calls[d].file
  BY <1>2, <1>4 DEF Moves, Becomes, Only
<1>6. /\ slotMap' = [s \in Slots |-> IF slotMap[s] # None /\ slotMap[s].owner = e
                                     THEN None ELSE slotMap[s]]
      /\ loaded' = loaded /\ metas' = metas /\ entries' = entries
  BY <1>2 DEF RemoveOwned, NameOf, liveVars, regVars
<1>7. Disowned(c)' /\ ~Disowned(c) /\ Emptied(c) /\ calls[c].pc \notin Filling /\ SnapshotOK(c)'
  BY <1>0, <1>3, <1>5 DEF Disowned, Emptied, Filling, SnapshotOK
<1>8. ASSUME NEW n \in entries, slotMap[n.slot].owner = e
      PROVE  Detached(c, n)'
  <2>1. n.slot \in Slots /\ slotMap[n.slot] # None /\ slotMap[n.slot].file = n.file
    BY <1>0, <1>7, <1>8, EntryContext DEF Seen
  <2>2. e # None
    BY FrameworkAssumption
  <2>3. n.slot \in OwnSlots[n.file] /\ n.file # None
    BY <1>8, <2>1, <2>2, NoOwnNone DEF EntryInv, SlotsOwned
  <2>4. PICK m \in DOMAIN calls : Serving(m, e) /\ calls[m].file = n.file
    BY <1>8, <2>1, <2>3 DEF RegInv
  <2>5. \/ m # 0 /\ loaded[e] = m
        \/ m = c /\ calls[c].name = e /\ ServesNew(c)
        \/ calls[c].name = e /\ calls[c].oldLib = m /\ ServesOld(c)
    BY <1>0, <2>4, ServingAtStep
  <2>6. ~ServesNew(c)
    BY <1>0 DEF ServesNew
  <2>7. calls'[m].file = n.file
    BY <1>5, <2>4
  <2>8. CASE calls[c].op = "unload"
    <3>1. loaded'[e] = m
      BY <1>6, <2>5, <2>6, <2>8 DEF ServesOld
    <3> QED
      BY <1>5, <1>7, <2>3, <2>7, <2>8, <3>1 DEF Detached, ImageOf
  <2>9. CASE calls[c].op = "reload"
    <3>1. loaded[e] = 0
      BY <1>0, <1>2, <2>9, OldLibraryOpen DEF HoldsLib, Swapping
    <3>2. calls'[c].oldLib = m
      BY <1>5, <2>5, <2>6, <3>1
    <3> QED
      BY <1>5, <1>7, <2>3, <2>7, <2>9, <3>2 DEF Detached, ImageOf
  <2> QED
    BY <1>3, <2>8, <2>9
<1>9. ASSUME NEW n \in entries
      PROVE  n.meta \in metas' /\ n.meta # calls'[c].old /\ (Seen(n)' \/ Detached(c, n)')
  <2>1. n.slot \in Slots /\ n.meta \in metas /\ Seen(n)
    BY <1>0, <1>7, <1>9, EntryContext
  <2>2. n.meta # calls[c].old
    BY <1>0, <1>7, <1>9 DEF EntryInv
  <2>3. CASE slotMap[n.slot].owner # e
    <3>1. slotMap'[n.slot] = slotMap[n.slot]
      BY <1>6, <2>1, <2>3
    <3> QED
      BY <1>5, <1>6, <2>1, <2>2, <3>1 DEF Seen
  <2> QED
    BY <1>5, <1>6, <1>8, <1>9, <2>1, <2>2, <2>3
<1>10. SlotsOwned'
  <2> SUFFICES ASSUME NEW s \in Slots, slotMap'[s] # None
               PROVE  slotMap'[s] = slotMap[s]
    BY DEF EntryInv, SlotsOwned
  <2> QED
    BY <1>6
<1> QED
  BY <1>5, <1>6, <1>7, <1>9, <1>10, EntryLocal

\* Two extensions have no file in common.
LEMMA FilesApart ==
  ASSUME NEW d \in Extensions, NEW e \in Extensions, d # e, NEW f, f # None,
         f \in OwnFiles(d) \cup {None}
  PROVE  f \notin OwnFiles(e) \cup {None}
<1>1. (FilesOf[d] \cup ReloadFiles[d]) \cap (FilesOf[e] \cup ReloadFiles[e]) = {}
  BY FrameworkAssumption
<1> QED
  BY <1>1 DEF OwnFiles

\* When a call closes a library, only the new version or another that is prepared can
\* have its image: the libraries in the map are other extensions'.
LEMMA OneImage ==
  ASSUME TypeInv, CycleInv, FileInv, DataInv, NEW c \in DOMAIN calls, Alone(c), HoldsLib(c),
         NEW d \in handles, d # calls[c].oldLib, d # c,
         calls[d].file = calls[calls[c].oldLib].file
  PROVE  At(d, "prepared")
<1>0. FramesInv /\ calls[c].name \in Extensions
  BY FrameNumbers DEF TypeInv, FrameType
<1>1. d \in DOMAIN calls /\ calls[d].file # None
  BY DEF FileInv
<1>2. HandleOwned(d)
  BY <1>0, <1>1, FrameNumbers DEF DataInv, NoneAstray
<1>3. \A h \in DOMAIN calls : h # c => calls[h].pc \in {"ok", "failed", "prepared", "await"}
  BY DEF Alone
<1>4. ~\E h \in DOMAIN calls : HoldsLib(h) /\ calls[h].oldLib = d
  <2>1. \A h \in DOMAIN calls : h # c => ~HoldsLib(h)
    BY <1>0, <1>3, IdleFrame
  <2> QED
    BY <2>1
<1>5. ASSUME Fresh(d)
      PROVE  At(d, "prepared")
  BY <1>0, <1>1, <1>3, <1>5, IdleFrame DEF At
<1>6. ASSUME NEW e \in Extensions, loaded[e] = d
      PROVE  FALSE
  <2>1. loaded[e] # 0
    BY <1>2, <1>6 DEF HandleOwned
  <2>2. calls[d].name = e
    BY <1>6, <2>1 DEF DataInv, LoadedBy, BroughtBy
  <2>3. PICK o \in DOMAIN calls : o = calls[c].oldLib
    BY OldLibraryOpen
  <2>4. calls[o].name = calls[c].name /\ loaded[calls[c].name] = 0
    BY <2>3 DEF DataInv, Knows, BroughtBy
  <2>5. calls[c].name # e
    BY <2>1, <2>4
  <2>6. /\ calls[d].file \in OwnFiles(e) \cup {None}
        /\ calls[o].file \in OwnFiles(calls[c].name) \cup {None}
    BY <1>1, <2>2, <2>3, <2>4 DEF CycleInv, FrameFile
  <2> QED
    BY <1>0, <1>1, <2>3, <2>5, <2>6, FilesApart
<1> QED
  BY <1>2, <1>4, <1>5, <1>6 DEF HandleOwned

\* A call that has not opened a library has none.
LEMMA NothingOpened ==
  ASSUME TypeInv, DataInv, NEW c \in DOMAIN calls,
         calls[c].pc \in {"resolve", "deinit", "close"}, calls[c].op # "reload"
  PROVE  c \notin handles
<1> SUFFICES ASSUME c \in handles
             PROVE  FALSE
  OBVIOUS
<1>1. c \in Nat /\ HandleOwned(c)
  BY FrameNumbers DEF TypeInv, DataInv, NoneAstray
<1>2. ~\E e \in Extensions : loaded[e] = c
  <2> SUFFICES ASSUME NEW e \in Extensions, loaded[e] = c
               PROVE  FALSE
    OBVIOUS
  <2>1. c # 0
    BY <1>1 DEF HandleOwned
  <2> QED
    BY <2>1 DEF DataInv, LoadedBy, BroughtBy
<1>3. ~Fresh(c)
  BY DEF Fresh
<1>4. PICK d \in DOMAIN calls : HoldsLib(d) /\ calls[d].oldLib = c
  BY <1>1, <1>2, <1>3 DEF HandleOwned
<1>5. calls[c].pc = "ok"
  BY <1>4, OldLibraryOpen
<1> QED
  BY <1>5

\* The old library is closed.  Of the entries in its registers only those stay that are
\* in the image of the version that takes its place.
LEMMA EntryCloseOld ==
  ASSUME ImagesClose, TypeInv, CycleInv, FileInv, DataInv, EntryInv, NEW c, Alone(c), CloseOld(c)
  PROVE  EntryInv'
<1>0. c \in DOMAIN calls /\ calls[c].pc = "close"
  BY DEF CloseOld, At
<1>1. /\ FrameOK(c) /\ calls[c].op \in {"load", "unload", "reload"}
      /\ c \in Nat
      /\ \A p \in Pcs : Goto(c, p) => Moves(c, p)
      /\ \A p \in Pcs : Return(c, p) => Ends(c, p)
  BY <1>0, RegContext
<1>2. calls[c].op \in {"unload", "reload"}
  BY <1>0, <1>1 DEF FrameOK, LoadPcs
<1>3. /\ Only(c) /\ calls'[c].op = calls[c].op /\ calls'[c].name = calls[c].name
      /\ calls'[c].pc = IF calls[c].op = "unload" THEN "ok" ELSE "attach"
      /\ calls'[c].file = calls[c].file
  BY <1>1 DEF CloseOld, Moves, Ends, Becomes, Pcs, LoadPcs
<1>4. /\ slotMap' = slotMap /\ metas' = metas \ {calls[c].old}
      /\ entries' = {n \in entries : n.file = None
                                       \/ MappedBy(handles \ {calls[c].oldLib}, n.file)}
  BY DEF CloseOld, mapVars, DropLibraries
<1>5. HoldsLib(c) /\ Disowned(c) /\ Emptied(c) /\ calls[c].pc \notin Filling
  BY <1>0, <1>2 DEF HoldsLib, Swapping, Disowned, Emptied, Filling
<1>6. /\ calls[c].oldLib \in DOMAIN calls /\ calls[c].oldLib \in handles
      /\ calls[calls[c].oldLib].pc = "ok"
  BY <1>0, <1>5, OldLibraryOpen
<1>7. ~Emptied(c)' /\ SnapshotOK(c)'
  BY <1>3 DEF Emptied, SnapshotOK
<1>8. calls[c].op = "unload" => c \notin handles
  BY <1>0, NothingOpened
<1>9. ASSUME NEW n \in entries', Detached(c, n)
      PROVE  Detached(c, n)'
  <2>1. n.slot \in OwnSlots[n.file] /\ n.file = calls[calls[c].oldLib].file
    BY <1>0, <1>9 DEF Detached, ImageOf
  <2>2. n.file # None
    BY <1>6, <2>1 DEF FileInv
  <2>3. PICK d \in handles \ {calls[c].oldLib} : calls[d].file = n.file
    BY <1>4, <1>9, <2>2 DEF MappedBy
  <2>4. d = c
    <3>1. ASSUME d # c
          PROVE  At(d, "prepared")
      BY <1>0, <1>5, <2>1, <2>3, <3>1, OneImage
    <3>2. ~At(d, "prepared")
      BY <1>0, <2>1, <2>3 DEF ImagesClose, At
    <3> QED
      BY <3>1, <3>2
  <2>5. calls[c].op = "reload"
    BY <1>2, <1>8, <2>3, <2>4
  <2>6. calls'[c].pc = "attach" /\ calls'[c].op = "reload" /\ n.file = calls'[c].file
    BY <1>3, <2>3, <2>4, <2>5
  <2> QED
    BY <1>3, <2>1, <2>6 DEF Detached, Disowned, ImageOf
<1>10. ASSUME NEW n \in entries'
       PROVE  n \in entries /\ n.meta \in metas' /\ (Seen(n)' \/ Detached(c, n)')
  <2>1. n \in entries
    BY <1>4, <1>10
  <2>2. n.meta \in metas /\ (Seen(n) \/ Detached(c, n))
    BY <1>0, <2>1, EntryContext
  <2>3. n.meta # calls[c].old
    BY <1>0, <1>5, <2>1 DEF EntryInv
  <2>4. Seen(n) => Seen(n)'
    BY <1>4 DEF Seen
  <2> QED
    BY <1>4, <1>9, <1>10, <2>1, <2>2, <2>3, <2>4
<1>11. SlotsOwned'
  BY <1>4 DEF EntryInv, SlotsOwned
<1> QED
  BY <1>3, <1>5, <1>7, <1>10, <1>11, EntryLocal

\* A frame that has made no entry and says nothing about any.
Passive(d) == ~Disowned(d) /\ ~Emptied(d) /\ calls[d].pc \notin Filling

\* A step that only adds frames, or moves one that is passive, or attaches a register of
\* the host.
LEMMA EntryStays ==
  ASSUME OneOwner, TypeInv, DataInv, EntryInv,
         DOMAIN calls \subseteq DOMAIN calls',
         \A d \in DOMAIN calls : \/ calls'[d] = calls[d]
                                 \/ /\ Passive(d) /\ Passive(d)'
                                    /\ calls'[d].file = calls[d].file,
         \A d \in DOMAIN calls' : d \notin DOMAIN calls => Passive(d)',
         loaded' = loaded, entries' \subseteq entries,
         \A m \in metas : m \in metas' \/ calls[m].pc \notin Filling,
         \A s \in Slots :
           \/ slotMap'[s] = slotMap[s]
           \/ /\ s \in HostSlots /\ slotMap'[s] # None
              /\ slotMap'[s].owner = None /\ slotMap'[s].file = None
  PROVE  EntryInv'
<1>1. SlotsOwned'
  BY DEF EntryInv, SlotsOwned
<1>2. ASSUME NEW d \in DOMAIN calls', Disowned(d)' \/ Emptied(d)' \/ calls'[d].pc \in Filling
      PROVE  d \in DOMAIN calls /\ calls'[d] = calls[d]
  BY <1>2 DEF Passive
<1>3. ASSUME NEW n \in entries, NEW c \in DOMAIN calls, Detached(c, n)
      PROVE  Detached(c, n)'
  <2>1. calls'[c] = calls[c]
    BY <1>3 DEF Detached, Passive
  <2>2. \A m \in DOMAIN calls : calls'[m].file = calls[m].file
    OBVIOUS
  <2>3. calls[c].pc = "removeLib" => loaded[calls[c].name] \in DOMAIN calls
    BY <1>3 DEF Detached, Disowned, DataInv, Knows, HalfUnloaded, BroughtBy
  <2>4. calls[c].pc \in {"deinit", "close"} => calls[c].oldLib \in DOMAIN calls
    BY <1>3, OldLibraryOpen DEF Detached, Disowned, HoldsLib, Swapping
  <2>5. ImageOf(c, n.file)'
    BY <1>3, <2>1, <2>2, <2>3, <2>4 DEF Detached, ImageOf
  <2> QED
    BY <1>3, <2>1, <2>5 DEF Detached, Disowned
<1>4. ASSUME NEW n \in entries'
      PROVE  EntryOK(n)'
  <2>1. EntryOK(n) /\ n \in entries /\ n.slot \in Slots
    BY <1>4 DEF EntryInv, TypeInv, RegTypes
  <2>2. /\ n.meta \in DOMAIN calls' /\ calls'[n.meta].pc \in Filling
        /\ n.meta \in metas' /\ (n.file # None => n.slot \notin HostSlots)
    BY <2>1 DEF EntryOK, Passive
  <2>3. ASSUME Seen(n)
        PROVE  Seen(n)'
    BY <2>1, <2>3 DEF Seen, EntryOK
  <2>4. Seen(n)' \/ \E c \in DOMAIN calls' : Detached(c, n)'
    BY <1>3, <2>1, <2>3 DEF EntryOK
  <2> QED
    BY <2>2, <2>4, Zenon DEF EntryOK
<1>5. ASSUME NEW d \in DOMAIN calls', Emptied(d)', NEW n \in entries'
      PROVE  n.meta # calls'[d].old
  <2>1. d \in DOMAIN calls /\ calls'[d] = calls[d]
    BY <1>2, <1>5
  <2>2. Emptied(d)
    BY <1>5, <2>1 DEF Emptied
  <2> QED
    BY <1>5, <2>1, <2>2 DEF EntryInv
<1>6. ASSUME NEW d \in DOMAIN calls'
      PROVE  SnapshotOK(d)'
  <2> SUFFICES ASSUME calls'[d].op = "load", calls'[d].pc = "push", NEW r \in calls'[d].regs
               PROVE  slotMap'[r.slot] # None /\ slotMap'[r.slot].file = r.file
    BY DEF SnapshotOK
  <2>1. d \in DOMAIN calls /\ calls'[d] = calls[d]
    BY <1>2 DEF Filling
  <2>2. slotMap[r.slot] # None /\ slotMap[r.slot].file = r.file
    BY <2>1 DEF EntryInv, SnapshotOK
  <2>3. r.slot \in Slots
    BY <2>1, FrameNumbers DEF TypeInv, FrameType, Register
  <2>4. r.slot \in HostSlots => r.file = None
    BY <2>2, <2>3, HostHasNoFile DEF EntryInv
  <2> QED
    BY <2>2, <2>3, <2>4
<1> QED
  BY <1>1, <1>4, <1>5, <1>6 DEF EntryInv

\* Every step keeps the entries' invariant.
LEMMA EntryStep ==
  ASSUME MaxConcurrent = 1, OneOwner, ImagesClose, TypeInv, StackInv, ClaimsExclusive, CycleInv,
         FileInv, DataInv, RegInv, EntryInv, [Next]_vars
  PROVE  EntryInv'
<1>0. FramesInv
  BY DEF TypeInv
<1>1. CASE Scan \/ UNCHANGED vars
  <2>1. UNCHANGED <<calls, loaded, slotMap, metas, entries>>
    BY <1>1 DEF Scan, vars, mapVars, liveVars, regVars
  <2> QED
    BY <2>1, EntryStays
<1>2. ASSUME NEW t \in HostSlots, AttachRegister(t)
      PROVE  EntryInv'
  <2>1. /\ UNCHANGED <<calls, loaded, metas, entries>>
        /\ slotMap' = [slotMap EXCEPT ![t] = [owner |-> None, file |-> None]]
    BY <1>2 DEF AttachRegister, liveVars, regVars
  <2>2. [owner |-> None, file |-> None] # None
    BY NoneIsNoRegister
  <2>3. \A s \in Slots :
          \/ slotMap'[s] = slotMap[s]
          \/ /\ s \in HostSlots /\ slotMap'[s] # None
             /\ slotMap'[s].owner = None /\ slotMap'[s].file = None
    BY <2>1, <2>2 DEF TypeInv, MapTypes
  <2> QED
    BY <2>1, <2>3, EntryStays
<1>3. ASSUME NEW e \in Extensions,
             CallLoad(e) \/ CallUnload(e) \/ (\E f \in ReloadFiles[e] : CallReload(e, f))
      PROVE  EntryInv'
  <2>1. \/ Begins("load", e, None, "fast")
        \/ Begins("unload", e, None, "dependents")
        \/ \E f \in Files : Begins("reload", e, f, "old")
    BY <1>0, <1>3, StartKinds, StartFrame DEF MaybeFile, Pcs, LoadPcs, UnloadPcs, ReloadPcs
  <2>2. UNCHANGED <<loaded, slotMap, metas, entries>>
    BY <1>3, StartKinds DEF Start, mapVars, liveVars, regVars
  <2>3. /\ DOMAIN calls' = DOMAIN calls \cup {NewFrame}
        /\ \A d \in DOMAIN calls : calls'[d] = calls[d]
        /\ calls'[NewFrame].pc \in {"fast", "dependents", "old"}
    BY <2>1 DEF Begins, Grows
  <2>4. \A d \in DOMAIN calls' : d \notin DOMAIN calls => Passive(d)'
    BY <2>3 DEF Passive, Disowned, Emptied, Filling
  <2> QED
    BY <2>2, <2>3, <2>4, EntryStays
<1>4. ASSUME NEW c, LoadDependency(c)
      PROVE  EntryInv'
  <2>1. /\ c \in DOMAIN calls /\ calls[c].pc = "deps"
        /\ Grows("load", Head(calls[c].todo), None, "fast", c)
        /\ \A d \in DOMAIN calls : d # c => calls'[d] = calls[d]
        /\ Becomes(c, "await", calls[c].file, Tail(calls[c].todo), calls[c].regs,
                   calls[c].old, calls[c].oldLib)
        /\ UNCHANGED <<mapVars, liveVars, regVars>>
    BY <1>4, LoadDependencyEffect, Zenon
  <2>2. DOMAIN calls' = DOMAIN calls \cup {NewFrame} /\ calls'[NewFrame].pc = "fast"
    BY <2>1, Zenon DEF Grows
  <2>3. calls'[c].file = calls[c].file /\ calls'[c].pc = "await"
    BY <2>1, Zenon DEF Becomes
  <2>4. UNCHANGED <<loaded, slotMap, metas, entries>>
    BY <2>1 DEF mapVars, liveVars, regVars
  <2>5. Passive(c) /\ Passive(c)' /\ \A d \in DOMAIN calls' : d \notin DOMAIN calls => Passive(d)'
    BY <2>1, <2>2, <2>3 DEF Passive, Disowned, Emptied, Filling
  <2>6. \A d \in DOMAIN calls : d # c => calls'[d] = calls[d]
    BY <2>1
  <2> HIDE <2>1
  <2> QED
    BY <2>2, <2>3, <2>4, <2>5, <2>6, EntryStays
<1>5. ASSUME NEW c, DropPrepared(c)
      PROVE  EntryInv'
  <2>1. c \in DOMAIN calls /\ calls[c].pc = "prepared"
    BY <1>5 DEF DropPrepared, At
  <2>2. Ends(c, "failed")
    BY <1>5, <2>1, RegContext DEF DropPrepared, AbandonReload, Fail, Pcs, LoadPcs
  <2>3. UNCHANGED <<loaded, slotMap>> /\ entries' \subseteq entries /\ metas' = metas \ {c}
    BY <1>5, DropShrinks DEF DropPrepared, AbandonReload, mapVars
  <2>4. /\ Only(c) /\ calls'[c].file = calls[c].file /\ calls'[c].pc = "failed"
    BY <2>2 DEF Ends, Becomes
  <2>5. Passive(c) /\ Passive(c)'
    BY <2>1, <2>4 DEF Passive, Disowned, Emptied, Filling
  <2>6. \A m \in metas : m \in metas' \/ calls[m].pc \notin Filling
    BY <2>1, <2>3 DEF Filling
  <2> QED
    BY <2>3, <2>4, <2>5, <2>6, EntryStays DEF Only
<1>6. ASSUME NEW c, Step(c) \/ CommitReload(c), ~LoadDependency(c)
      PROVE  EntryInv'
  <2>1. Alone(c)
    BY <1>0, <1>6, StepAlone, CommitAlone
  <2>2. CASE SteadyForEntries(c)
    BY <2>1, <2>2, EntrySteadySteps, EntryUnmoved
  <2>3. CASE \/ AttachOwned(c) \/ Snapshot(c) \/ PushEntries(c) \/ PushPrepared(c)
             \/ StoreLibrary(c) \/ StoreMeta(c) \/ StoreReloaded(c)
    BY <2>1, <2>3, EntryAttachOwned, EntrySnapshot, EntryPush, EntryStore
  <2>4. CASE \/ RemoveEntries(c) \/ RemoveOwned(c) \/ RemoveLibrary(c) \/ Deinit(c)
             \/ CloseOld(c) \/ RemoveOld(c)
    BY <2>1, <2>4, EntryRemoveEntries, EntryRemoveOwned, EntryRemoveLibrary, EntryDeinit,
       EntryCloseOld, EntryRemoveOld
  <2> QED
    BY <1>6, <2>2, <2>3, <2>4 DEF Step, LoadStep, UnloadStep, ReloadStep, SteadyForEntries
<1> QED
  BY <1>1, <1>2, <1>3, <1>4, <1>5, <1>6 DEF Next

\* The entries' invariant holds for clients that keep the two conditions.
LEMMA EntriesCorrect ==
  ASSUME MaxConcurrent = 1, OneOwner
  PROVE  Spec /\ []ImagesClose => []EntryInv
<1>1. Init => RegInv /\ EntryInv
  BY DEF Init, RegInv, EntryInv, SlotsOwned, SnapshotOK
<1>2. TypeInv /\ StackInv /\ ClaimsExclusive /\ DataInv /\ RegInv /\ [Next]_vars => RegInv'
  BY RegStep
<1>3. ImagesClose /\ TypeInv /\ StackInv /\ ClaimsExclusive /\ CycleInv /\ FileInv /\ DataInv
        /\ RegInv /\ EntryInv /\ [Next]_vars => EntryInv'
  BY EntryStep
<1> QED
  BY <1>1, <1>2, <1>3, TypeCorrect, StackCorrect, ClaimsAreExclusive, CyclesHeld, DataCorrect,
     FilesCorrect, PTL DEF Spec

\* With one call at a time, no two owners for a slot and no reload prepared from a file
\* that is closed, unload and reload and every error return of load remove the entries of
\* the metadata that they free, in whichever registers an extension made them: no register
\* is left with an entry that points to metadata that is gone.
THEOREM EntriesAreLive ==
  ASSUME MaxConcurrent = 1, OneOwner
  PROVE  Spec /\ []ImagesClose => []NoDanglingEntries
<1>1. EntryInv => NoDanglingEntries
  BY DEF EntryInv, EntryOK, NoDanglingEntries
<1> QED
  BY <1>1, EntriesCorrect, PTL

\* Between calls every entry is that of an extension that is loaded, and in a register
\* of the slot map.
EntriesAtRest ==
  Running = {} =>
    \A n \in entries : Seen(n) /\ \E e \in Extensions : loadedMeta[e] = n.meta

\* On the same conditions, an extension that has been unloaded or replaced has no entry
\* anywhere, and no register with entries in it is out of the slot map.
THEOREM EntriesAreOfTheLoaded ==
  ASSUME MaxConcurrent = 1, OneOwner
  PROVE  Spec /\ []ImagesClose => []EntriesAtRest
<1>1. ASSUME TypeInv, StackInv, DataInv, EntryInv
      PROVE  EntriesAtRest
  <2> SUFFICES ASSUME Running = {}, NEW n \in entries
               PROVE  Seen(n) /\ \E e \in Extensions : loadedMeta[e] = n.meta
    BY DEF EntriesAtRest
  <2>1. \A d \in DOMAIN calls : calls[d].pc \in {"ok", "failed", "prepared"}
    BY <1>1 DEF StackInv, Running, Active, Returned
  <2>2. EntryOK(n) /\ n.meta \in Nat
    BY <1>1 DEF EntryInv, TypeInv, RegTypes
  <2>3. Seen(n)
    BY <2>1, <2>2 DEF EntryOK, Detached, Disowned
  <2>4. n.meta \in DOMAIN calls /\ calls[n.meta].pc = "ok"
    BY <2>1, <2>2 DEF EntryOK, Filling
  <2>5. \A d \in DOMAIN calls : ~HoldsMeta(d) /\ (FreshMeta(d) <=> calls[d].pc = "prepared")
    BY <1>1, <2>1, IdleFrame DEF TypeInv
  <2>6. MetaOwned(n.meta)
    BY <1>1, <2>2 DEF EntryOK, DataInv, NoneAstray
  <2> QED
    BY <2>3, <2>4, <2>5, <2>6 DEF MetaOwned
<1> QED
  BY <1>1, TypeCorrect, StackCorrect, DataCorrect, EntriesCorrect, PTL

\* No call is a reload.
NoReloads == \A c \in DOMAIN calls : calls[c].op # "reload"

\* A host that never reloads has none in progress.
LEMMA NoneReloads ==
  ASSUME "reload" \notin Operations
  PROVE  Spec => []NoReloads
<1>1. Init => NoReloads
  BY DEF Init, NoReloads
<1>2. TypeInv /\ NoReloads /\ [Next]_vars => NoReloads'
  <2> SUFFICES ASSUME TypeInv, NoReloads, [Next]_vars
               PROVE  NoReloads'
    OBVIOUS
  <2>1. CASE Scan \/ (\E s \in HostSlots : AttachRegister(s)) \/ UNCHANGED vars
    BY <2>1 DEF Scan, AttachRegister, vars, NoReloads
  <2>2. ASSUME NEW e \in Extensions,
               CallLoad(e) \/ CallUnload(e) \/ (\E f \in ReloadFiles[e] : CallReload(e, f))
        PROVE  NoReloads'
    <3>1. FramesInv /\ ~\E f \in ReloadFiles[e] : CallReload(e, f)
      BY DEF TypeInv, CallReload, Start
    <3>2. Start("load", e, None, "fast") \/ Start("unload", e, None, "dependents")
      BY <2>2, <3>1 DEF CallLoad, CallUnload
    <3>3. Begins("load", e, None, "fast") \/ Begins("unload", e, None, "dependents")
      BY <3>1, <3>2, StartFrame DEF MaybeFile, Pcs, LoadPcs, UnloadPcs
    <3> QED
      BY <3>3 DEF Begins, Grows, NoReloads
  <2>3. ASSUME NEW c, LoadDependency(c)
        PROVE  NoReloads'
    <3>1. /\ Grows("load", Head(calls[c].todo), None, "fast", c)
          /\ \A d \in DOMAIN calls : d # c => calls'[d] = calls[d]
          /\ calls'[c].op = calls[c].op
      BY <2>3, LoadDependencyEffect, Zenon DEF Becomes
    <3>2. /\ DOMAIN calls' = DOMAIN calls \cup {NewFrame}
          /\ calls'[NewFrame].op = "load"
      BY <3>1, Zenon DEF Grows
    <3> QED
      BY <3>1, <3>2 DEF NoReloads
  <2>4. ASSUME NEW c, AnyStep(c), ~LoadDependency(c)
        PROVE  NoReloads'
    <3>1. Kept(c)
      BY <2>4, StepKeeps
    <3> QED
      BY <3>1 DEF Kept, Only, NoReloads
  <2> QED
    BY <2>1, <2>2, <2>3, <2>4 DEF Next, AnyStep, Step, LoadStep
<1> QED
  BY <1>1, <1>2, TypeCorrect, PTL DEF Spec

\* A host that loads and unloads and never reloads has no dangling entry, on no condition
\* but that its extensions' slots have different names.
COROLLARY EntriesAreLiveWithoutReload ==
  ASSUME MaxConcurrent = 1, OneOwner, "reload" \notin Operations
  PROVE  Spec => []NoDanglingEntries
<1>1. TypeInv /\ NoReloads => ImagesClose
  <2> SUFFICES ASSUME TypeInv, NoReloads, NEW d \in DOMAIN calls, calls[d].pc = "prepared"
               PROVE  FALSE
    BY DEF ImagesClose, At
  <2>1. FrameOK(d) /\ calls[d].op \in {"load", "unload"}
    BY FrameNumbers DEF TypeInv, FrameType, NoReloads
  <2> QED
    BY <2>1 DEF FrameOK, LoadPcs, UnloadPcs
<1> QED
  BY <1>1, TypeCorrect, NoneReloads, EntriesAreLive, PTL
-----------------------------------------------------------------------------
(***************************************************************************)
(* Images: around_deinit is called on the image of the old version when    *)
(* the new one has been initialised already.  Where both are one image,    *)
(* or another reload has it prepared, a library in use is torn down.       *)
(***************************************************************************)

\* The client commits no reload from the file that is loaded, and no file is torn down
\* while it has another reload of it prepared.
ImagesApart ==
  \A c \in DOMAIN calls : At(c, "deinit") =>
    \A d \in DOMAIN calls :
      (d = c /\ calls[c].op = "reload") \/ At(d, "prepared")
        => calls[d].file # calls[calls[c].oldLib].file

\* The library has yet to be initialised, or its image has been torn down and it is
\* about to be closed.
Uninit(m) ==
  \/ calls[m].pc \in {"init", "initNew"}
  \/ \E c \in DOMAIN calls : calls[c].pc = "close" /\ calls[c].oldLib = m

ImageInv ==
  /\ \A m \in handles : calls[m].file \in up \/ Uninit(m)
  /\ \A f \in up : MappedBy(handles, f)

\* Between calls the images that are initialised are those of the libraries in use.
ImagesInitialised == Running = {} => up = {calls[m].file : m \in handles}

\* A step of frame c that initialises no image and tears none down but with its last
\* library; a library that is to be initialised, or that was torn down, is then closed.
ImageKept(c) ==
  /\ Only(c)
  /\ calls'[c].file = calls[c].file \/ calls[c].pc = "resolve"
  /\ \/ handles' = handles /\ up' = up
     \/ handles' = handles \cup {c} /\ up' = up /\ calls'[c].pc \in {"init", "initNew"}
     \/ \E H : DropLibraries(H)
  /\ calls[c].pc \in {"init", "initNew"} => c \notin handles'
  /\ calls[c].pc = "close" => calls[c].oldLib \notin handles'

\* Such a step keeps the images' invariant.
LEMMA ImageLocal ==
  ASSUME TypeInv, FileInv, DataInv, ImageInv, NEW c, ImageKept(c)
  PROVE  ImageInv'
<1>1. /\ c \in DOMAIN calls /\ DOMAIN calls' = DOMAIN calls
      /\ \A d \in DOMAIN calls : d # c => calls'[d] = calls[d]
  BY DEF ImageKept, Only
<1>2. \A m \in handles : m \in DOMAIN calls
  BY DEF FileInv
<1>3. \A m \in handles : calls'[m].file = calls[m].file
  <2>1. calls[c].pc = "resolve" => calls[c].op # "reload"
    BY <1>1, RegContext DEF FrameOK, ReloadPcs
  <2>2. calls[c].pc = "resolve" => c \notin handles
    BY <1>1, <2>1, NothingOpened
  <2> QED
    BY <1>1, <1>2, <2>2 DEF ImageKept
<1>4. ASSUME NEW m \in handles, m \in handles', Uninit(m)
      PROVE  Uninit(m)'
  <2>1. CASE calls[m].pc \in {"init", "initNew"}
    BY <1>1, <1>2, <1>4, <2>1 DEF ImageKept, Uninit
  <2>2. CASE \E d \in DOMAIN calls : calls[d].pc = "close" /\ calls[d].oldLib = m
    BY <1>1, <1>4, <2>2 DEF ImageKept, Uninit
  <2> QED
    BY <1>4, <2>1, <2>2 DEF Uninit
<1>5. ASSUME NEW m \in handles', m \notin handles
      PROVE  Uninit(m)'
  BY <1>5 DEF ImageKept, DropLibraries, Uninit
<1>6. ASSUME NEW m \in handles, m \in handles', calls[m].file \in up
      PROVE  calls'[m].file \in up'
  BY <1>3, <1>6 DEF ImageKept, DropLibraries, MappedBy
<1>7. ASSUME NEW f \in up'
      PROVE  \E m \in handles' : calls'[m].file = f
  <2>1. \E m \in handles \cap handles' : calls[m].file = f
    BY <1>7 DEF ImageKept, DropLibraries, MappedBy, ImageInv
  <2> QED
    BY <1>3, <2>1
<1>8. ASSUME NEW m \in handles'
      PROVE  calls'[m].file \in up' \/ Uninit(m)'
  BY <1>4, <1>5, <1>6, <1>8 DEF ImageInv
<1> QED
  BY <1>7, <1>8 DEF ImageInv, MappedBy

\* Every step of a call but the start of a nested load, an initialisation and a
\* around_deinit is one.
LEMMA ImageSteps ==
  ASSUME TypeInv, NEW c, AnyStep(c), ~LoadDependency(c), ~Deinit(c),
         InitExtension(c) \/ InitNew(c) => calls'[c].pc = "failed"
  PROVE  ImageKept(c)
<1>a. ASSUME c \in DOMAIN calls
      PROVE  /\ FrameOK(c) /\ calls[c].op \in {"load", "unload", "reload"}
             /\ \A p \in Pcs : Goto(c, p) => Moves(c, p)
             /\ \A p \in Pcs : Return(c, p) => Ends(c, p)
  BY <1>a, RegContext
<1>1. CASE InitExtension(c)
  <2>1. c \in DOMAIN calls /\ Return(c, "failed") /\ DropLibraries({c})
    <3>1. ~Goto(c, "attach")
      BY <1>1, <1>a DEF InitExtension, At, Moves, Becomes, Pcs, LoadPcs, ReloadPcs
    <3> QED
      BY <1>1, <3>1 DEF InitExtension, At, FailLoad, AbandonReload, Fail
  <2>2. calls[c].pc \in {"init", "initNew"} /\ c \notin handles'
    BY <1>1, <2>1 DEF InitExtension, At, DropLibraries
  <2> QED
    BY <1>a, <2>1, <2>2 DEF ImageKept, Ends, Becomes, Pcs, LoadPcs
<1>2. CASE InitNew(c)
  <2>1. c \in DOMAIN calls /\ Return(c, "failed") /\ DropLibraries({c})
    <3>1. ~Goto(c, "prepared")
      BY <1>2, <1>a DEF InitNew, At, Moves, Becomes, Pcs, LoadPcs, ReloadPcs
    <3> QED
      BY <1>2, <3>1 DEF InitNew, At, FailLoad, AbandonReload, Fail
  <2>2. calls[c].pc \in {"init", "initNew"} /\ c \notin handles'
    BY <1>2, <2>1 DEF InitNew, At, DropLibraries
  <2> QED
    BY <1>a, <2>1, <2>2 DEF ImageKept, Ends, Becomes, Pcs, LoadPcs
<1>3. CASE FastPath(c)
  BY <1>3, <1>a
     DEF ImageKept, FastPath, At, FailLoad, Fail, AbandonReload, Moves, Ends, Becomes,
         Pcs, LoadPcs, UnloadPcs, ReloadPcs, liveVars
<1>4. CASE Claim(c)
  BY <1>4, <1>a
     DEF ImageKept, Claim, At, FailLoad, Fail, AbandonReload, Moves, Ends, Becomes,
         Pcs, LoadPcs, UnloadPcs, ReloadPcs, liveVars
<1>5. CASE Resolve(c)
  BY <1>5, <1>a, ResolveEffect
     DEF ImageKept, FailLoad, Fail, AbandonReload, Moves, Ends, Becomes,
         Pcs, LoadPcs, UnloadPcs, ReloadPcs, liveVars
<1>6. CASE CheckSlots(c)
  BY <1>6, <1>a, CheckSlotsEffect
     DEF ImageKept, FailLoad, Fail, AbandonReload, Moves, Ends, Becomes,
         Pcs, LoadPcs, UnloadPcs, ReloadPcs, liveVars
<1>7. CASE DependencyReturns(c)
  BY <1>7, <1>a
     DEF ImageKept, DependencyReturns, At, FailLoad, Fail, AbandonReload, Moves, Ends, Becomes,
         Pcs, LoadPcs, UnloadPcs, ReloadPcs, liveVars
<1>8. CASE OpenLibrary(c)
  BY <1>8, <1>a
     DEF ImageKept, OpenLibrary, At, FailLoad, Fail, AbandonReload, Moves, Ends, Becomes,
         Pcs, LoadPcs, UnloadPcs, ReloadPcs, liveVars
<1>9. CASE AttachOwned(c)
  BY <1>9, <1>a
     DEF ImageKept, AttachOwned, At, FailLoad, Fail, AbandonReload, Moves, Ends, Becomes,
         Pcs, LoadPcs, UnloadPcs, ReloadPcs, liveVars
<1>10. CASE Snapshot(c)
  BY <1>10, <1>a, SnapshotEffect
     DEF ImageKept, FailLoad, Fail, AbandonReload, Moves, Ends, Becomes,
         Pcs, LoadPcs, UnloadPcs, ReloadPcs, liveVars
<1>11. CASE PushEntries(c)
  BY <1>11, <1>a, PushEntriesEffect
     DEF ImageKept, FailLoad, Fail, AbandonReload, Moves, Ends, Becomes,
         Pcs, LoadPcs, UnloadPcs, ReloadPcs, liveVars
<1>12. CASE StoreLibrary(c)
  BY <1>12, <1>a
     DEF ImageKept, StoreLibrary, At, FailLoad, Fail, AbandonReload, Moves, Ends, Becomes,
         Pcs, LoadPcs, UnloadPcs, ReloadPcs, liveVars
<1>13. CASE StoreMeta(c)
  BY <1>13, <1>a
     DEF ImageKept, StoreMeta, At, FailLoad, Fail, AbandonReload, Moves, Ends, Becomes,
         Pcs, LoadPcs, UnloadPcs, ReloadPcs, liveVars
<1>14. CASE FinishLoad(c)
  BY <1>14, <1>a
     DEF ImageKept, FinishLoad, At, FailLoad, Fail, AbandonReload, Moves, Ends, Becomes,
         Pcs, LoadPcs, UnloadPcs, ReloadPcs, liveVars
<1>15. CASE CheckDependents(c)
  BY <1>15, <1>a
     DEF ImageKept, CheckDependents, At, FailLoad, Fail, AbandonReload, Moves, Ends, Becomes,
         Pcs, LoadPcs, UnloadPcs, ReloadPcs, liveVars
<1>16. CASE RemoveMeta(c)
  BY <1>16, <1>a, RemoveMetaEffect
     DEF ImageKept, FailLoad, Fail, AbandonReload, Moves, Ends, Becomes,
         Pcs, LoadPcs, UnloadPcs, ReloadPcs, liveVars
<1>17. CASE RemoveEntries(c)
  BY <1>17, <1>a
     DEF ImageKept, RemoveEntries, At, FailLoad, Fail, AbandonReload, Moves, Ends, Becomes,
         Pcs, LoadPcs, UnloadPcs, ReloadPcs, liveVars
<1>18. CASE RemoveOwned(c)
  BY <1>18, <1>a
     DEF ImageKept, RemoveOwned, At, FailLoad, Fail, AbandonReload, Moves, Ends, Becomes,
         Pcs, LoadPcs, UnloadPcs, ReloadPcs, liveVars
<1>19. CASE RemoveLibrary(c)
  BY <1>19, <1>a, RemoveLibraryEffect
     DEF ImageKept, FailLoad, Fail, AbandonReload, Moves, Ends, Becomes,
         Pcs, LoadPcs, UnloadPcs, ReloadPcs, liveVars
<1>20. CASE CloseOld(c)
  <2>1. c \in DOMAIN calls /\ calls[c].pc = "close" /\ DropLibraries({calls[c].oldLib})
    BY <1>20 DEF CloseOld, At
  <2>2. Return(c, "ok") \/ Goto(c, "attach")
    BY <1>20 DEF CloseOld
  <2>3. Only(c) /\ calls'[c].file = calls[c].file
    BY <1>a, <2>1, <2>2 DEF Moves, Ends, Becomes, Pcs, LoadPcs
  <2>4. calls[c].oldLib \notin handles'
    BY <2>1 DEF DropLibraries
  <2> QED
    BY <2>1, <2>3, <2>4 DEF ImageKept
<1>21. CASE FindOld(c)
  BY <1>21, <1>a, FindOldEffect
     DEF ImageKept, FailLoad, Fail, AbandonReload, Moves, Ends, Becomes,
         Pcs, LoadPcs, UnloadPcs, ReloadPcs, liveVars
<1>22. CASE PrepareReload(c)
  BY <1>22, <1>a, PrepareReloadEffect
     DEF ImageKept, FailLoad, Fail, AbandonReload, Moves, Ends, Becomes,
         Pcs, LoadPcs, UnloadPcs, ReloadPcs, liveVars
<1>23. CASE RemoveOld(c)
  <2>1. c \in DOMAIN calls /\ calls[c].pc = "removeOld" /\ Only(c)
    BY <1>23, <1>a, RemoveOldEffect DEF Fail, Ends, Pcs, LoadPcs
  <2>2. \/ /\ Becomes(c, "removeEntries", calls[c].file, calls[c].todo, calls[c].regs,
                      loadedMeta[NameOf(c)], loaded[NameOf(c)])
           /\ handles' = handles /\ up' = up
        \/ Fail(c) /\ DropLibraries({c})
    BY <1>23, RemoveOldEffect
  <2>3. calls'[c].file = calls[c].file
    BY <2>1, <2>2, <1>a DEF Fail, Ends, Becomes, Pcs, LoadPcs
  <2> QED
    BY <2>1, <2>2, <2>3 DEF ImageKept
<1>24. CASE PushPrepared(c)
  BY <1>24, <1>a, PushPreparedEffect
     DEF ImageKept, FailLoad, Fail, AbandonReload, Moves, Ends, Becomes,
         Pcs, LoadPcs, UnloadPcs, ReloadPcs, liveVars
<1>25. CASE StoreReloaded(c)
  BY <1>25, <1>a
     DEF ImageKept, StoreReloaded, At, FailLoad, Fail, AbandonReload, Moves, Ends, Becomes,
         Pcs, LoadPcs, UnloadPcs, ReloadPcs, liveVars
<1>26. CASE CommitReload(c)
  BY <1>26, <1>a
     DEF ImageKept, CommitReload, At, FailLoad, Fail, AbandonReload, Moves, Ends, Becomes,
         Pcs, LoadPcs, UnloadPcs, ReloadPcs, liveVars
<1>27. CASE DropPrepared(c)
  BY <1>27, <1>a
     DEF ImageKept, DropPrepared, At, FailLoad, Fail, AbandonReload, Moves, Ends, Becomes,
         Pcs, LoadPcs, UnloadPcs, ReloadPcs, liveVars
<1> QED
  BY <1>1, <1>2, <1>3, <1>4, <1>5, <1>6, <1>7, <1>8, <1>9, <1>10, <1>11, <1>12,
     <1>13, <1>14, <1>15, <1>16, <1>17, <1>18, <1>19, <1>20, <1>21, <1>22, <1>23, <1>24, <1>25, <1>26, <1>27
     DEF AnyStep, Step, LoadStep, UnloadStep, ReloadStep

\* A step that moves no frame that is about to initialise or close a library, opens and
\* closes none, and at most adds a frame.
LEMMA ImageStays ==
  ASSUME FileInv, ImageInv, handles' = handles, up' = up,
         DOMAIN calls \subseteq DOMAIN calls',
         \A d \in DOMAIN calls :
           \/ calls'[d] = calls[d]
           \/ calls[d].pc = "deps" /\ calls'[d].file = calls[d].file
  PROVE  ImageInv'
<1>1. \A m \in handles : m \in DOMAIN calls
  BY DEF FileInv
<1>2. \A m \in handles : calls'[m].file = calls[m].file
  BY <1>1
<1>3. ASSUME NEW m \in handles, Uninit(m)
      PROVE  Uninit(m)'
  BY <1>1, <1>3 DEF Uninit
<1> QED
  BY <1>2, <1>3 DEF ImageInv, MappedBy

\* around_init succeeds.
LEMMA ImageInit ==
  ASSUME TypeInv, FileInv, DataInv, ImageInv, NEW c, InitExtension(c) \/ InitNew(c),
         calls'[c].pc # "failed"
  PROVE  ImageInv'
<1>0. c \in DOMAIN calls /\ calls[c].pc \in {"init", "initNew"}
  BY DEF InitExtension, InitNew, At
<1>1. /\ \A p \in Pcs : Goto(c, p) => Moves(c, p)
      /\ \A p \in Pcs : Return(c, p) => Ends(c, p)
  BY <1>0, RegContext
<1>2. Moves(c, "attach") \/ Moves(c, "prepared")
  BY <1>1 DEF InitExtension, InitNew, FailLoad, AbandonReload, Fail, Ends, Becomes, Pcs, LoadPcs,
              ReloadPcs
<1>3. up' = up \cup {calls[c].file} /\ handles' = handles
  BY <1>1 DEF InitExtension, InitNew, FailLoad, AbandonReload, Fail, Ends, Becomes, Pcs, LoadPcs
<1>4. /\ DOMAIN calls' = DOMAIN calls /\ calls'[c].file = calls[c].file
      /\ \A d \in DOMAIN calls : d # c => calls'[d] = calls[d]
  BY <1>2 DEF Moves, Only, Becomes
<1>5. \A m \in handles : m \in DOMAIN calls /\ calls'[m].file = calls[m].file
  BY <1>4 DEF FileInv
<1>6. c \in handles
  <2>1. FrameOK(c) /\ c \in Nat /\ c # 0 /\ calls[c].op \in {"load", "unload", "reload"}
    BY <1>0, RegContext
  <2>2. Fresh(c)
    BY <1>0, <2>1 DEF Fresh, FrameOK, LoadPcs, UnloadPcs, ReloadPcs
  <2> QED
    BY <1>0, <2>1, <2>2 DEF DataInv, NoneAstray, HandleOwned
<1>7. ASSUME NEW m \in handles
      PROVE  calls'[m].file \in up' \/ Uninit(m)'
  <2>1. CASE m = c
    BY <1>3, <1>5, <2>1
  <2>2. CASE m # c /\ calls[m].file \in up
    BY <1>3, <1>5, <2>2
  <2>3. CASE m # c /\ Uninit(m)
    BY <1>0, <1>4, <1>5, <2>3 DEF Uninit
  <2> QED
    BY <2>1, <2>2, <2>3 DEF ImageInv
<1>8. ASSUME NEW f \in up'
      PROVE  \E m \in handles' : calls'[m].file = f
  <2>1. \E m \in handles : calls[m].file = f
    BY <1>3, <1>6, <1>8 DEF ImageInv, MappedBy
  <2> QED
    BY <1>3, <1>5, <2>1
<1> QED
  BY <1>3, <1>7, <1>8 DEF ImageInv, MappedBy

\* around_deinit: the image that it tears down is that of no library but the one that is
\* about to be closed.
LEMMA ImageDeinit ==
  ASSUME ImagesApart, TypeInv, CycleInv, FileInv, DataInv, ImageInv, NEW c, Alone(c), Deinit(c)
  PROVE  ImageInv'
<1>0. c \in DOMAIN calls /\ calls[c].pc = "deinit"
  BY DEF Deinit, At
<1>1. Moves(c, "close")
  BY <1>0, RegContext DEF Deinit, Pcs, UnloadPcs
<1>2. /\ DOMAIN calls' = DOMAIN calls
      /\ \A d \in DOMAIN calls : d # c => calls'[d] = calls[d]
      /\ calls'[c].file = calls[c].file /\ calls'[c].pc = "close"
      /\ calls'[c].oldLib = calls[c].oldLib
  BY <1>1 DEF Moves, Only, Becomes
<1>3. handles' = handles /\ up' = up \ {calls[calls[c].oldLib].file}
  BY DEF Deinit
<1>4. \A m \in handles : m \in DOMAIN calls /\ calls'[m].file = calls[m].file
  BY <1>2 DEF FileInv
<1>5. HoldsLib(c)
  <2>1. FrameOK(c) /\ calls[c].op \in {"load", "unload", "reload"}
    BY <1>0, RegContext
  <2> QED
    BY <1>0, <2>1 DEF FrameOK, LoadPcs, HoldsLib, Swapping
<1>6. ASSUME NEW m \in handles, m # calls[c].oldLib
      PROVE  calls[m].file # calls[calls[c].oldLib].file
  <2>1. CASE m = c
    <3>1. calls[c].op = "reload"
      BY <1>0, <2>1, NothingOpened
    <3> QED
      BY <1>0, <2>1, <3>1 DEF ImagesApart, At
  <2>2. CASE m # c
    <3>1. calls[m].file = calls[calls[c].oldLib].file => At(m, "prepared")
      BY <1>0, <1>5, <1>6, <2>2, OneImage
    <3> QED
      BY <1>0, <1>4, <3>1 DEF ImagesApart, At
  <2> QED
    BY <2>1, <2>2
<1>7. ASSUME NEW m \in handles
      PROVE  calls'[m].file \in up' \/ Uninit(m)'
  <2>1. CASE m = calls[c].oldLib
    BY <1>0, <1>2, <2>1 DEF Uninit
  <2>2. CASE m # calls[c].oldLib /\ calls[m].file \in up
    BY <1>3, <1>4, <1>6, <2>2
  <2>3. CASE Uninit(m)
    BY <1>0, <1>2, <1>4, <2>3 DEF Uninit
  <2> QED
    BY <2>1, <2>2, <2>3 DEF ImageInv
<1>8. ASSUME NEW f \in up'
      PROVE  \E m \in handles' : calls'[m].file = f
  BY <1>3, <1>4, <1>8 DEF ImageInv, MappedBy
<1> QED
  BY <1>3, <1>7, <1>8 DEF ImageInv, MappedBy

\* Every step keeps the images' invariant.
LEMMA ImageStep ==
  ASSUME ImagesApart, TypeInv, StackInv, CycleInv, FileInv, DataInv, ImageInv, [Next]_vars
  PROVE  ImageInv'
<1>0. FramesInv
  BY DEF TypeInv
<1>1. CASE Scan \/ (\E s \in HostSlots : AttachRegister(s)) \/ UNCHANGED vars
  <2>1. calls' = calls /\ handles' = handles /\ up' = up
    BY <1>1 DEF Scan, AttachRegister, vars, liveVars
  <2> QED
    BY <2>1, ImageStays
<1>2. ASSUME NEW e \in Extensions,
             CallLoad(e) \/ CallUnload(e) \/ (\E f \in ReloadFiles[e] : CallReload(e, f))
      PROVE  ImageInv'
  <2>1. \/ Begins("load", e, None, "fast")
        \/ Begins("unload", e, None, "dependents")
        \/ \E f \in Files : Begins("reload", e, f, "old")
    BY <1>0, <1>2, StartKinds, StartFrame DEF MaybeFile, Pcs, LoadPcs, UnloadPcs, ReloadPcs
  <2>2. handles' = handles /\ up' = up
    BY <1>2, StartKinds DEF Start, liveVars
  <2>3. DOMAIN calls \subseteq DOMAIN calls' /\ \A d \in DOMAIN calls : calls'[d] = calls[d]
    BY <2>1 DEF Begins, Grows
  <2> QED
    BY <2>2, <2>3, ImageStays
<1>3. ASSUME NEW c, LoadDependency(c)
      PROVE  ImageInv'
  <2>1. /\ c \in DOMAIN calls /\ calls[c].pc = "deps"
        /\ DOMAIN calls' = DOMAIN calls \cup {NewFrame}
        /\ \A d \in DOMAIN calls : d # c => calls'[d] = calls[d]
        /\ calls'[c].file = calls[c].file
        /\ handles' = handles /\ up' = up
    BY <1>3, LoadDependencyEffect DEF Grows, Becomes, liveVars
  <2> QED
    BY <2>1, ImageStays
<1>4. ASSUME NEW c, Deinit(c)
      PROVE  ImageInv'
  <2>1. Alone(c)
    BY <1>0, <1>4, StepAlone DEF Step, UnloadStep
  <2> QED
    BY <1>4, <2>1, ImageDeinit
<1>5. ASSUME NEW c, InitExtension(c) \/ InitNew(c), calls'[c].pc # "failed"
      PROVE  ImageInv'
  BY <1>5, ImageInit
<1>6. ASSUME NEW c, AnyStep(c), ~LoadDependency(c), ~Deinit(c),
             InitExtension(c) \/ InitNew(c) => calls'[c].pc = "failed"
      PROVE  ImageInv'
  BY <1>6, ImageSteps, ImageLocal
<1> QED
  BY <1>1, <1>2, <1>3, <1>4, <1>5, <1>6 DEF Next, AnyStep, Step, LoadStep

\* With one call at a time, a client that commits no reload from the file that is loaded
\* and leaves none prepared from a file that is torn down: an extension in use has had its
\* around_init and not its around_deinit, over every history of loads, unloads, reloads
\* and refusals, and no image is left initialised that no library is open for.
THEOREM ImagesAreInitialised ==
  ASSUME MaxConcurrent = 1
  PROVE  Spec /\ []ImagesApart => []ImagesInitialised
<1>1. Init => ImageInv
  BY DEF Init, ImageInv
<1>2. ASSUME StackInv, FileInv, ImageInv
      PROVE  ImagesInitialised
  <2> SUFFICES ASSUME Running = {}
               PROVE  up = {calls[m].file : m \in handles}
    BY DEF ImagesInitialised
  <2>1. \A d \in DOMAIN calls : calls[d].pc \in {"ok", "failed", "prepared"}
    BY <1>2 DEF StackInv, Running, Active, Returned
  <2>2. \A m \in handles : ~Uninit(m)
    BY <1>2, <2>1 DEF Uninit, FileInv
  <2> QED
    BY <1>2, <2>2 DEF ImageInv, MappedBy
<1> QED
  BY <1>1, <1>2, ImageStep, TypeCorrect, StackCorrect, CyclesHeld, DataCorrect, FilesCorrect,
     PTL DEF Spec

\* A host that never reloads needs no condition.
COROLLARY ImagesAreInitialisedWithoutReload ==
  ASSUME MaxConcurrent = 1, "reload" \notin Operations
  PROVE  Spec => []ImagesInitialised
<1>1. TypeInv /\ NoReloads => ImagesApart
  <2> SUFFICES ASSUME TypeInv, NoReloads, NEW d \in DOMAIN calls
               PROVE  calls[d].op # "reload" /\ calls[d].pc # "prepared"
    BY DEF ImagesApart, At
  <2>1. FrameOK(d) /\ calls[d].op \in {"load", "unload"}
    BY FrameNumbers DEF TypeInv, FrameType, NoReloads
  <2> QED
    BY <2>1 DEF FrameOK, LoadPcs, UnloadPcs
<1> QED
  BY <1>1, TypeCorrect, NoneReloads, ImagesAreInitialised, PTL
=============================================================================
