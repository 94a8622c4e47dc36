--------------------- MODULE ExtensionFramework_proofs ----------------------
(***************************************************************************)
(* Proofs about ExtensionFramework, for every set of extensions and files, *)
(* every dependency graph and every number of calls.                       *)
(***************************************************************************)
EXTENDS FrameworkProperties, SequenceTheorems, FiniteSetTheorems, TLAPS
-----------------------------------------------------------------------------
(***************************************************************************)
(* Types.  The program counters that a call goes through depend on its     *)
(* operation; "attach" and "push" are shared by load and commit_reload.    *)
(***************************************************************************)

LoadPcs == {"fast", "claim", "resolve", "slots", "deps", "await", "init", "attach",
            "snapshot", "push", "storeMeta", "finish", "ok", "failed"}

UnloadPcs == {"dependents", "removeMeta", "removeEntries", "removeOwned", "removeLib",
              "deinit", "close", "ok", "failed"}

ReloadPcs == {"old", "prepare", "initNew", "prepared", "dependents", "removeOld",
              "removeEntries", "removeOwned", "deinit", "close", "attach", "push",
              "ok", "failed"}

Pcs == LoadPcs \cup UnloadPcs \cup ReloadPcs

MaybeFile == Files \cup {None}

Register == [slot : Slots, file : MaybeFile]

FrameType ==
  [op : {"load", "unload", "reload"}, name : Extensions, file : MaybeFile, pc : Pcs,
   parent : Nat, todo : Seq(Extensions), regs : SUBSET Register, old : Nat, oldLib : Nat]

\* A load that has found its file.
Opening == {"slots", "deps", "await", "init", "attach", "snapshot", "push", "storeMeta", "finish"}

\* A frame's file is one that its operation takes for its name.
FileOK(c) ==
  /\ calls[c].op = "load" /\ calls[c].pc \in Opening => calls[c].file \in FilesOf[calls[c].name]
  /\ calls[c].op = "reload" => calls[c].file \in ReloadFiles[calls[c].name]

\* A frame's program counter is one of its operation, its parent is an earlier
\* frame, and only load calls itself.
FrameOK(c) ==
  /\ FileOK(c)
  /\ calls[c].op = "load" => calls[c].pc \in LoadPcs
  /\ calls[c].op = "unload" => calls[c].pc \in UnloadPcs
  /\ calls[c].op = "reload" => calls[c].pc \in ReloadPcs
  /\ calls[c].parent < c
  /\ calls[c].parent # 0 => calls[c].op = "load"

FramesInv ==
  /\ calls \in Seq(FrameType)
  /\ \A c \in DOMAIN calls : FrameOK(c)

MapTypes ==
  /\ loading \in SUBSET Extensions
  /\ index \in [Extensions -> MaybeFile]
  /\ \A e \in Extensions : index[e] \in FilesOf[e] \cup {None}
  /\ loaded \in [Extensions -> Nat]
  /\ loadedMeta \in [Extensions -> Nat]
  /\ slotMap \in [Slots -> [owner : Extensions \cup {None}, file : MaybeFile] \cup {None}]

LiveTypes ==
  /\ handles \in SUBSET Nat
  /\ metas \in SUBSET Nat
  /\ up \in SUBSET MaybeFile

RegTypes ==
  /\ entries \in SUBSET [slot : Slots, file : MaybeFile, meta : Nat]
  /\ stray \in BOOLEAN

TypeInv == FramesInv /\ MapTypes /\ LiveTypes /\ RegTypes
-----------------------------------------------------------------------------
(***************************************************************************)
(* What a step does to the frames: one frame takes new values, or one      *)
(* frame takes new values and a frame is added.                            *)
(***************************************************************************)

\* Frame c keeps its operation, its name and its parent.
Becomes(c, p, f, t, r, o, l) ==
  /\ calls'[c].op = calls[c].op
  /\ calls'[c].name = calls[c].name
  /\ calls'[c].parent = calls[c].parent
  /\ calls'[c].pc = p
  /\ calls'[c].file = f
  /\ calls'[c].todo = t
  /\ calls'[c].regs = r
  /\ calls'[c].old = o
  /\ calls'[c].oldLib = l

\* Every frame but c is as it was.
Only(c) ==
  /\ c \in DOMAIN calls
  /\ DOMAIN calls' = DOMAIN calls
  /\ \A d \in DOMAIN calls : d # c => calls'[d] = calls[d]

\* Frame c moves to p and everything else in it stays.
Moves(c, p) ==
  /\ Only(c)
  /\ Becomes(c, p, calls[c].file, calls[c].todo, calls[c].regs, calls[c].old, calls[c].oldLib)

\* Frame c returns.
Ends(c, p) ==
  /\ Only(c)
  /\ Becomes(c, p, calls[c].file, <<>>, {}, 0, 0)

\* The types of the fields that change.
FieldsOK(c) ==
  /\ calls[c].op \in {"load", "unload", "reload"}
  /\ calls[c].name \in Extensions
  /\ calls[c].parent \in Nat
  /\ calls[c].pc \in Pcs
  /\ calls[c].file \in MaybeFile
  /\ calls[c].todo \in Seq(Extensions)
  /\ calls[c].regs \in SUBSET Register
  /\ calls[c].old \in Nat
  /\ calls[c].oldLib \in Nat

\* The frame that the next call takes.
NewFrame == Len(calls) + 1

\* A frame is added at the end.
Grows(op, e, f, p, parent) ==
  /\ NewFrame \notin DOMAIN calls
  /\ \A d \in DOMAIN calls : d < NewFrame
  /\ DOMAIN calls' = DOMAIN calls \cup {NewFrame}
  /\ calls'[NewFrame].op = op
  /\ calls'[NewFrame].name = e
  /\ calls'[NewFrame].parent = parent
  /\ calls'[NewFrame].pc = p
  /\ calls'[NewFrame].file = f
  /\ calls'[NewFrame].todo = <<>>
  /\ calls'[NewFrame].regs = {}
  /\ calls'[NewFrame].old = 0
  /\ calls'[NewFrame].oldLib = 0

\* A call from outside: its frame is all that changes.
Begins(op, e, f, p) ==
  /\ Grows(op, e, f, p, 0)
  /\ \A d \in DOMAIN calls : calls'[d] = calls[d]

\* The frames are numbered from 1.
LEMMA FrameNumbers ==
  ASSUME FramesInv
  PROVE  /\ DOMAIN calls = 1..Len(calls)
         /\ Len(calls) \in Nat
         /\ \A c \in DOMAIN calls : c \in Nat /\ c # 0 /\ calls[c] \in FrameType /\ FrameOK(c)
BY DEF FramesInv

\* Where a step needs the file's metadata, the frame has found a file.
LEMMA FilesInUse ==
  ASSUME TypeInv, NEW c \in DOMAIN calls,
         calls[c].pc \in {"slots", "attach", "snapshot", "prepare"}
  PROVE  FileOf(c) \in Files
<1>1. FrameOK(c) /\ calls[c].name \in Extensions /\ calls[c].op \in {"load", "unload", "reload"}
  BY FrameNumbers DEF FrameType, TypeInv
<1>2. calls[c].op # "unload"
  BY <1>1 DEF FrameOK, UnloadPcs
<1>3. calls[c].op = "load" => calls[c].pc \in Opening
  BY <1>1 DEF FrameOK, LoadPcs, Opening
<1>4. calls[c].file \in FilesOf[calls[c].name] \cup ReloadFiles[calls[c].name]
  BY <1>1, <1>2, <1>3 DEF FrameOK, FileOK
<1> QED
  BY <1>1, <1>4, FrameworkAssumption DEF FileOf

\* A frame that is replaced by a well-formed frame leaves the others alone.
LEMMA ReplaceFrame ==
  ASSUME FramesInv, NEW c \in DOMAIN calls, NEW r \in FrameType,
         calls' = [calls EXCEPT ![c] = r]
  PROVE  /\ calls' \in Seq(FrameType)
         /\ Only(c)
         /\ calls'[c] = r
<1>1. c \in 1..Len(calls) /\ calls \in Seq(FrameType)
  BY DEF FramesInv
<1> QED
  BY <1>1, ExceptSeq DEF Only

\* Goto moves one frame.
LEMMA GotoFrame ==
  ASSUME FramesInv, NEW c \in DOMAIN calls, NEW p \in Pcs, Goto(c, p)
  PROVE  calls' \in Seq(FrameType) /\ Moves(c, p)
<1> DEFINE r == [calls[c] EXCEPT !.pc = p]
<1>1. calls[c] \in FrameType
  BY FrameNumbers
<1>2. r \in FrameType
  BY <1>1 DEF FrameType
<1>3. calls' = [calls EXCEPT ![c] = r]
  BY DEF Goto
<1>4. /\ r.op = calls[c].op /\ r.name = calls[c].name /\ r.parent = calls[c].parent
      /\ r.pc = p /\ r.file = calls[c].file /\ r.todo = calls[c].todo
      /\ r.regs = calls[c].regs /\ r.old = calls[c].old /\ r.oldLib = calls[c].oldLib
  BY <1>1 DEF FrameType
<1> HIDE DEF r
<1> QED
  BY <1>2, <1>3, <1>4, ReplaceFrame DEF Moves, Becomes

\* Return ends one frame.
LEMMA ReturnFrame ==
  ASSUME FramesInv, NEW c \in DOMAIN calls, NEW p \in Pcs, Return(c, p)
  PROVE  calls' \in Seq(FrameType) /\ Ends(c, p)
<1> DEFINE r == Frame(calls[c].op, calls[c].name, calls[c].file, p, calls[c].parent)
<1>1. calls[c] \in FrameType
  BY FrameNumbers
<1>2. r \in FrameType
  BY <1>1 DEF FrameType, Frame
<1>3. calls' = [calls EXCEPT ![c] = r]
  BY DEF Return
<1>4. /\ r.op = calls[c].op /\ r.name = calls[c].name /\ r.parent = calls[c].parent
      /\ r.pc = p /\ r.file = calls[c].file /\ r.todo = <<>>
      /\ r.regs = {} /\ r.old = 0 /\ r.oldLib = 0
  BY DEF Frame
<1> HIDE DEF r
<1> QED
  BY <1>2, <1>3, <1>4, ReplaceFrame DEF Ends, Becomes

\* A frame added to a sequence of frames.
LEMMA AddFrame ==
  ASSUME NEW s \in Seq(FrameType), NEW r \in FrameType
  PROVE  /\ Append(s, r) \in Seq(FrameType)
         /\ Len(s) + 1 \notin DOMAIN s
         /\ \A d \in DOMAIN s : d < Len(s) + 1
         /\ DOMAIN Append(s, r) = DOMAIN s \cup {Len(s) + 1}
         /\ Append(s, r)[Len(s) + 1] = r
         /\ \A d \in DOMAIN s : Append(s, r)[d] = s[d]
<1>1. /\ Append(s, r) \in Seq(FrameType)
      /\ Len(Append(s, r)) = Len(s) + 1
      /\ \A i \in 1..Len(s) : Append(s, r)[i] = s[i]
      /\ Append(s, r)[Len(s) + 1] = r
  BY AppendProperties
<1>2. DOMAIN s = 1..Len(s) /\ Len(s) \in Nat
  OBVIOUS
<1>3. DOMAIN Append(s, r) = 1..(Len(s) + 1)
  BY <1>1
<1> HIDE <1>1
<1> QED
  BY <1>1, <1>2, <1>3

\* A call from outside adds a frame.
LEMMA StartFrame ==
  ASSUME FramesInv, NEW op \in {"load", "unload", "reload"}, NEW e \in Extensions,
         NEW f \in MaybeFile, NEW p \in Pcs, Start(op, e, f, p)
  PROVE  calls' \in Seq(FrameType) /\ Begins(op, e, f, p)
<1> DEFINE r == Frame(op, e, f, p, 0)
<1>1. r \in FrameType
  BY DEF Frame, FrameType
<1>2. calls' = Append(calls, r)
  BY DEF Start
<1>3. /\ r.op = op /\ r.name = e /\ r.parent = 0 /\ r.pc = p /\ r.file = f
      /\ r.todo = <<>> /\ r.regs = {} /\ r.old = 0 /\ r.oldLib = 0
  BY DEF Frame
<1>4. calls \in Seq(FrameType)
  BY DEF FramesInv
<1> HIDE DEF r
<1> QED
  BY <1>1, <1>2, <1>3, <1>4, AddFrame DEF Begins, Grows, NewFrame

\* The frame that a step moves or ends, by the two operators that most steps use.
LEMMA FrameSteps ==
  ASSUME FramesInv, NEW c \in DOMAIN calls
  PROVE  /\ \A p \in Pcs : Goto(c, p) => calls' \in Seq(FrameType) /\ Moves(c, p)
         /\ \A p \in Pcs : Return(c, p) => calls' \in Seq(FrameType) /\ Ends(c, p)
BY GotoFrame, ReturnFrame

\* A step that also sets the file.
LEMMA FileFrame ==
  ASSUME FramesInv, NEW c \in DOMAIN calls, NEW p \in Pcs, NEW f \in MaybeFile,
         calls' = [calls EXCEPT ![c].pc = p, ![c].file = f]
  PROVE  /\ calls' \in Seq(FrameType)
         /\ Only(c)
         /\ Becomes(c, p, f, calls[c].todo, calls[c].regs, calls[c].old, calls[c].oldLib)
<1> DEFINE q == [calls[c] EXCEPT !.pc = p, !.file = f]
<1>1. calls[c] \in FrameType
  BY FrameNumbers
<1>2. q \in FrameType
  BY <1>1 DEF FrameType
<1>3. calls' = [calls EXCEPT ![c] = q]
  BY <1>1 DEF FrameType
<1>4. /\ q.op = calls[c].op /\ q.name = calls[c].name /\ q.parent = calls[c].parent
      /\ q.pc = p /\ q.file = f /\ q.todo = calls[c].todo
      /\ q.regs = calls[c].regs /\ q.old = calls[c].old /\ q.oldLib = calls[c].oldLib
  BY <1>1 DEF FrameType
<1> HIDE DEF q
<1> QED
  BY <1>2, <1>3, <1>4, ReplaceFrame DEF Becomes

\* A step that also sets the dependencies still to load.
LEMMA TodoFrame ==
  ASSUME FramesInv, NEW c \in DOMAIN calls, NEW p \in Pcs, NEW t \in Seq(Extensions),
         calls' = [calls EXCEPT ![c].pc = p, ![c].todo = t]
  PROVE  /\ calls' \in Seq(FrameType)
         /\ Only(c)
         /\ Becomes(c, p, calls[c].file, t, calls[c].regs, calls[c].old, calls[c].oldLib)
<1> DEFINE q == [calls[c] EXCEPT !.pc = p, !.todo = t]
<1>1. calls[c] \in FrameType
  BY FrameNumbers
<1>2. q \in FrameType
  BY <1>1 DEF FrameType
<1>3. calls' = [calls EXCEPT ![c] = q]
  BY <1>1 DEF FrameType
<1>4. /\ q.op = calls[c].op /\ q.name = calls[c].name /\ q.parent = calls[c].parent
      /\ q.pc = p /\ q.file = calls[c].file /\ q.todo = t
      /\ q.regs = calls[c].regs /\ q.old = calls[c].old /\ q.oldLib = calls[c].oldLib
  BY <1>1 DEF FrameType
<1> HIDE DEF q
<1> QED
  BY <1>2, <1>3, <1>4, ReplaceFrame DEF Becomes

\* A step that also sets the registers to fill.
LEMMA RegsFrame ==
  ASSUME FramesInv, NEW c \in DOMAIN calls, NEW p \in Pcs, NEW r \in SUBSET Register,
         calls' = [calls EXCEPT ![c].pc = p, ![c].regs = r]
  PROVE  /\ calls' \in Seq(FrameType)
         /\ Only(c)
         /\ Becomes(c, p, calls[c].file, calls[c].todo, r, calls[c].old, calls[c].oldLib)
<1> DEFINE q == [calls[c] EXCEPT !.pc = p, !.regs = r]
<1>1. calls[c] \in FrameType
  BY FrameNumbers
<1>2. q \in FrameType
  BY <1>1 DEF FrameType
<1>3. calls' = [calls EXCEPT ![c] = q]
  BY <1>1 DEF FrameType
<1>4. /\ q.op = calls[c].op /\ q.name = calls[c].name /\ q.parent = calls[c].parent
      /\ q.pc = p /\ q.file = calls[c].file /\ q.todo = calls[c].todo
      /\ q.regs = r /\ q.old = calls[c].old /\ q.oldLib = calls[c].oldLib
  BY <1>1 DEF FrameType
<1> HIDE DEF q
<1> QED
  BY <1>2, <1>3, <1>4, ReplaceFrame DEF Becomes

\* A step that takes a register out of those to fill.
LEMMA FilledFrame ==
  ASSUME FramesInv, NEW c \in DOMAIN calls, NEW r,
         calls' = [calls EXCEPT ![c].regs = @ \ {r}]
  PROVE  /\ calls' \in Seq(FrameType)
         /\ Only(c)
         /\ Becomes(c, calls[c].pc, calls[c].file, calls[c].todo, calls[c].regs \ {r}, calls[c].old, calls[c].oldLib)
<1> DEFINE q == [calls[c] EXCEPT !.regs = calls[c].regs \ {r}]
<1>1. calls[c] \in FrameType
  BY FrameNumbers
<1>2. q \in FrameType
  BY <1>1 DEF FrameType
<1>3. calls' = [calls EXCEPT ![c] = q]
  BY <1>1 DEF FrameType
<1>4. /\ q.op = calls[c].op /\ q.name = calls[c].name /\ q.parent = calls[c].parent
      /\ q.pc = calls[c].pc /\ q.file = calls[c].file /\ q.todo = calls[c].todo
      /\ q.regs = calls[c].regs \ {r} /\ q.old = calls[c].old /\ q.oldLib = calls[c].oldLib
  BY <1>1 DEF FrameType
<1> HIDE DEF q
<1> QED
  BY <1>2, <1>3, <1>4, ReplaceFrame DEF Becomes

\* A step that also sets the old metadata.
LEMMA OldFrame ==
  ASSUME FramesInv, NEW c \in DOMAIN calls, NEW p \in Pcs, NEW o \in Nat,
         calls' = [calls EXCEPT ![c].pc = p, ![c].old = o]
  PROVE  /\ calls' \in Seq(FrameType)
         /\ Only(c)
         /\ Becomes(c, p, calls[c].file, calls[c].todo, calls[c].regs, o, calls[c].oldLib)
<1> DEFINE q == [calls[c] EXCEPT !.pc = p, !.old = o]
<1>1. calls[c] \in FrameType
  BY FrameNumbers
<1>2. q \in FrameType
  BY <1>1 DEF FrameType
<1>3. calls' = [calls EXCEPT ![c] = q]
  BY <1>1 DEF FrameType
<1>4. /\ q.op = calls[c].op /\ q.name = calls[c].name /\ q.parent = calls[c].parent
      /\ q.pc = p /\ q.file = calls[c].file /\ q.todo = calls[c].todo
      /\ q.regs = calls[c].regs /\ q.old = o /\ q.oldLib = calls[c].oldLib
  BY <1>1 DEF FrameType
<1> HIDE DEF q
<1> QED
  BY <1>2, <1>3, <1>4, ReplaceFrame DEF Becomes

\* A step that also sets the old library.
LEMMA OldLibFrame ==
  ASSUME FramesInv, NEW c \in DOMAIN calls, NEW p \in Pcs, NEW l \in Nat,
         calls' = [calls EXCEPT ![c].pc = p, ![c].oldLib = l]
  PROVE  /\ calls' \in Seq(FrameType)
         /\ Only(c)
         /\ Becomes(c, p, calls[c].file, calls[c].todo, calls[c].regs, calls[c].old, l)
<1> DEFINE q == [calls[c] EXCEPT !.pc = p, !.oldLib = l]
<1>1. calls[c] \in FrameType
  BY FrameNumbers
<1>2. q \in FrameType
  BY <1>1 DEF FrameType
<1>3. calls' = [calls EXCEPT ![c] = q]
  BY <1>1 DEF FrameType
<1>4. /\ q.op = calls[c].op /\ q.name = calls[c].name /\ q.parent = calls[c].parent
      /\ q.pc = p /\ q.file = calls[c].file /\ q.todo = calls[c].todo
      /\ q.regs = calls[c].regs /\ q.old = calls[c].old /\ q.oldLib = l
  BY <1>1 DEF FrameType
<1> HIDE DEF q
<1> QED
  BY <1>2, <1>3, <1>4, ReplaceFrame DEF Becomes

\* A step that also sets the old metadata and the old library.
LEMMA OldBothFrame ==
  ASSUME FramesInv, NEW c \in DOMAIN calls, NEW p \in Pcs, NEW o \in Nat, NEW l \in Nat,
         calls' = [calls EXCEPT ![c].pc = p, ![c].old = o, ![c].oldLib = l]
  PROVE  /\ calls' \in Seq(FrameType)
         /\ Only(c)
         /\ Becomes(c, p, calls[c].file, calls[c].todo, calls[c].regs, o, l)
<1> DEFINE q == [calls[c] EXCEPT !.pc = p, !.old = o, !.oldLib = l]
<1>1. calls[c] \in FrameType
  BY FrameNumbers
<1>2. q \in FrameType
  BY <1>1 DEF FrameType
<1>3. calls' = [calls EXCEPT ![c] = q]
  BY <1>1 DEF FrameType
<1>4. /\ q.op = calls[c].op /\ q.name = calls[c].name /\ q.parent = calls[c].parent
      /\ q.pc = p /\ q.file = calls[c].file /\ q.todo = calls[c].todo
      /\ q.regs = calls[c].regs /\ q.old = o /\ q.oldLib = l
  BY <1>1 DEF FrameType
<1> HIDE DEF q
<1> QED
  BY <1>2, <1>3, <1>4, ReplaceFrame, ZenonT(60) DEF Becomes

-----------------------------------------------------------------------------
(***************************************************************************)
(* The steps that change more of a frame than its program counter.         *)
(***************************************************************************)

\* The files that resolve chooses from.
KnownFiles(e) == IF index[e] # None THEN {index[e]} ELSE FilesOf[e]

\* What resolving a name does.
LEMMA ResolveEffect ==
  ASSUME TypeInv, NEW c, Resolve(c)
  PROVE  /\ c \in DOMAIN calls
         /\ calls[c].pc = "resolve"
         /\ \/ FailLoad(c) /\ index' = index
            \/ \E f \in KnownFiles(NameOf(c)) :
                 /\ index' = [index EXCEPT ![NameOf(c)] = f]
                 /\ \/ FailLoad(c)
                    \/ /\ loading' = loading
                       /\ calls' \in Seq(FrameType)
                       /\ Only(c)
                       /\ Becomes(c, "slots", f, calls[c].todo, calls[c].regs, calls[c].old,
                                  calls[c].oldLib)
         /\ UNCHANGED <<loaded, loadedMeta, slotMap, liveVars, regVars>>
<1>1. FramesInv /\ c \in DOMAIN calls /\ calls[c].pc = "resolve"
  BY DEF Resolve, At, TypeInv
<1>2. calls[c].name \in Extensions
  BY <1>1, FrameNumbers DEF FrameType
<1>3. ASSUME NEW f \in KnownFiles(NameOf(c)),
             calls' = [calls EXCEPT ![c].pc = "slots", ![c].file = f]
      PROVE  /\ calls' \in Seq(FrameType)
             /\ Only(c)
             /\ Becomes(c, "slots", f, calls[c].todo, calls[c].regs, calls[c].old, calls[c].oldLib)
  <2>1. f \in MaybeFile /\ "slots" \in Pcs
    BY <1>2, FrameworkAssumption
       DEF TypeInv, MapTypes, MaybeFile, KnownFiles, NameOf, Pcs, LoadPcs
  <2> QED
    BY <1>1, <1>3, <2>1, FileFrame
<1> QED
  BY <1>1, <1>3 DEF Resolve, KnownFiles, NameOf

\* What checking the slots does.
LEMMA CheckSlotsEffect ==
  ASSUME TypeInv, NEW c, CheckSlots(c)
  PROVE  /\ c \in DOMAIN calls
         /\ calls[c].pc = "slots"
         /\ \/ FailLoad(c)
            \/ /\ loading' = loading
               /\ calls' \in Seq(FrameType)
               /\ Only(c)
               /\ Becomes(c, "deps", calls[c].file, DependsOn[FileOf(c)], calls[c].regs,
                          calls[c].old, calls[c].oldLib)
         /\ UNCHANGED <<index, loaded, loadedMeta, slotMap, liveVars, regVars>>
<1>1. FramesInv /\ c \in DOMAIN calls /\ calls[c].pc = "slots"
  BY DEF CheckSlots, At, TypeInv
<1>2. FileOf(c) \in Files
  BY <1>1, FilesInUse
<1>3. DependsOn[FileOf(c)] \in Seq(Extensions) /\ "deps" \in Pcs
  BY <1>2, FrameworkAssumption DEF Pcs, LoadPcs
<1>4. calls' = [calls EXCEPT ![c].pc = "deps", ![c].todo = DependsOn[FileOf(c)]]
        => /\ calls' \in Seq(FrameType)
           /\ Only(c)
           /\ Becomes(c, "deps", calls[c].file, DependsOn[FileOf(c)], calls[c].regs,
                      calls[c].old, calls[c].oldLib)
  BY <1>1, <1>3, TodoFrame
<1> QED
  BY <1>1, <1>4 DEF CheckSlots

\* What starting to load a dependency does: the frame waits, and a frame for the
\* dependency is added.
LEMMA LoadDependencyEffect ==
  ASSUME TypeInv, NEW c, LoadDependency(c)
  PROVE  /\ c \in DOMAIN calls
         /\ calls[c].pc = "deps"
         /\ calls[c].todo # <<>>
         /\ calls' \in Seq(FrameType)
         /\ Grows("load", Head(calls[c].todo), None, "fast", c)
         /\ \A d \in DOMAIN calls : d # c => calls'[d] = calls[d]
         /\ Becomes(c, "await", calls[c].file, Tail(calls[c].todo), calls[c].regs,
                    calls[c].old, calls[c].oldLib)
         /\ UNCHANGED <<mapVars, liveVars, regVars>>
<1>1. FramesInv /\ c \in DOMAIN calls /\ calls[c].pc = "deps" /\ calls[c].todo # <<>>
  BY DEF LoadDependency, At, TypeInv
<1>2. /\ calls \in Seq(FrameType)
      /\ c \in 1..Len(calls)
      /\ calls[c] \in FrameType
      /\ c \in Nat
      /\ calls[c].todo \in Seq(Extensions)
  BY <1>1, FrameNumbers DEF FramesInv, FrameType
<1>3. Tail(calls[c].todo) \in Seq(Extensions) /\ Head(calls[c].todo) \in Extensions
  BY <1>1, <1>2
<1> DEFINE q == [calls[c] EXCEPT !.pc = "await", !.todo = Tail(calls[c].todo)]
           s == [calls EXCEPT ![c] = q]
           r == Frame("load", Head(calls[c].todo), None, "fast", c)
<1>4. q \in FrameType
  BY <1>2, <1>3 DEF FrameType, Pcs, LoadPcs
<1>5. /\ q.op = calls[c].op /\ q.name = calls[c].name /\ q.parent = calls[c].parent
      /\ q.pc = "await" /\ q.file = calls[c].file /\ q.todo = Tail(calls[c].todo)
      /\ q.regs = calls[c].regs /\ q.old = calls[c].old /\ q.oldLib = calls[c].oldLib
  BY <1>2 DEF FrameType
<1>6. r \in FrameType
  BY <1>2, <1>3 DEF Frame, FrameType, Pcs, LoadPcs, MaybeFile
<1>7. /\ r.op = "load" /\ r.name = Head(calls[c].todo) /\ r.parent = c /\ r.pc = "fast"
      /\ r.file = None /\ r.todo = <<>> /\ r.regs = {} /\ r.old = 0 /\ r.oldLib = 0
  BY DEF Frame
<1>8. calls' = Append(s, r) /\ UNCHANGED <<mapVars, liveVars, regVars>>
  BY <1>2 DEF LoadDependency, FrameType
<1> HIDE DEF q, r
<1>9. /\ s \in Seq(FrameType)
      /\ Len(s) = Len(calls)
      /\ \A d \in 1..Len(calls) : s[d] = IF d = c THEN q ELSE calls[d]
  BY <1>2, <1>4, ExceptSeq
<1>10. DOMAIN s = DOMAIN calls /\ DOMAIN calls = 1..Len(calls)
  BY <1>2
<1> HIDE DEF s
<1>11. Grows("load", Head(calls[c].todo), None, "fast", c)
  BY <1>6, <1>7, <1>8, <1>9, <1>10, AddFrame DEF Grows, NewFrame
<1>12. calls' \in Seq(FrameType) /\ \A d \in DOMAIN calls : calls'[d] = s[d]
  BY <1>6, <1>8, <1>9, <1>10, AddFrame
<1> QED
  BY <1>1, <1>2, <1>5, <1>8, <1>9, <1>10, <1>11, <1>12 DEF Becomes

\* The registers of others are registers of the slot map.
LEMMA OthersRegistersType ==
  ASSUME TypeInv, NEW c \in DOMAIN calls, FileOf(c) \in Files
  PROVE  OthersRegisters(c) \in SUBSET Register
<1>2. Provides[FileOf(c)] \subseteq Slots
  BY FrameworkAssumption
<1>3. \A t \in Slots : slotMap[t] # None => slotMap[t].file \in MaybeFile
  BY DEF TypeInv, MapTypes
<1> QED
  BY <1>2, <1>3 DEF OthersRegisters, Register

\* What taking the snapshot of the registers does.
LEMMA SnapshotEffect ==
  ASSUME TypeInv, NEW c, Snapshot(c)
  PROVE  /\ c \in DOMAIN calls
         /\ calls[c].pc = "snapshot"
         /\ calls' \in Seq(FrameType)
         /\ Only(c)
         /\ Becomes(c, "push", calls[c].file, calls[c].todo, OthersRegisters(c),
                    calls[c].old, calls[c].oldLib)
         /\ UNCHANGED <<mapVars, liveVars, regVars>>
<1>1. FramesInv /\ c \in DOMAIN calls /\ calls[c].pc = "snapshot"
  BY DEF Snapshot, At, TypeInv
<1>2. OthersRegisters(c) \in SUBSET Register /\ "push" \in Pcs
  BY <1>1, FilesInUse, OthersRegistersType DEF Pcs, LoadPcs
<1>3. /\ calls' = [calls EXCEPT ![c].pc = "push", ![c].regs = OthersRegisters(c)]
      /\ UNCHANGED <<mapVars, liveVars, regVars>>
  BY DEF Snapshot
<1> HIDE DEF OthersRegisters
<1> QED
  BY <1>1, <1>2, <1>3, RegsFrame

\* What filling a register of the snapshot does.
LEMMA PushEntriesEffect ==
  ASSUME TypeInv, NEW c, PushEntries(c)
  PROVE  /\ c \in DOMAIN calls
         /\ calls[c].pc = "push"
         /\ calls[c].op = "load"
         /\ \E r \in calls[c].regs :
              /\ calls' \in Seq(FrameType)
              /\ Only(c)
              /\ Becomes(c, calls[c].pc, calls[c].file, calls[c].todo, calls[c].regs \ {r},
                         calls[c].old, calls[c].oldLib)
              /\ \/ entries' = entries
                 \/ entries' = entries \cup {Entry(c, r.slot, r.file)}
              /\ stray' = (stray \/ ~(r.file = None \/ MappedBy(handles, r.file)))
         /\ UNCHANGED <<mapVars, liveVars>>
<1>1. FramesInv /\ c \in DOMAIN calls /\ calls[c].pc = "push" /\ calls[c].op = "load"
  BY DEF PushEntries, At, TypeInv
<1>2. PICK r \in calls[c].regs :
        /\ calls' = [calls EXCEPT ![c].regs = @ \ {r}]
        /\ entries' = IF r.file = None \/ MappedBy(handles, r.file)
                      THEN entries \cup {Entry(c, r.slot, r.file)} ELSE entries
        /\ stray' = (stray \/ ~(r.file = None \/ MappedBy(handles, r.file)))
  BY DEF PushEntries
<1>3. /\ calls' \in Seq(FrameType)
      /\ Only(c)
      /\ Becomes(c, calls[c].pc, calls[c].file, calls[c].todo, calls[c].regs \ {r},
                 calls[c].old, calls[c].oldLib)
  BY <1>1, <1>2, FilledFrame
<1>4. entries' = entries \/ entries' = entries \cup {Entry(c, r.slot, r.file)}
  BY <1>2
<1>5. UNCHANGED <<mapVars, liveVars>>
  BY DEF PushEntries
<1> QED
  BY <1>1, <1>2, <1>3, <1>4, <1>5

\* What taking the metadata out of its map does.
LEMMA RemoveMetaEffect ==
  ASSUME TypeInv, NEW c, RemoveMeta(c)
  PROVE  /\ c \in DOMAIN calls
         /\ calls[c].pc = "removeMeta"
         /\ \/ loadedMeta[NameOf(c)] = 0 /\ Fail(c) /\ loadedMeta' = loadedMeta
            \/ /\ loadedMeta[NameOf(c)] # 0
               /\ loadedMeta' = [loadedMeta EXCEPT ![NameOf(c)] = 0]
               /\ calls' \in Seq(FrameType)
               /\ Only(c)
               /\ Becomes(c, "removeEntries", calls[c].file, calls[c].todo, calls[c].regs,
                          loadedMeta[NameOf(c)], calls[c].oldLib)
         /\ UNCHANGED <<loading, index, loaded, slotMap, liveVars, regVars>>
<1>1. FramesInv /\ c \in DOMAIN calls /\ calls[c].pc = "removeMeta"
  BY DEF RemoveMeta, At, TypeInv
<1>2. calls[c].name \in Extensions
  BY <1>1, FrameNumbers DEF FrameType
<1>3. loadedMeta[NameOf(c)] \in Nat /\ "removeEntries" \in Pcs
  BY <1>2 DEF NameOf, Pcs, UnloadPcs, TypeInv, MapTypes
<1>4. calls' = [calls EXCEPT ![c].pc = "removeEntries", ![c].old = loadedMeta[NameOf(c)]]
        => /\ calls' \in Seq(FrameType)
           /\ Only(c)
           /\ Becomes(c, "removeEntries", calls[c].file, calls[c].todo, calls[c].regs,
                      loadedMeta[NameOf(c)], calls[c].oldLib)
  BY <1>1, <1>3, OldFrame
<1> QED
  BY <1>1, <1>4 DEF RemoveMeta

\* What taking the library out of its map does.
LEMMA RemoveLibraryEffect ==
  ASSUME TypeInv, NEW c, RemoveLibrary(c)
  PROVE  /\ c \in DOMAIN calls
         /\ calls[c].pc = "removeLib"
         /\ \/ /\ loaded[NameOf(c)] = 0
               /\ Fail(c)
               /\ metas' = metas \ {calls[c].old}
               /\ loaded' = loaded
            \/ /\ loaded[NameOf(c)] # 0
               /\ loaded' = [loaded EXCEPT ![NameOf(c)] = 0]
               /\ metas' = metas
               /\ calls' \in Seq(FrameType)
               /\ Only(c)
               /\ Becomes(c, "deinit", calls[c].file, calls[c].todo, calls[c].regs,
                          calls[c].old, loaded[NameOf(c)])
         /\ UNCHANGED <<loading, index, loadedMeta, slotMap, handles, up, regVars>>
<1>1. FramesInv /\ c \in DOMAIN calls /\ calls[c].pc = "removeLib"
  BY DEF RemoveLibrary, At, TypeInv
<1>2. calls[c].name \in Extensions
  BY <1>1, FrameNumbers DEF FrameType
<1>3. loaded[NameOf(c)] \in Nat /\ "deinit" \in Pcs
  BY <1>2 DEF NameOf, Pcs, UnloadPcs, TypeInv, MapTypes
<1>4. calls' = [calls EXCEPT ![c].pc = "deinit", ![c].oldLib = loaded[NameOf(c)]]
        => /\ calls' \in Seq(FrameType)
           /\ Only(c)
           /\ Becomes(c, "deinit", calls[c].file, calls[c].todo, calls[c].regs,
                      calls[c].old, loaded[NameOf(c)])
  BY <1>1, <1>3, OldLibFrame
<1> QED
  BY <1>1, <1>4 DEF RemoveLibrary

\* What looking for the old version does.
LEMMA FindOldEffect ==
  ASSUME TypeInv, NEW c, FindOld(c)
  PROVE  /\ c \in DOMAIN calls
         /\ calls[c].pc = "old"
         /\ calls' \in Seq(FrameType)
         /\ Only(c)
         /\ Becomes(c, IF loadedMeta[NameOf(c)] = 0 THEN "failed" ELSE "prepare", calls[c].file,
                    calls[c].todo, calls[c].regs, loadedMeta[NameOf(c)], calls[c].oldLib)
         /\ UNCHANGED <<mapVars, liveVars, regVars>>
<1>1. FramesInv /\ c \in DOMAIN calls /\ calls[c].pc = "old"
  BY DEF FindOld, At, TypeInv
<1>2. calls[c].name \in Extensions
  BY <1>1, FrameNumbers DEF FrameType
<1> DEFINE m == loadedMeta[NameOf(c)]
           p == IF m = 0 THEN "failed" ELSE "prepare"
<1>3. m \in Nat /\ p \in Pcs
  BY <1>2 DEF NameOf, Pcs, ReloadPcs, TypeInv, MapTypes
<1>4. /\ calls' = [calls EXCEPT ![c].pc = p, ![c].old = m]
      /\ UNCHANGED <<mapVars, liveVars, regVars>>
  BY DEF FindOld
<1> HIDE DEF m, p
<1>5. calls' \in Seq(FrameType) /\ Only(c)
      /\ Becomes(c, p, calls[c].file, calls[c].todo, calls[c].regs, m, calls[c].oldLib)
  BY <1>1, <1>3, <1>4, OldFrame
<1> QED
  BY <1>1, <1>4, <1>5 DEF m, p

\* What opening the new version does.
LEMMA PrepareReloadEffect ==
  ASSUME TypeInv, NEW c, PrepareReload(c)
  PROVE  /\ c \in DOMAIN calls
         /\ calls[c].pc = "prepare"
         /\ \/ /\ handles' = handles \cup {c}
               /\ metas' = metas \cup {c}
               /\ calls' \in Seq(FrameType)
               /\ Only(c)
               /\ Becomes(c, "initNew", calls[c].file, calls[c].todo, OthersRegisters(c),
                          calls[c].old, calls[c].oldLib)
            \/ Fail(c) /\ handles' = handles /\ metas' = metas
         /\ UNCHANGED <<mapVars, up, regVars>>
<1>1. FramesInv /\ c \in DOMAIN calls /\ calls[c].pc = "prepare"
  BY DEF PrepareReload, At, TypeInv
<1>2. OthersRegisters(c) \in SUBSET Register /\ "initNew" \in Pcs
  BY <1>1, FilesInUse, OthersRegistersType DEF Pcs, ReloadPcs
<1>3. calls' = [calls EXCEPT ![c].pc = "initNew", ![c].regs = OthersRegisters(c)]
        => /\ calls' \in Seq(FrameType)
           /\ Only(c)
           /\ Becomes(c, "initNew", calls[c].file, calls[c].todo, OthersRegisters(c),
                      calls[c].old, calls[c].oldLib)
  BY <1>1, <1>2, RegsFrame
<1> QED
  BY <1>1, <1>3 DEF PrepareReload

\* What taking the old version out of both maps does.
LEMMA RemoveOldEffect ==
  ASSUME TypeInv, NEW c, RemoveOld(c)
  PROVE  /\ c \in DOMAIN calls
         /\ calls[c].pc = "removeOld"
         /\ loadedMeta' = [loadedMeta EXCEPT ![NameOf(c)] = 0]
         /\ \/ /\ loadedMeta[NameOf(c)] # 0 /\ loaded[NameOf(c)] # 0
               /\ loaded' = [loaded EXCEPT ![NameOf(c)] = 0]
               /\ calls' \in Seq(FrameType)
               /\ Only(c)
               /\ Becomes(c, "removeEntries", calls[c].file, calls[c].todo, calls[c].regs,
                          loadedMeta[NameOf(c)], loaded[NameOf(c)])
               /\ UNCHANGED <<handles, metas, up, entries>>
            \/ /\ loadedMeta[NameOf(c)] = 0 \/ loaded[NameOf(c)] = 0
               /\ Fail(c)
               /\ DropLibraries({c})
               /\ metas' = metas \ {c, loadedMeta[NameOf(c)]}
               /\ loaded' = loaded
         /\ UNCHANGED <<loading, index, slotMap, stray>>
<1>1. FramesInv /\ c \in DOMAIN calls /\ calls[c].pc = "removeOld"
  BY DEF RemoveOld, At, TypeInv
<1>2. calls[c].name \in Extensions
  BY <1>1, FrameNumbers DEF FrameType
<1>3. loaded[NameOf(c)] \in Nat /\ loadedMeta[NameOf(c)] \in Nat /\ "removeEntries" \in Pcs
  BY <1>2 DEF NameOf, Pcs, UnloadPcs, TypeInv, MapTypes
<1>4. calls' = [calls EXCEPT ![c].pc = "removeEntries", ![c].old = loadedMeta[NameOf(c)],
                             ![c].oldLib = loaded[NameOf(c)]]
        => /\ calls' \in Seq(FrameType)
           /\ Only(c)
           /\ Becomes(c, "removeEntries", calls[c].file, calls[c].todo, calls[c].regs,
                      loadedMeta[NameOf(c)], loaded[NameOf(c)])
  BY <1>1, <1>3, OldBothFrame
<1> QED
  BY <1>1, <1>4 DEF RemoveOld

\* What handing a prepared entry over does.
LEMMA PushPreparedEffect ==
  ASSUME TypeInv, NEW c, PushPrepared(c)
  PROVE  /\ c \in DOMAIN calls
         /\ calls[c].pc = "push"
         /\ calls[c].op = "reload"
         /\ \E r \in calls[c].regs :
              /\ calls' \in Seq(FrameType)
              /\ Only(c)
              /\ Becomes(c, calls[c].pc, calls[c].file, calls[c].todo, calls[c].regs \ {r},
                         calls[c].old, calls[c].oldLib)
              /\ entries' = IF slotMap[r.slot] = None THEN entries
                            ELSE entries \cup {Entry(c, r.slot, slotMap[r.slot].file)}
         /\ UNCHANGED <<mapVars, liveVars, stray>>
<1>1. FramesInv /\ c \in DOMAIN calls /\ calls[c].pc = "push" /\ calls[c].op = "reload"
  BY DEF PushPrepared, At, TypeInv
<1>2. PICK r \in calls[c].regs :
        /\ calls' = [calls EXCEPT ![c].regs = @ \ {r}]
        /\ entries' = IF slotMap[r.slot] = None THEN entries
                      ELSE entries \cup {Entry(c, r.slot, slotMap[r.slot].file)}
  BY DEF PushPrepared
<1>3. /\ calls' \in Seq(FrameType)
      /\ Only(c)
      /\ Becomes(c, calls[c].pc, calls[c].file, calls[c].todo, calls[c].regs \ {r},
                 calls[c].old, calls[c].oldLib)
  BY <1>1, <1>2, FilledFrame
<1>4. UNCHANGED <<mapVars, liveVars, stray>>
  BY DEF PushPrepared
<1> QED
  BY <1>1, <1>2, <1>3, <1>4
-----------------------------------------------------------------------------
(***************************************************************************)
(* Type correctness.                                                       *)
(***************************************************************************)

\* One frame moved to a program counter of its operation: the frames stay well
\* formed.
LEMMA FramesKept ==
  ASSUME FramesInv, NEW c, calls' \in Seq(FrameType), Only(c),
         calls'[c].op = calls[c].op, calls'[c].parent = calls[c].parent,
         calls[c].op = "load" => calls'[c].pc \in LoadPcs,
         calls[c].op = "unload" => calls'[c].pc \in UnloadPcs,
         calls[c].op = "reload" => calls'[c].pc \in ReloadPcs,
         FileOK(c)'
  PROVE  FramesInv'
<1> SUFFICES ASSUME NEW d \in DOMAIN calls'
             PROVE  FrameOK(d)'
  BY DEF FramesInv
<1>1. d \in DOMAIN calls /\ c \in DOMAIN calls
  BY DEF Only
<1>2. FrameOK(d) /\ FrameOK(c)
  BY <1>1, FrameNumbers
<1>3. CASE d = c
  BY <1>2, <1>3 DEF FrameOK
<1>4. CASE d # c
  BY <1>1, <1>2, <1>4 DEF FrameOK, FileOK, Only
<1> QED
  BY <1>3, <1>4

\* A call from outside leaves the frames well formed.
LEMMA StartKept ==
  ASSUME FramesInv, NEW op \in {"load", "unload", "reload"}, NEW e \in Extensions,
         NEW f \in MaybeFile, NEW p \in Pcs, Start(op, e, f, p),
         op = "load" => p \in LoadPcs, op = "unload" => p \in UnloadPcs,
         op = "reload" => p \in ReloadPcs /\ f \in ReloadFiles[e],
         p \notin Opening
  PROVE  FramesInv'
<1>1. calls' \in Seq(FrameType) /\ Begins(op, e, f, p)
  BY StartFrame
<1> SUFFICES ASSUME NEW d \in DOMAIN calls'
             PROVE  FrameOK(d)'
  BY <1>1 DEF FramesInv
<1>2. NewFrame \in Nat /\ NewFrame > 0
  BY FrameNumbers DEF NewFrame
<1>3. CASE d = NewFrame
  BY <1>1, <1>2, <1>3 DEF Begins, Grows, FrameOK, FileOK
<1>4. CASE d # NewFrame
  <2>1. d \in DOMAIN calls /\ calls'[d] = calls[d]
    BY <1>1, <1>4 DEF Begins, Grows
  <2> QED
    BY <2>1, FrameNumbers DEF FrameOK, FileOK
<1> QED
  BY <1>3, <1>4

\* Loading a dependency leaves the frames well formed.
LEMMA DependencyKept ==
  ASSUME TypeInv, NEW c, LoadDependency(c)
  PROVE  FramesInv'
<1>1. /\ c \in DOMAIN calls
      /\ calls[c].pc = "deps"
      /\ calls' \in Seq(FrameType)
      /\ Grows("load", Head(calls[c].todo), None, "fast", c)
      /\ \A d \in DOMAIN calls : d # c => calls'[d] = calls[d]
      /\ calls'[c].op = calls[c].op /\ calls'[c].parent = calls[c].parent
      /\ calls'[c].name = calls[c].name /\ calls'[c].file = calls[c].file
      /\ calls'[c].pc = "await"
  BY LoadDependencyEffect DEF Becomes
<1>2. FramesInv
  BY DEF TypeInv
<1>3. NewFrame \in Nat /\ c \in Nat /\ c < NewFrame
  BY <1>1, <1>2, FrameNumbers DEF NewFrame, Grows
<1>4. FrameOK(c) /\ calls[c] \in FrameType
  BY <1>1, <1>2, FrameNumbers
<1>5. calls[c].op = "load"
  BY <1>1, <1>4 DEF FrameOK, FrameType, UnloadPcs, ReloadPcs
<1> SUFFICES ASSUME NEW d \in DOMAIN calls'
             PROVE  FrameOK(d)'
  BY <1>1 DEF FramesInv
<1>6. CASE d = NewFrame
  BY <1>1, <1>3, <1>6 DEF Grows, FrameOK, FileOK, LoadPcs, Opening
<1>7. CASE d = c
  BY <1>1, <1>4, <1>5, <1>7 DEF FrameOK, FileOK, LoadPcs, Opening
<1>8. CASE d # NewFrame /\ d # c
  <2>1. d \in DOMAIN calls /\ calls'[d] = calls[d]
    BY <1>1, <1>8 DEF Grows
  <2> QED
    BY <2>1, <1>2, FrameNumbers DEF FrameOK, FileOK
<1> QED
  BY <1>6, <1>7, <1>8

\* The steps of a call.
AnyStep(c) == Step(c) \/ CommitReload(c) \/ DropPrepared(c)

\* One frame moves to a program counter of its operation, and keeps the rest of what
\* it is.  Only resolve finds it a file, and only the ends of a commit make it a
\* reload that replaces.
Kept(c) ==
  /\ calls' \in Seq(FrameType)
  /\ Only(c)
  /\ calls'[c].op = calls[c].op
  /\ calls'[c].name = calls[c].name
  /\ calls'[c].parent = calls[c].parent
  /\ calls[c].op = "load" => calls'[c].pc \in LoadPcs
  /\ calls[c].op = "unload" => calls'[c].pc \in UnloadPcs
  /\ calls[c].op = "reload" => calls'[c].pc \in ReloadPcs
  /\ ~Resolve(c) => calls'[c].file = calls[c].file
  /\ calls[c].op = "load" /\ calls'[c].pc \in Opening => calls[c].pc \in Opening \/ Resolve(c)
  /\ ~RemoveOld(c) /\ ~StoreReloaded(c) => (Replacing(c)' <=> Replacing(c))

\* Every step of a call but the start of a nested load moves its frame only.
LEMMA StepKeeps ==
  ASSUME TypeInv, NEW c, AnyStep(c), ~LoadDependency(c)
  PROVE  Kept(c)
<1>0. FramesInv
  BY DEF TypeInv
<1>a. ASSUME c \in DOMAIN calls
      PROVE  FrameOK(c) /\ calls[c].op \in {"load", "unload", "reload"}
  BY <1>0, <1>a, FrameNumbers DEF FrameType
<1>b. ASSUME c \in DOMAIN calls
      PROVE  /\ \A p \in Pcs : Goto(c, p) => calls' \in Seq(FrameType) /\ Moves(c, p)
             /\ \A p \in Pcs : Return(c, p) => calls' \in Seq(FrameType) /\ Ends(c, p)
  BY <1>0, <1>b, FrameSteps
<1>1. CASE FastPath(c)
  BY <1>1, <1>a, <1>b
     DEF Kept, Opening, Replacing, FastPath, At, FailLoad, Fail, AbandonReload, Moves, Ends, Becomes, FrameOK, Returned,
         Pcs, LoadPcs, UnloadPcs, ReloadPcs
<1>2. CASE Claim(c)
  BY <1>2, <1>a, <1>b
     DEF Kept, Opening, Replacing, Claim, At, FailLoad, Fail, AbandonReload, Moves, Ends, Becomes, FrameOK, Returned,
         Pcs, LoadPcs, UnloadPcs, ReloadPcs
<1>3. CASE Resolve(c)
  BY <1>3, <1>a, <1>b, ResolveEffect
     DEF Kept, Opening, Replacing, FailLoad, Fail, Moves, Ends, Becomes, FrameOK, Pcs, LoadPcs, UnloadPcs, ReloadPcs
<1>4. CASE CheckSlots(c)
  BY <1>4, <1>a, <1>b, CheckSlotsEffect
     DEF Kept, Opening, Replacing, FailLoad, Fail, Moves, Ends, Becomes, FrameOK, Pcs, LoadPcs, UnloadPcs, ReloadPcs
<1>6. CASE DependencyReturns(c)
  BY <1>6, <1>a, <1>b
     DEF Kept, Opening, Replacing, DependencyReturns, At, FailLoad, Fail, AbandonReload, Moves, Ends, Becomes, FrameOK, Returned,
         Pcs, LoadPcs, UnloadPcs, ReloadPcs
<1>7. CASE OpenLibrary(c)
  BY <1>7, <1>a, <1>b
     DEF Kept, Opening, Replacing, OpenLibrary, At, FailLoad, Fail, AbandonReload, Moves, Ends, Becomes, FrameOK, Returned,
         Pcs, LoadPcs, UnloadPcs, ReloadPcs
<1>8. CASE InitExtension(c)
  BY <1>8, <1>a, <1>b
     DEF Kept, Opening, Replacing, InitExtension, At, FailLoad, Fail, AbandonReload, Moves, Ends, Becomes, FrameOK, Returned,
         Pcs, LoadPcs, UnloadPcs, ReloadPcs
<1>9. CASE AttachOwned(c)
  BY <1>9, <1>a, <1>b
     DEF Kept, Opening, Replacing, AttachOwned, At, FailLoad, Fail, AbandonReload, Moves, Ends, Becomes, FrameOK, Returned,
         Pcs, LoadPcs, UnloadPcs, ReloadPcs
<1>10. CASE Snapshot(c)
  BY <1>10, <1>a, <1>b, SnapshotEffect
     DEF Kept, Opening, Replacing, FailLoad, Fail, Moves, Ends, Becomes, FrameOK, Pcs, LoadPcs, UnloadPcs, ReloadPcs
<1>11. CASE PushEntries(c)
  BY <1>11, <1>a, <1>b, PushEntriesEffect
     DEF Kept, Opening, Replacing, FailLoad, Fail, Moves, Ends, Becomes, FrameOK, Pcs, LoadPcs, UnloadPcs, ReloadPcs
<1>12. CASE StoreLibrary(c)
  BY <1>12, <1>a, <1>b
     DEF Kept, Opening, Replacing, StoreLibrary, At, FailLoad, Fail, AbandonReload, Moves, Ends, Becomes, FrameOK, Returned,
         Pcs, LoadPcs, UnloadPcs, ReloadPcs
<1>13. CASE StoreMeta(c)
  BY <1>13, <1>a, <1>b
     DEF Kept, Opening, Replacing, StoreMeta, At, FailLoad, Fail, AbandonReload, Moves, Ends, Becomes, FrameOK, Returned,
         Pcs, LoadPcs, UnloadPcs, ReloadPcs
<1>14. CASE FinishLoad(c)
  BY <1>14, <1>a, <1>b
     DEF Kept, Opening, Replacing, FinishLoad, At, FailLoad, Fail, AbandonReload, Moves, Ends, Becomes, FrameOK, Returned,
         Pcs, LoadPcs, UnloadPcs, ReloadPcs
<1>15. CASE CheckDependents(c)
  BY <1>15, <1>a, <1>b
     DEF Kept, Opening, Replacing, CheckDependents, At, FailLoad, Fail, AbandonReload, Moves, Ends, Becomes, FrameOK, Returned,
         Pcs, LoadPcs, UnloadPcs, ReloadPcs
<1>16. CASE RemoveMeta(c)
  BY <1>16, <1>a, <1>b, RemoveMetaEffect
     DEF Kept, Opening, Replacing, FailLoad, Fail, Moves, Ends, Becomes, FrameOK, Pcs, LoadPcs, UnloadPcs, ReloadPcs
<1>17. CASE RemoveEntries(c)
  BY <1>17, <1>a, <1>b
     DEF Kept, Opening, Replacing, RemoveEntries, At, FailLoad, Fail, AbandonReload, Moves, Ends, Becomes, FrameOK, Returned,
         Pcs, LoadPcs, UnloadPcs, ReloadPcs
<1>18. CASE RemoveOwned(c)
  BY <1>18, <1>a, <1>b
     DEF Kept, Opening, Replacing, RemoveOwned, At, FailLoad, Fail, AbandonReload, Moves, Ends, Becomes, FrameOK, Returned,
         Pcs, LoadPcs, UnloadPcs, ReloadPcs
<1>19. CASE RemoveLibrary(c)
  BY <1>19, <1>a, <1>b, RemoveLibraryEffect
     DEF Kept, Opening, Replacing, FailLoad, Fail, Moves, Ends, Becomes, FrameOK, Pcs, LoadPcs, UnloadPcs, ReloadPcs
<1>20. CASE Deinit(c)
  BY <1>20, <1>a, <1>b
     DEF Kept, Opening, Replacing, Deinit, At, FailLoad, Fail, AbandonReload, Moves, Ends, Becomes, FrameOK, Returned,
         Pcs, LoadPcs, UnloadPcs, ReloadPcs
<1>21. CASE CloseOld(c)
  BY <1>21, <1>a, <1>b
     DEF Kept, Opening, Replacing, CloseOld, At, FailLoad, Fail, AbandonReload, Moves, Ends, Becomes, FrameOK, Returned,
         Pcs, LoadPcs, UnloadPcs, ReloadPcs
<1>22. CASE FindOld(c)
  BY <1>22, <1>a, <1>b, FindOldEffect
     DEF Kept, Opening, Replacing, FailLoad, Fail, Moves, Ends, Becomes, FrameOK, Pcs, LoadPcs, UnloadPcs, ReloadPcs
<1>23. CASE PrepareReload(c)
  BY <1>23, <1>a, <1>b, PrepareReloadEffect
     DEF Kept, Opening, Replacing, FailLoad, Fail, Moves, Ends, Becomes, FrameOK, Pcs, LoadPcs, UnloadPcs, ReloadPcs
<1>24. CASE InitNew(c)
  BY <1>24, <1>a, <1>b
     DEF Kept, Opening, Replacing, InitNew, At, FailLoad, Fail, AbandonReload, Moves, Ends, Becomes, FrameOK, Returned,
         Pcs, LoadPcs, UnloadPcs, ReloadPcs
<1>25. CASE RemoveOld(c)
  BY <1>25, <1>a, <1>b, RemoveOldEffect
     DEF Kept, Opening, Replacing, FailLoad, Fail, Moves, Ends, Becomes, FrameOK, Pcs, LoadPcs, UnloadPcs, ReloadPcs
<1>26. CASE PushPrepared(c)
  BY <1>26, <1>a, <1>b, PushPreparedEffect
     DEF Kept, Opening, Replacing, FailLoad, Fail, Moves, Ends, Becomes, FrameOK, Pcs, LoadPcs, UnloadPcs, ReloadPcs
<1>27. CASE StoreReloaded(c)
  BY <1>27, <1>a, <1>b
     DEF Kept, Opening, Replacing, StoreReloaded, At, FailLoad, Fail, AbandonReload, Moves, Ends, Becomes, FrameOK, Returned,
         Pcs, LoadPcs, UnloadPcs, ReloadPcs
<1>28. CASE CommitReload(c)
  BY <1>28, <1>a, <1>b
     DEF Kept, Opening, Replacing, CommitReload, At, FailLoad, Fail, AbandonReload, Moves, Ends, Becomes, FrameOK, Returned,
         Pcs, LoadPcs, UnloadPcs, ReloadPcs
<1>29. CASE DropPrepared(c)
  BY <1>29, <1>a, <1>b
     DEF Kept, Opening, Replacing, DropPrepared, At, FailLoad, Fail, AbandonReload, Moves, Ends, Becomes, FrameOK, Returned,
         Pcs, LoadPcs, UnloadPcs, ReloadPcs
<1> QED
  BY <1>1, <1>2, <1>3, <1>4, <1>6, <1>7, <1>8, <1>9, <1>10, <1>11, <1>12, <1>13, <1>14, <1>15,
     <1>16, <1>17, <1>18, <1>19, <1>20, <1>21, <1>22, <1>23, <1>24, <1>25, <1>26, <1>27, <1>28, <1>29
     DEF AnyStep, Step, LoadStep, UnloadStep, ReloadStep

\* Every step of a call leaves the frames well formed.
LEMMA FramesStep ==
  ASSUME TypeInv, NEW c, AnyStep(c)
  PROVE  FramesInv'
<1>1. CASE LoadDependency(c)
  BY <1>1, DependencyKept
<1>2. CASE ~LoadDependency(c)
  <2>1. Kept(c) /\ FramesInv
    BY <1>2, StepKeeps DEF TypeInv
  <2>2. FrameOK(c) /\ calls[c].name \in Extensions
    BY <2>1, FrameNumbers DEF Kept, Only, FrameType
  <2>3. CASE Resolve(c)
    <3>1. /\ calls[c].pc = "resolve"
          /\ calls'[c].file = calls[c].file \/ calls'[c].file \in KnownFiles(NameOf(c))
          /\ calls'[c].pc = "slots" => calls'[c].file \in KnownFiles(NameOf(c))
          /\ calls'[c].pc \in {"slots", "failed"}
      BY <2>1, <2>3, ResolveEffect, FrameSteps
         DEF FailLoad, Ends, Becomes, Pcs, LoadPcs
    <3>2. calls[c].op # "reload"
      BY <2>2, <3>1 DEF FrameOK, ReloadPcs
    <3>3. KnownFiles(NameOf(c)) \subseteq FilesOf[calls[c].name]
      BY <2>2 DEF KnownFiles, NameOf, TypeInv, MapTypes
    <3>4. FileOK(c)'
      BY <2>1, <3>1, <3>2, <3>3 DEF Kept, FileOK, Opening
    <3> QED
      BY <2>1, <3>4, FramesKept DEF Kept
  <2>4. CASE ~Resolve(c)
    <3>1. FileOK(c)'
      BY <2>1, <2>2, <2>4 DEF Kept, FrameOK, FileOK
    <3> QED
      BY <2>1, <3>1, FramesKept DEF Kept
  <2> QED
    BY <2>3, <2>4
<1> QED
  BY <1>1, <1>2

\* What drops libraries adds nothing.
LEMMA DropShrinks ==
  ASSUME NEW H, DropLibraries(H)
  PROVE  handles' \subseteq handles /\ up' \subseteq up /\ entries' \subseteq entries
BY DEF DropLibraries

\* Every step of a call leaves the maps, the libraries and the registers well
\* formed.
LEMMA ValuesStep ==
  ASSUME TypeInv, NEW c, AnyStep(c)
  PROVE  MapTypes' /\ LiveTypes' /\ RegTypes'
<1>0. FramesInv /\ MapTypes /\ LiveTypes /\ RegTypes
  BY DEF TypeInv
<1>a. ASSUME c \in DOMAIN calls
      PROVE  /\ c \in Nat
             /\ calls[c].name \in Extensions
             /\ calls[c].file \in MaybeFile
             /\ calls[c].regs \in SUBSET Register
  BY <1>0, <1>a, FrameNumbers DEF FrameType
<1>b. \A H : DropLibraries(H) =>
        handles' \subseteq handles /\ up' \subseteq up /\ entries' \subseteq entries
  BY DropShrinks
<1>d. \A f \in Files : OwnSlots[f] \subseteq Slots
  BY DEF Slots
<1>1. CASE FastPath(c)
  BY <1>0, <1>1, <1>a, <1>b
     DEF FastPath, At, NameOf, FailLoad, AbandonReload, MapTypes, LiveTypes, RegTypes,
         mapVars, liveVars, regVars
<1>2. CASE Claim(c)
  BY <1>0, <1>2, <1>a, <1>b
     DEF Claim, At, NameOf, FailLoad, AbandonReload, MapTypes, LiveTypes, RegTypes,
         mapVars, liveVars, regVars
<1>3. CASE Resolve(c)
  <2>1. c \in DOMAIN calls /\ NameOf(c) \in Extensions
    BY <1>3, <1>a, ResolveEffect DEF NameOf
  <2>2. /\ KnownFiles(NameOf(c)) \subseteq MaybeFile
        /\ KnownFiles(NameOf(c)) \subseteq FilesOf[NameOf(c)] \cup {None}
    BY <1>0, <2>1, FrameworkAssumption DEF KnownFiles, MapTypes, MaybeFile
  <2> QED
    BY <1>0, <1>3, <2>1, <2>2, ResolveEffect, ZenonT(60)
       DEF FailLoad, MapTypes, LiveTypes, RegTypes, liveVars, regVars
<1>4. CASE CheckSlots(c)
  BY <1>0, <1>4, <1>a, <1>b, CheckSlotsEffect
     DEF NameOf, FailLoad, MapTypes, LiveTypes, RegTypes, mapVars, liveVars, regVars
<1>5. CASE LoadDependency(c)
  BY <1>0, <1>5, <1>a, <1>b, LoadDependencyEffect
     DEF NameOf, FailLoad, MapTypes, LiveTypes, RegTypes, mapVars, liveVars, regVars
<1>6. CASE DependencyReturns(c)
  BY <1>0, <1>6, <1>a, <1>b
     DEF DependencyReturns, At, NameOf, FailLoad, AbandonReload, MapTypes, LiveTypes, RegTypes,
         mapVars, liveVars, regVars
<1>7. CASE OpenLibrary(c)
  BY <1>0, <1>7, <1>a, <1>b
     DEF OpenLibrary, At, NameOf, FailLoad, AbandonReload, MapTypes, LiveTypes, RegTypes,
         mapVars, liveVars, regVars
<1>8. CASE InitExtension(c)
  BY <1>0, <1>8, <1>a, <1>b
     DEF InitExtension, At, NameOf, FailLoad, AbandonReload, MapTypes, LiveTypes, RegTypes,
         mapVars, liveVars, regVars
<1>9. CASE AttachOwned(c)
  <2>1. /\ c \in DOMAIN calls
        /\ NameOf(c) \in Extensions
        /\ calls[c].file \in MaybeFile
        /\ FileOf(c) \in Files
        /\ c \in Nat
    BY <1>9, <1>a, FilesInUse DEF AttachOwned, At, NameOf
  <2>2. slotMap' = [t \in Slots |-> IF t \in OwnSlots[FileOf(c)]
                                    THEN [owner |-> NameOf(c), file |-> calls[c].file]
                                    ELSE slotMap[t]]
    BY <1>9 DEF AttachOwned, FileOf
  <2>3. slotMap' \in [Slots -> [owner : Extensions \cup {None}, file : MaybeFile] \cup {None}]
    BY <1>0, <2>1, <2>2 DEF MapTypes
  <2>4. entries' \in SUBSET [slot : Slots, file : MaybeFile, meta : Nat]
    BY <1>0, <1>9, <1>d, <2>1 DEF AttachOwned, Entry, RegTypes, FileOf
  <2> QED
    BY <1>0, <1>9, <2>3, <2>4 DEF AttachOwned, MapTypes, LiveTypes, RegTypes, liveVars
<1>10. CASE Snapshot(c)
  BY <1>0, <1>10, <1>a, <1>b, SnapshotEffect
     DEF NameOf, FailLoad, MapTypes, LiveTypes, RegTypes, mapVars, liveVars, regVars
<1>11. CASE PushEntries(c)
  <2>1. PICK r \in calls[c].regs :
          /\ c \in DOMAIN calls
          /\ entries' = entries \/ (entries' = entries \cup {Entry(c, r.slot, r.file)})
    BY <1>11, PushEntriesEffect
  <2>2. r \in Register /\ c \in Nat
    BY <1>a, <2>1
  <2>3. Entry(c, r.slot, r.file) \in [slot : Slots, file : MaybeFile, meta : Nat]
    BY <1>0, <2>2 DEF Entry, Register, MapTypes
  <2>4. entries' \in SUBSET [slot : Slots, file : MaybeFile, meta : Nat]
    BY <1>0, <2>1, <2>3 DEF RegTypes
  <2>5. stray' \in BOOLEAN
    BY <1>0, <1>11, PushEntriesEffect DEF RegTypes
  <2> QED
    BY <1>0, <1>11, <2>4, <2>5, PushEntriesEffect DEF MapTypes, LiveTypes, RegTypes, mapVars, liveVars
<1>12. CASE StoreLibrary(c)
  BY <1>0, <1>12, <1>a, <1>b
     DEF StoreLibrary, At, NameOf, FailLoad, AbandonReload, MapTypes, LiveTypes, RegTypes,
         mapVars, liveVars, regVars
<1>13. CASE StoreMeta(c)
  BY <1>0, <1>13, <1>a, <1>b
     DEF StoreMeta, At, NameOf, FailLoad, AbandonReload, MapTypes, LiveTypes, RegTypes,
         mapVars, liveVars, regVars
<1>14. CASE FinishLoad(c)
  BY <1>0, <1>14, <1>a, <1>b
     DEF FinishLoad, At, NameOf, FailLoad, AbandonReload, MapTypes, LiveTypes, RegTypes,
         mapVars, liveVars, regVars
<1>15. CASE CheckDependents(c)
  BY <1>0, <1>15, <1>a, <1>b
     DEF CheckDependents, At, NameOf, FailLoad, AbandonReload, MapTypes, LiveTypes, RegTypes,
         mapVars, liveVars, regVars
<1>16. CASE RemoveMeta(c)
  <2>1. /\ c \in DOMAIN calls
        /\ \/ loadedMeta' = loadedMeta
           \/ loadedMeta' = [loadedMeta EXCEPT ![NameOf(c)] = 0]
        /\ UNCHANGED <<loading, index, loaded, slotMap, handles, metas, up, entries, stray>>
    BY <1>16, RemoveMetaEffect DEF mapVars, liveVars, regVars
  <2>2. NameOf(c) \in Extensions /\ c \in Nat
    BY <1>a, <2>1 DEF NameOf
  <2> QED
    BY <1>0, <1>b, <2>1, <2>2 DEF MapTypes, LiveTypes, RegTypes
<1>17. CASE RemoveEntries(c)
  BY <1>0, <1>17, <1>a, <1>b
     DEF RemoveEntries, At, NameOf, FailLoad, AbandonReload, MapTypes, LiveTypes, RegTypes,
         mapVars, liveVars, regVars
<1>18. CASE RemoveOwned(c)
  BY <1>0, <1>18, <1>a, <1>b
     DEF RemoveOwned, At, NameOf, FailLoad, AbandonReload, MapTypes, LiveTypes, RegTypes,
         mapVars, liveVars, regVars
<1>19. CASE RemoveLibrary(c)
  <2>1. /\ c \in DOMAIN calls
        /\ \/ loaded' = loaded
           \/ loaded' = [loaded EXCEPT ![NameOf(c)] = 0]
        /\ metas' \subseteq metas
        /\ UNCHANGED <<loading, index, loadedMeta, slotMap, handles, up, entries, stray>>
    BY <1>19, RemoveLibraryEffect DEF mapVars, liveVars, regVars
  <2>2. NameOf(c) \in Extensions /\ c \in Nat
    BY <1>a, <2>1 DEF NameOf
  <2>3. loaded' \in [Extensions -> Nat]
    BY <1>0, <2>1, <2>2 DEF MapTypes
  <2>4. metas' \in SUBSET Nat
    BY <1>0, <2>1 DEF LiveTypes
  <2> QED
    BY <1>0, <2>1, <2>3, <2>4 DEF MapTypes, LiveTypes, RegTypes
<1>20. CASE Deinit(c)
  BY <1>0, <1>20, <1>a, <1>b
     DEF Deinit, At, NameOf, FailLoad, AbandonReload, MapTypes, LiveTypes, RegTypes,
         mapVars, liveVars, regVars
<1>21. CASE CloseOld(c)
  BY <1>0, <1>21, <1>a, <1>b
     DEF CloseOld, At, NameOf, FailLoad, AbandonReload, MapTypes, LiveTypes, RegTypes,
         mapVars, liveVars, regVars
<1>22. CASE FindOld(c)
  BY <1>0, <1>22, <1>a, <1>b, FindOldEffect
     DEF NameOf, FailLoad, MapTypes, LiveTypes, RegTypes, mapVars, liveVars, regVars
<1>23. CASE PrepareReload(c)
  <2>1. /\ c \in DOMAIN calls
        /\ \/ handles' = handles /\ metas' = metas
           \/ handles' = handles \cup {c} /\ metas' = metas \cup {c}
        /\ UNCHANGED <<loading, index, loaded, loadedMeta, slotMap, up, entries, stray>>
    BY <1>23, PrepareReloadEffect DEF mapVars, liveVars, regVars
  <2>2. NameOf(c) \in Extensions /\ c \in Nat
    BY <1>a, <2>1 DEF NameOf
  <2> QED
    BY <1>0, <1>b, <2>1, <2>2 DEF MapTypes, LiveTypes, RegTypes
<1>24. CASE InitNew(c)
  BY <1>0, <1>24, <1>a, <1>b
     DEF InitNew, At, NameOf, FailLoad, AbandonReload, MapTypes, LiveTypes, RegTypes,
         mapVars, liveVars, regVars
<1>25. CASE RemoveOld(c)
  <2>1. /\ c \in DOMAIN calls
        /\ loadedMeta' = [loadedMeta EXCEPT ![NameOf(c)] = 0]
        /\ \/ loaded' = loaded
           \/ loaded' = [loaded EXCEPT ![NameOf(c)] = 0]
        /\ \/ UNCHANGED <<handles, metas, up, entries>>
           \/ DropLibraries({c}) /\ metas' \subseteq metas
        /\ UNCHANGED <<loading, index, slotMap, stray>>
    BY <1>25, RemoveOldEffect DEF mapVars, liveVars, regVars
  <2>2. NameOf(c) \in Extensions /\ c \in Nat
    BY <1>a, <2>1 DEF NameOf
  <2>3. MapTypes'
    BY <1>0, <2>1, <2>2 DEF MapTypes
  <2>4. LiveTypes' /\ RegTypes'
    BY <1>0, <1>b, <2>1, <2>2 DEF LiveTypes, RegTypes
  <2> QED
    BY <2>3, <2>4
<1>26. CASE PushPrepared(c)
  <2>1. PICK r \in calls[c].regs :
          /\ c \in DOMAIN calls
          /\ entries' = entries \/ (slotMap[r.slot] # None /\ entries' = entries \cup {Entry(c, r.slot, slotMap[r.slot].file)})
    BY <1>26, PushPreparedEffect
  <2>2. r \in Register /\ c \in Nat
    BY <1>a, <2>1
  <2>3. slotMap[r.slot] # None => Entry(c, r.slot, slotMap[r.slot].file) \in [slot : Slots, file : MaybeFile, meta : Nat]
    BY <1>0, <2>2 DEF Entry, Register, MapTypes
  <2>4. entries' \in SUBSET [slot : Slots, file : MaybeFile, meta : Nat]
    BY <1>0, <2>1, <2>3 DEF RegTypes
  <2>5. stray' \in BOOLEAN
    BY <1>0, <1>26, PushPreparedEffect DEF RegTypes
  <2> QED
    BY <1>0, <1>26, <2>4, <2>5, PushPreparedEffect DEF MapTypes, LiveTypes, RegTypes, mapVars, liveVars
<1>27. CASE StoreReloaded(c)
  BY <1>0, <1>27, <1>a, <1>b
     DEF StoreReloaded, At, NameOf, FailLoad, AbandonReload, MapTypes, LiveTypes, RegTypes,
         mapVars, liveVars, regVars
<1>28. CASE CommitReload(c)
  BY <1>0, <1>28, <1>a, <1>b
     DEF CommitReload, At, NameOf, FailLoad, AbandonReload, MapTypes, LiveTypes, RegTypes,
         mapVars, liveVars, regVars
<1>29. CASE DropPrepared(c)
  BY <1>0, <1>29, <1>a, <1>b
     DEF DropPrepared, At, NameOf, FailLoad, AbandonReload, MapTypes, LiveTypes, RegTypes,
         mapVars, liveVars, regVars
<1> QED
  BY <1>1, <1>2, <1>3, <1>4, <1>5, <1>6, <1>7, <1>8, <1>9, <1>10, <1>11, <1>12, <1>13, <1>14, <1>15,
     <1>16, <1>17, <1>18, <1>19, <1>20, <1>21, <1>22, <1>23, <1>24, <1>25, <1>26, <1>27, <1>28, <1>29
     DEF AnyStep, Step, LoadStep, UnloadStep, ReloadStep

\* The calls that start.
LEMMA StartKinds ==
  ASSUME NEW e \in Extensions,
         CallLoad(e) \/ CallUnload(e) \/ (\E f \in ReloadFiles[e] : CallReload(e, f))
  PROVE  \/ Start("load", e, None, "fast")
         \/ Start("unload", e, None, "dependents")
         \/ \E f \in ReloadFiles[e] : Start("reload", e, f, "old") /\ f \in Files
BY FrameworkAssumption DEF CallLoad, CallUnload, CallReload

\* Every step leaves every variable well formed.
LEMMA TypeStep ==
  ASSUME TypeInv, [Next]_vars
  PROVE  TypeInv'
<1>0. FramesInv /\ MapTypes /\ LiveTypes /\ RegTypes
  BY DEF TypeInv
<1>1. CASE Scan
  BY <1>0, <1>1 DEF Scan, TypeInv, FramesInv, FrameOK, FileOK, MapTypes, LiveTypes, RegTypes, MaybeFile,
                    liveVars, regVars
<1>2. ASSUME NEW s \in HostSlots, AttachRegister(s)
      PROVE  TypeInv'
  BY <1>0, <1>2 DEF AttachRegister, TypeInv, FramesInv, FrameOK, FileOK, MapTypes, LiveTypes, RegTypes,
                    MaybeFile, liveVars, regVars
<1>3. ASSUME NEW e \in Extensions,
             CallLoad(e) \/ CallUnload(e) \/ (\E f \in ReloadFiles[e] : CallReload(e, f))
      PROVE  TypeInv'
  <2>1. FramesInv'
    BY <1>0, <1>3, StartKinds, StartKept
       DEF MaybeFile, Pcs, LoadPcs, UnloadPcs, ReloadPcs, Opening
  <2>2. UNCHANGED <<mapVars, liveVars, regVars>>
    BY <1>3, StartKinds DEF Start
  <2> QED
    BY <1>0, <2>1, <2>2 DEF TypeInv, MapTypes, LiveTypes, RegTypes, mapVars, liveVars, regVars
<1>4. ASSUME NEW c \in 1..MaxFrames, Step(c) \/ CommitReload(c) \/ DropPrepared(c)
      PROVE  TypeInv'
  BY <1>4, FramesStep, ValuesStep DEF TypeInv, AnyStep
<1>5. CASE UNCHANGED vars
  BY <1>0, <1>5 DEF TypeInv, FramesInv, FrameOK, FileOK, MapTypes, LiveTypes, RegTypes, vars, mapVars,
                    liveVars, regVars
<1> QED
  BY <1>1, <1>2, <1>3, <1>4, <1>5 DEF Next

\* Every variable stays in its type: the frames form a sequence of well-formed
\* calls, the maps are total on names and slots.
THEOREM TypeCorrect == Spec => []TypeInv
<1>1. Init => TypeInv
  <2> SUFFICES ASSUME Init
               PROVE  TypeInv
    OBVIOUS
  <2>1. FramesInv
    BY DEF Init, FramesInv
  <2>2. MapTypes
    BY DEF Init, MapTypes, MaybeFile
  <2>3. LiveTypes /\ RegTypes
    BY DEF Init, LiveTypes, RegTypes
  <2> QED
    BY <2>1, <2>2, <2>3 DEF TypeInv
<1> QED
  BY <1>1, TypeStep, PTL DEF Spec
-----------------------------------------------------------------------------
(***************************************************************************)
(* Claims.  A step leaves the claims alone, takes the claim on a free name *)
(* or gives its own back.                                                  *)
(***************************************************************************)

\* A frame that is new or that does not change its claim.
ClaimKept(d) ==
  IF d \in DOMAIN calls
  THEN calls'[d].name = calls[d].name /\ (Claimed(d)' <=> Claimed(d))
  ELSE ~Claimed(d)'

\* The frames but c keep what they claim.
OthersClaims(c) ==
  /\ DOMAIN calls \subseteq DOMAIN calls'
  /\ \A d \in DOMAIN calls' : d # c => ClaimKept(d)

\* No frame gains or loses a claim.
LEMMA ClaimsStay ==
  ASSUME ClaimsExclusive, NEW c, OthersClaims(c), c \in DOMAIN calls' => ClaimKept(c),
         loading' = loading
  PROVE  ClaimsExclusive'
BY DEF ClaimsExclusive, OthersClaims, ClaimKept, NameOf

\* A frame claims a name that is free.
LEMMA ClaimTaken ==
  ASSUME ClaimsExclusive, NEW c \in DOMAIN calls, OthersClaims(c),
         calls'[c].name = calls[c].name, Claimed(c)',
         NameOf(c) \notin loading, loading' = loading \cup {NameOf(c)}
  PROVE  ClaimsExclusive'
BY DEF ClaimsExclusive, OthersClaims, ClaimKept, NameOf

\* A frame gives its claim back.
LEMMA ClaimGiven ==
  ASSUME ClaimsExclusive, NEW c \in DOMAIN calls, OthersClaims(c),
         calls'[c].name = calls[c].name, Claimed(c), ~Claimed(c)',
         loading' = loading \ {NameOf(c)}
  PROVE  ClaimsExclusive'
BY DEF ClaimsExclusive, OthersClaims, ClaimKept, NameOf

\* A step of one frame leaves the claims of the others alone.
LEMMA OnlyOthersClaims ==
  ASSUME NEW c, Only(c)
  PROVE  OthersClaims(c)
BY DEF Only, OthersClaims, ClaimKept, Claimed

\* Every step of a call keeps claims exclusive.
LEMMA ClaimsStep ==
  ASSUME TypeInv, ClaimsExclusive, NEW c, AnyStep(c)
  PROVE  ClaimsExclusive'
<1>0. FramesInv
  BY DEF TypeInv
<1> DEFINE Stays == OthersClaims(c) /\ ClaimKept(c) /\ loading' = loading
           Gives == /\ c \in DOMAIN calls /\ OthersClaims(c) /\ calls'[c].name = calls[c].name
                    /\ Claimed(c) /\ ~Claimed(c)' /\ loading' = loading \ {NameOf(c)}
<1>a. ASSUME c \in DOMAIN calls
      PROVE  FrameOK(c) /\ calls[c].op \in {"load", "unload", "reload"}
  BY <1>0, <1>a, FrameNumbers DEF FrameType
<1>b. ASSUME c \in DOMAIN calls
      PROVE  /\ \A p \in Pcs : Goto(c, p) => Moves(c, p)
             /\ \A p \in Pcs : Return(c, p) => Ends(c, p)
  BY <1>0, <1>b, FrameSteps
<1>d. Only(c) => OthersClaims(c) /\ c \in DOMAIN calls
  BY OnlyOthersClaims DEF Only
<1>s. Stays => ClaimsExclusive'
  BY ClaimsStay
<1>g. Gives => ClaimsExclusive'
  BY ClaimGiven
<1> HIDE DEF Stays, Gives
<1>1. CASE FastPath(c)
  <2>1. Stays \/ Gives
    BY <1>1, <1>a, <1>b, <1>d
       DEF FastPath, Stays, Gives, At, FailLoad, Fail, AbandonReload, Moves, Ends, Becomes, Claimed,
           ClaimKept, FrameOK, Returned, Pcs, LoadPcs, UnloadPcs, ReloadPcs, mapVars
  <2> QED
    BY <1>s, <1>g, <2>1
<1>2. CASE Claim(c)
  <2>1. /\ c \in DOMAIN calls /\ calls[c].pc = "claim" /\ calls[c].op = "load"
        /\ Moves(c, IF NameOf(c) \in loading THEN "failed" ELSE "resolve")
        /\ loading' = loading \cup {NameOf(c)}
    BY <1>2, <1>a, <1>b DEF Claim, At, FrameOK, UnloadPcs, ReloadPcs, Pcs, LoadPcs
  <2>2. CASE NameOf(c) \in loading
    <3>1. Stays
      BY <1>d, <2>1, <2>2 DEF Stays, ClaimKept, Claimed, Moves, Becomes, Returned
    <3> QED
      BY <1>s, <3>1
  <2>3. CASE NameOf(c) \notin loading
    <3>1. OthersClaims(c) /\ Claimed(c)' /\ calls'[c].name = calls[c].name
      BY <1>d, <2>1, <2>3 DEF Claimed, Moves, Becomes, Returned
    <3> QED
      BY <2>1, <2>3, <3>1, ClaimTaken
  <2> QED
    BY <2>2, <2>3
<1>3. CASE Resolve(c)
  <2>1. Stays \/ Gives
    BY <1>3, <1>a, <1>b, <1>d, ResolveEffect
       DEF Stays, Gives, At, FailLoad, Fail, AbandonReload, Moves, Ends, Becomes, Claimed,
           ClaimKept, FrameOK, Returned, Pcs, LoadPcs, UnloadPcs, ReloadPcs, mapVars
  <2> QED
    BY <1>s, <1>g, <2>1
<1>4. CASE CheckSlots(c)
  <2>1. Stays \/ Gives
    BY <1>4, <1>a, <1>b, <1>d, CheckSlotsEffect
       DEF Stays, Gives, At, FailLoad, Fail, AbandonReload, Moves, Ends, Becomes, Claimed,
           ClaimKept, FrameOK, Returned, Pcs, LoadPcs, UnloadPcs, ReloadPcs, mapVars
  <2> QED
    BY <1>s, <1>g, <2>1
<1>5. CASE LoadDependency(c)
  <2>1. /\ c \in DOMAIN calls /\ calls[c].pc = "deps" /\ calls[c].op = "load"
        /\ Grows("load", Head(calls[c].todo), None, "fast", c)
        /\ \A d \in DOMAIN calls : d # c => calls'[d] = calls[d]
        /\ calls'[c].op = calls[c].op /\ calls'[c].name = calls[c].name /\ calls'[c].pc = "await"
        /\ loading' = loading
    BY <1>5, <1>a, LoadDependencyEffect DEF FrameOK, UnloadPcs, ReloadPcs, Becomes, mapVars
  <2>2. ClaimKept(c)
    BY <2>1 DEF ClaimKept, Claimed, Returned
  <2>3. ASSUME NEW d \in DOMAIN calls', d # c
        PROVE  ClaimKept(d)
    BY <2>1, <2>3 DEF Grows, ClaimKept, Claimed, Returned
  <2>4. Stays
    BY <2>1, <2>2, <2>3 DEF Stays, OthersClaims, Grows
  <2> QED
    BY <1>s, <2>4
<1>6. CASE DependencyReturns(c)
  <2>1. Stays \/ Gives
    BY <1>6, <1>a, <1>b, <1>d
       DEF DependencyReturns, Stays, Gives, At, FailLoad, Fail, AbandonReload, Moves, Ends, Becomes, Claimed,
           ClaimKept, FrameOK, Returned, Pcs, LoadPcs, UnloadPcs, ReloadPcs, mapVars
  <2> QED
    BY <1>s, <1>g, <2>1
<1>7. CASE OpenLibrary(c)
  <2>1. Stays \/ Gives
    BY <1>7, <1>a, <1>b, <1>d
       DEF OpenLibrary, Stays, Gives, At, FailLoad, Fail, AbandonReload, Moves, Ends, Becomes, Claimed,
           ClaimKept, FrameOK, Returned, Pcs, LoadPcs, UnloadPcs, ReloadPcs, mapVars
  <2> QED
    BY <1>s, <1>g, <2>1
<1>8. CASE InitExtension(c)
  <2>1. Stays \/ Gives
    BY <1>8, <1>a, <1>b, <1>d
       DEF InitExtension, Stays, Gives, At, FailLoad, Fail, AbandonReload, Moves, Ends, Becomes, Claimed,
           ClaimKept, FrameOK, Returned, Pcs, LoadPcs, UnloadPcs, ReloadPcs, mapVars
  <2> QED
    BY <1>s, <1>g, <2>1
<1>9. CASE AttachOwned(c)
  <2>1. Stays \/ Gives
    BY <1>9, <1>a, <1>b, <1>d
       DEF AttachOwned, Stays, Gives, At, FailLoad, Fail, AbandonReload, Moves, Ends, Becomes, Claimed,
           ClaimKept, FrameOK, Returned, Pcs, LoadPcs, UnloadPcs, ReloadPcs, mapVars
  <2> QED
    BY <1>s, <1>g, <2>1
<1>10. CASE Snapshot(c)
  <2>1. Stays \/ Gives
    BY <1>10, <1>a, <1>b, <1>d, SnapshotEffect
       DEF Stays, Gives, At, FailLoad, Fail, AbandonReload, Moves, Ends, Becomes, Claimed,
           ClaimKept, FrameOK, Returned, Pcs, LoadPcs, UnloadPcs, ReloadPcs, mapVars
  <2> QED
    BY <1>s, <1>g, <2>1
<1>11. CASE PushEntries(c)
  <2>1. Stays \/ Gives
    BY <1>11, <1>a, <1>b, <1>d, PushEntriesEffect
       DEF Stays, Gives, At, FailLoad, Fail, AbandonReload, Moves, Ends, Becomes, Claimed,
           ClaimKept, FrameOK, Returned, Pcs, LoadPcs, UnloadPcs, ReloadPcs, mapVars
  <2> QED
    BY <1>s, <1>g, <2>1
<1>12. CASE StoreLibrary(c)
  <2>1. Stays \/ Gives
    BY <1>12, <1>a, <1>b, <1>d
       DEF StoreLibrary, Stays, Gives, At, FailLoad, Fail, AbandonReload, Moves, Ends, Becomes, Claimed,
           ClaimKept, FrameOK, Returned, Pcs, LoadPcs, UnloadPcs, ReloadPcs, mapVars
  <2> QED
    BY <1>s, <1>g, <2>1
<1>13. CASE StoreMeta(c)
  <2>1. Stays \/ Gives
    BY <1>13, <1>a, <1>b, <1>d
       DEF StoreMeta, Stays, Gives, At, FailLoad, Fail, AbandonReload, Moves, Ends, Becomes, Claimed,
           ClaimKept, FrameOK, Returned, Pcs, LoadPcs, UnloadPcs, ReloadPcs, mapVars
  <2> QED
    BY <1>s, <1>g, <2>1
<1>14. CASE FinishLoad(c)
  <2>1. Stays \/ Gives
    BY <1>14, <1>a, <1>b, <1>d
       DEF FinishLoad, Stays, Gives, At, FailLoad, Fail, AbandonReload, Moves, Ends, Becomes, Claimed,
           ClaimKept, FrameOK, Returned, Pcs, LoadPcs, UnloadPcs, ReloadPcs, mapVars
  <2> QED
    BY <1>s, <1>g, <2>1
<1>15. CASE CheckDependents(c)
  <2>1. Stays \/ Gives
    BY <1>15, <1>a, <1>b, <1>d
       DEF CheckDependents, Stays, Gives, At, FailLoad, Fail, AbandonReload, Moves, Ends, Becomes, Claimed,
           ClaimKept, FrameOK, Returned, Pcs, LoadPcs, UnloadPcs, ReloadPcs, mapVars
  <2> QED
    BY <1>s, <1>g, <2>1
<1>16. CASE RemoveMeta(c)
  <2>1. Stays \/ Gives
    BY <1>16, <1>a, <1>b, <1>d, RemoveMetaEffect
       DEF Stays, Gives, At, FailLoad, Fail, AbandonReload, Moves, Ends, Becomes, Claimed,
           ClaimKept, FrameOK, Returned, Pcs, LoadPcs, UnloadPcs, ReloadPcs, mapVars
  <2> QED
    BY <1>s, <1>g, <2>1
<1>17. CASE RemoveEntries(c)
  <2>1. Stays \/ Gives
    BY <1>17, <1>a, <1>b, <1>d
       DEF RemoveEntries, Stays, Gives, At, FailLoad, Fail, AbandonReload, Moves, Ends, Becomes, Claimed,
           ClaimKept, FrameOK, Returned, Pcs, LoadPcs, UnloadPcs, ReloadPcs, mapVars
  <2> QED
    BY <1>s, <1>g, <2>1
<1>18. CASE RemoveOwned(c)
  <2>1. Stays \/ Gives
    BY <1>18, <1>a, <1>b, <1>d
       DEF RemoveOwned, Stays, Gives, At, FailLoad, Fail, AbandonReload, Moves, Ends, Becomes, Claimed,
           ClaimKept, FrameOK, Returned, Pcs, LoadPcs, UnloadPcs, ReloadPcs, mapVars
  <2> QED
    BY <1>s, <1>g, <2>1
<1>19. CASE RemoveLibrary(c)
  <2>1. Stays \/ Gives
    BY <1>19, <1>a, <1>b, <1>d, RemoveLibraryEffect
       DEF Stays, Gives, At, FailLoad, Fail, AbandonReload, Moves, Ends, Becomes, Claimed,
           ClaimKept, FrameOK, Returned, Pcs, LoadPcs, UnloadPcs, ReloadPcs, mapVars
  <2> QED
    BY <1>s, <1>g, <2>1
<1>20. CASE Deinit(c)
  <2>1. Stays \/ Gives
    BY <1>20, <1>a, <1>b, <1>d
       DEF Deinit, Stays, Gives, At, FailLoad, Fail, AbandonReload, Moves, Ends, Becomes, Claimed,
           ClaimKept, FrameOK, Returned, Pcs, LoadPcs, UnloadPcs, ReloadPcs, mapVars
  <2> QED
    BY <1>s, <1>g, <2>1
<1>21. CASE CloseOld(c)
  <2>1. Stays \/ Gives
    BY <1>21, <1>a, <1>b, <1>d
       DEF CloseOld, Stays, Gives, At, FailLoad, Fail, AbandonReload, Moves, Ends, Becomes, Claimed,
           ClaimKept, FrameOK, Returned, Pcs, LoadPcs, UnloadPcs, ReloadPcs, mapVars
  <2> QED
    BY <1>s, <1>g, <2>1
<1>22. CASE FindOld(c)
  <2>1. Stays \/ Gives
    BY <1>22, <1>a, <1>b, <1>d, FindOldEffect
       DEF Stays, Gives, At, FailLoad, Fail, AbandonReload, Moves, Ends, Becomes, Claimed,
           ClaimKept, FrameOK, Returned, Pcs, LoadPcs, UnloadPcs, ReloadPcs, mapVars
  <2> QED
    BY <1>s, <1>g, <2>1
<1>23. CASE PrepareReload(c)
  <2>1. Stays \/ Gives
    BY <1>23, <1>a, <1>b, <1>d, PrepareReloadEffect
       DEF Stays, Gives, At, FailLoad, Fail, AbandonReload, Moves, Ends, Becomes, Claimed,
           ClaimKept, FrameOK, Returned, Pcs, LoadPcs, UnloadPcs, ReloadPcs, mapVars
  <2> QED
    BY <1>s, <1>g, <2>1
<1>24. CASE InitNew(c)
  <2>1. Stays \/ Gives
    BY <1>24, <1>a, <1>b, <1>d
       DEF InitNew, Stays, Gives, At, FailLoad, Fail, AbandonReload, Moves, Ends, Becomes, Claimed,
           ClaimKept, FrameOK, Returned, Pcs, LoadPcs, UnloadPcs, ReloadPcs, mapVars
  <2> QED
    BY <1>s, <1>g, <2>1
<1>25. CASE RemoveOld(c)
  <2>1. Stays \/ Gives
    BY <1>25, <1>a, <1>b, <1>d, RemoveOldEffect
       DEF Stays, Gives, At, FailLoad, Fail, AbandonReload, Moves, Ends, Becomes, Claimed,
           ClaimKept, FrameOK, Returned, Pcs, LoadPcs, UnloadPcs, ReloadPcs, mapVars
  <2> QED
    BY <1>s, <1>g, <2>1
<1>26. CASE PushPrepared(c)
  <2>1. Stays \/ Gives
    BY <1>26, <1>a, <1>b, <1>d, PushPreparedEffect
       DEF Stays, Gives, At, FailLoad, Fail, AbandonReload, Moves, Ends, Becomes, Claimed,
           ClaimKept, FrameOK, Returned, Pcs, LoadPcs, UnloadPcs, ReloadPcs, mapVars
  <2> QED
    BY <1>s, <1>g, <2>1
<1>27. CASE StoreReloaded(c)
  <2>1. Stays \/ Gives
    BY <1>27, <1>a, <1>b, <1>d
       DEF StoreReloaded, Stays, Gives, At, FailLoad, Fail, AbandonReload, Moves, Ends, Becomes, Claimed,
           ClaimKept, FrameOK, Returned, Pcs, LoadPcs, UnloadPcs, ReloadPcs, mapVars
  <2> QED
    BY <1>s, <1>g, <2>1
<1>28. CASE CommitReload(c)
  <2>1. Stays \/ Gives
    BY <1>28, <1>a, <1>b, <1>d
       DEF CommitReload, Stays, Gives, At, FailLoad, Fail, AbandonReload, Moves, Ends, Becomes, Claimed,
           ClaimKept, FrameOK, Returned, Pcs, LoadPcs, UnloadPcs, ReloadPcs, mapVars
  <2> QED
    BY <1>s, <1>g, <2>1
<1>29. CASE DropPrepared(c)
  <2>1. Stays \/ Gives
    BY <1>29, <1>a, <1>b, <1>d
       DEF DropPrepared, Stays, Gives, At, FailLoad, Fail, AbandonReload, Moves, Ends, Becomes, Claimed,
           ClaimKept, FrameOK, Returned, Pcs, LoadPcs, UnloadPcs, ReloadPcs, mapVars
  <2> QED
    BY <1>s, <1>g, <2>1
<1> QED
  BY <1>1, <1>2, <1>3, <1>4, <1>5, <1>6, <1>7, <1>8, <1>9, <1>10, <1>11, <1>12, <1>13, <1>14, <1>15,
     <1>16, <1>17, <1>18, <1>19, <1>20, <1>21, <1>22, <1>23, <1>24, <1>25, <1>26, <1>27, <1>28, <1>29
     DEF AnyStep, Step, LoadStep, UnloadStep, ReloadStep

\* The set `loading` is exactly the names of the loads past their claim, one load
\* for each name, for any calls, in any number at once: whatever way a load
\* returns, its claim is given back, and nobody else's is.
THEOREM ClaimsAreExclusive == Spec => []ClaimsExclusive
<1>1. Init => ClaimsExclusive
  BY DEF Init, ClaimsExclusive
<1>2. TypeInv /\ ClaimsExclusive /\ [Next]_vars => ClaimsExclusive'
  <2> SUFFICES ASSUME TypeInv, ClaimsExclusive, [Next]_vars
               PROVE  ClaimsExclusive'
    OBVIOUS
  <2>0. FramesInv
    BY DEF TypeInv
  <2>1. CASE calls' = calls /\ loading' = loading
    BY <2>1 DEF ClaimsExclusive, Claimed, NameOf
  <2>2. ASSUME NEW e \in Extensions,
               CallLoad(e) \/ CallUnload(e) \/ (\E f \in ReloadFiles[e] : CallReload(e, f))
        PROVE  ClaimsExclusive'
    <3>1. \/ Begins("load", e, None, "fast")
          \/ Begins("unload", e, None, "dependents")
          \/ \E f \in Files : Begins("reload", e, f, "old")
      BY <2>0, <2>2, StartKinds, StartFrame DEF MaybeFile, Pcs, LoadPcs, UnloadPcs, ReloadPcs
    <3>2. OthersClaims(0) /\ 0 \notin DOMAIN calls'
      <4>1. 0 \notin DOMAIN calls /\ NewFrame # 0
        BY <2>0, FrameNumbers DEF NewFrame
      <4> QED
        BY <3>1, <4>1 DEF Begins, Grows, OthersClaims, ClaimKept, Claimed
    <3>3. loading' = loading
      BY <2>2, StartKinds DEF Start, mapVars
    <3> QED
      BY <3>2, <3>3, ClaimsStay
  <2>3. ASSUME NEW c \in 1..MaxFrames, Step(c) \/ CommitReload(c) \/ DropPrepared(c)
        PROVE  ClaimsExclusive'
    BY <2>3, ClaimsStep DEF AnyStep
  <2> QED
    BY <2>1, <2>2, <2>3 DEF Next, Scan, AttachRegister, vars, mapVars
<1> QED
  BY <1>1, <1>2, TypeCorrect, PTL DEF Spec
-----------------------------------------------------------------------------
(***************************************************************************)
(* Dependency cycles.  A load of a cyclic extension always has a cyclic    *)
(* dependency still to load, or waits for the load of one; that one never  *)
(* succeeds, for the same reason, so nobody is the first to get through.   *)
(***************************************************************************)

HasCyclic(t) == \E i \in DOMAIN t : t[i] \in Cyclic

\* The dependency that frame c waits for.
LastChild(c, d) ==
  /\ d \in DOMAIN calls
  /\ calls[d].parent = c
  /\ \A x \in DOMAIN calls : calls[x].parent = c => x <= d

\* How far calls on a cyclic extension get.
Held(c) ==
  /\ calls[c].op = "load" =>
       calls[c].pc \in {"fast", "claim", "resolve", "slots", "deps", "await", "failed"}
  /\ calls[c].op = "unload" => calls[c].pc \in {"dependents", "removeMeta", "failed"}
  /\ calls[c].op = "reload" => calls[c].pc \in {"old", "failed"}
  /\ calls[c].pc = "deps" => HasCyclic(calls[c].todo)
  /\ calls[c].pc = "await" =>
       HasCyclic(calls[c].todo) \/ \A d : LastChild(c, d) => calls[d].name \in Cyclic

\* The files that have extension e in them.
OwnFiles(e) == FilesOf[e] \cup ReloadFiles[e]

FrameFile(c) == calls[c].file \in OwnFiles(calls[c].name) \cup {None}

CycleInv ==
  /\ \A c \in DOMAIN calls : FrameFile(c)
  /\ \A c \in DOMAIN calls : calls[c].name \in Cyclic => Held(c)
  /\ \A e \in Extensions : index[e] \in FilesOf[e] \cup {None}
  /\ \A e \in Cyclic : loaded[e] = 0 /\ loadedMeta[e] = 0 /\ up \cap FilesOf[e] = {}

\* Every file of a cyclic extension has a cyclic dependency.
LEMMA CyclicNeeds ==
  /\ Cyclic \subseteq Extensions
  /\ \A e \in Cyclic : \A f \in FilesOf[e] : HasCyclic(DependsOn[f])
<1> SUFFICES ASSUME NEW e \in Cyclic
             PROVE  e \in Extensions /\ \A f \in FilesOf[e] : HasCyclic(DependsOn[f])
  OBVIOUS
<1>1. PICK S \in SUBSET Extensions : e \in S /\ \A d \in S : \A f \in FilesOf[d] : Needs(f) \cap S # {}
  BY DEF Cyclic
<1>2. S \subseteq Cyclic
  BY <1>1 DEF Cyclic
<1>3. ASSUME NEW f \in FilesOf[e]
      PROVE  HasCyclic(DependsOn[f])
  <2>1. PICK i \in DOMAIN DependsOn[f] : DependsOn[f][i] \in S
    BY <1>1 DEF Needs
  <2> QED
    BY <1>2, <2>1 DEF HasCyclic
<1> QED
  BY <1>1, <1>3

\* Taking the first dependency off the list.
LEMMA CyclicTail ==
  ASSUME NEW t \in Seq(Extensions), t # <<>>, HasCyclic(t)
  PROVE  Head(t) \in Cyclic \/ HasCyclic(Tail(t))
<1>1. PICK i \in DOMAIN t : t[i] \in Cyclic
  BY DEF HasCyclic
<1>2. CASE i = 1
  BY <1>1, <1>2
<1>3. CASE i # 1
  <2>1. i \in 2..Len(t)
    BY <1>1, <1>3
  <2>2. Tail(t) \in Seq(Extensions) /\ Len(Tail(t)) = Len(t) - 1 /\ Tail(t)[i - 1] = t[i]
    BY <2>1
  <2>3. i - 1 \in DOMAIN Tail(t)
    BY <2>1, <2>2
  <2> QED
    BY <1>1, <2>2, <2>3 DEF HasCyclic
<1> QED
  BY <1>2, <1>3

\* No file of a cyclic extension is that of an extension that is not cyclic.
LEMMA NotCyclicFile ==
  ASSUME NEW e \in Cyclic, NEW d \in Extensions, d \notin Cyclic,
         NEW f \in OwnFiles(d) \cup {None}
  PROVE  f \notin FilesOf[e]
BY FrameworkAssumption, CyclicNeeds DEF OwnFiles

\* The maps and images of cyclic extensions.
CyclicOut ==
  /\ \A e \in Extensions : index[e] \in FilesOf[e] \cup {None}
  /\ \A e \in Cyclic : loaded[e] = 0 /\ loadedMeta[e] = 0 /\ up \cap FilesOf[e] = {}

\* A step of one frame is to be judged by that frame and the maps.
LEMMA CycleLocal ==
  ASSUME FramesInv, CycleInv, NEW c, Only(c),
         calls'[c].name = calls[c].name, calls'[c].parent = calls[c].parent,
         FrameFile(c)', calls[c].name \in Cyclic => Held(c)', CyclicOut'
  PROVE  CycleInv'
<1>1. \A d \in DOMAIN calls : /\ calls'[d].name = calls[d].name
                              /\ calls'[d].parent = calls[d].parent
  BY DEF Only
<1>2. \A d, x : LastChild(d, x)' <=> LastChild(d, x)
  BY <1>1 DEF Only, LastChild
<1>3. ASSUME NEW d \in DOMAIN calls', d # c
      PROVE  FrameFile(d)' /\ (calls'[d].name \in Cyclic => Held(d)')
  <2>1. d \in DOMAIN calls /\ calls'[d] = calls[d]
    BY <1>3 DEF Only
  <2>2. FrameFile(d)'
    BY <2>1 DEF CycleInv, FrameFile
  <2>3. ASSUME calls[d].name \in Cyclic
        PROVE  Held(d)'
    <3>1. Held(d)
      BY <2>1, <2>3 DEF CycleInv
    <3>2. \A x : LastChild(d, x)' => x \in DOMAIN calls /\ calls'[x].name = calls[x].name
      BY <1>1, <1>2 DEF LastChild
    <3> QED
      BY <1>2, <2>1, <3>1, <3>2 DEF Held
  <2> QED
    BY <2>1, <2>2, <2>3
<1>4. \A d \in DOMAIN calls' : FrameFile(d)' /\ (calls'[d].name \in Cyclic => Held(d)')
  BY <1>3
<1> QED
  BY <1>4 DEF CycleInv, CyclicOut

\* A step that lets the frame's file and the maps be.
CycleQuiet(c) ==
  /\ Only(c)
  /\ calls'[c].op = calls[c].op
  /\ calls'[c].name = calls[c].name
  /\ calls'[c].parent = calls[c].parent
  /\ calls'[c].file = calls[c].file
  /\ index' = index

\* A step of one frame that keeps its file.
LEMMA CycleStays ==
  ASSUME FramesInv, CycleInv, NEW c, CycleQuiet(c),
         calls[c].name \in Cyclic => Held(c)',
         \A e \in Cyclic : loaded'[e] = 0 /\ loadedMeta'[e] = 0 /\ up' \cap FilesOf[e] = {}
  PROVE  CycleInv'
<1>1. FrameFile(c)'
  BY DEF CycleQuiet, Only, FrameFile, CycleInv
<1>2. CyclicOut'
  BY DEF CyclicOut, CycleInv, CycleQuiet
<1> QED
  BY <1>1, <1>2, CycleLocal DEF CycleQuiet

\* Every step of a call keeps cyclic extensions out.
LEMMA CycleStep ==
  ASSUME TypeInv, CycleInv, NEW c, AnyStep(c)
  PROVE  CycleInv'
<1>0. FramesInv
  BY DEF TypeInv
<1> DEFINE Cyc == calls[c].name \in Cyclic
           Quiet == /\ c \in DOMAIN calls
                    /\ CycleQuiet(c)
                    /\ Cyc => Held(c)'
           Out == \A e \in Cyclic : loaded'[e] = 0 /\ loadedMeta'[e] = 0
                                      /\ up' \cap FilesOf[e] = {}
<1>a. ASSUME c \in DOMAIN calls
      PROVE  /\ FrameOK(c)
             /\ FrameFile(c)
             /\ calls[c].op \in {"load", "unload", "reload"}
             /\ calls[c].name \in Extensions
             /\ Cyc => Held(c) /\ loaded[calls[c].name] = 0 /\ loadedMeta[calls[c].name] = 0
  BY <1>0, <1>a, FrameNumbers DEF FrameType, CycleInv
<1>b. ASSUME c \in DOMAIN calls
      PROVE  /\ \A p \in Pcs : Goto(c, p) => Moves(c, p)
             /\ \A p \in Pcs : Return(c, p) => Ends(c, p)
  BY <1>0, <1>b, FrameSteps
<1>d. \A H : DropLibraries(H) => up' \subseteq up
  BY DropShrinks
<1>e. \A e \in Cyclic : e \in Extensions /\ loaded[e] = 0 /\ loadedMeta[e] = 0
                          /\ up \cap FilesOf[e] = {}
  BY CyclicNeeds DEF CycleInv
<1>q. Quiet /\ Out => CycleInv'
  BY <1>0, CycleStays
<1>t. loaded \in [Extensions -> Nat] /\ loadedMeta \in [Extensions -> Nat]
  BY DEF TypeInv, MapTypes
<1> HIDE DEF Quiet, Out
<1>1. CASE FastPath(c)
  <2>1. Quiet
    BY <1>1, <1>a, <1>b
       DEF FastPath, Quiet, CycleQuiet, Held, HasCyclic, At, FailLoad, Fail, AbandonReload, Moves, Ends,
           Becomes, FrameOK, NameOf, Pcs, LoadPcs, UnloadPcs, ReloadPcs, mapVars
  <2>2. Out
    BY <1>1, <1>d, <1>e DEF FastPath, Out, AbandonReload, mapVars, liveVars
  <2> QED
    BY <1>q, <2>1, <2>2
<1>2. CASE Claim(c)
  <2>1. Quiet
    BY <1>2, <1>a, <1>b
       DEF Claim, Quiet, CycleQuiet, Held, HasCyclic, At, FailLoad, Fail, AbandonReload, Moves, Ends,
           Becomes, FrameOK, NameOf, Pcs, LoadPcs, UnloadPcs, ReloadPcs, mapVars
  <2>2. Out
    BY <1>2, <1>d, <1>e DEF Claim, Out, AbandonReload, mapVars, liveVars
  <2> QED
    BY <1>q, <2>1, <2>2
<1>3. CASE Resolve(c)
  <2>1. /\ c \in DOMAIN calls /\ calls[c].pc = "resolve"
        /\ UNCHANGED <<loaded, loadedMeta, up>>
        /\ \/ Ends(c, "failed") /\ index' = index
           \/ \E f \in KnownFiles(NameOf(c)) :
                /\ index' = [index EXCEPT ![NameOf(c)] = f]
                /\ \/ Ends(c, "failed")
                   \/ /\ Only(c)
                      /\ Becomes(c, "slots", f, calls[c].todo, calls[c].regs, calls[c].old,
                                 calls[c].oldLib)
    BY <1>3, <1>b, ResolveEffect DEF FailLoad, Pcs, LoadPcs, liveVars
  <2>2. NameOf(c) \in Extensions /\ KnownFiles(NameOf(c)) \subseteq FilesOf[NameOf(c)]
    BY <1>a, <2>1 DEF NameOf, KnownFiles, CycleInv
  <2>3. /\ Only(c)
        /\ calls'[c].op = calls[c].op
        /\ calls'[c].name = calls[c].name
        /\ calls'[c].parent = calls[c].parent
        /\ calls'[c].pc \in {"slots", "failed"}
        /\ calls'[c].file = calls[c].file \/ calls'[c].file \in FilesOf[NameOf(c)]
    BY <2>1, <2>2 DEF Ends, Becomes
  <2>4. \A e \in Extensions : index'[e] \in FilesOf[e] \cup {None}
    BY <2>1, <2>2 DEF CycleInv, TypeInv, MapTypes
  <2>5. CyclicOut'
    BY <1>e, <2>1, <2>4 DEF CyclicOut
  <2>6. FrameFile(c)'
    BY <1>a, <2>1, <2>3 DEF FrameFile, OwnFiles, NameOf
  <2>7. Cyc => Held(c)'
    BY <1>a, <2>1, <2>3 DEF Held, FrameOK, UnloadPcs, ReloadPcs
  <2> QED
    BY <1>0, <2>3, <2>5, <2>6, <2>7, CycleLocal
<1>4. CASE CheckSlots(c)
  <2>3. /\ c \in DOMAIN calls /\ calls[c].pc = "slots"
        /\ \/ Ends(c, "failed")
           \/ /\ Only(c)
              /\ Becomes(c, "deps", calls[c].file, DependsOn[FileOf(c)], calls[c].regs, calls[c].old,
                         calls[c].oldLib)
        /\ UNCHANGED <<index, loaded, loadedMeta, up>>
    BY <1>4, <1>b, CheckSlotsEffect DEF FailLoad, Pcs, LoadPcs, liveVars
  <2>4. calls[c].op = "load" /\ FileOf(c) \in FilesOf[calls[c].name]
    BY <1>a, <2>3 DEF FrameOK, FileOK, Opening, UnloadPcs, ReloadPcs, FileOf
  <2>5. Cyc => HasCyclic(DependsOn[FileOf(c)])
    BY <2>4, CyclicNeeds
  <2>1. Quiet
    BY <2>3, <2>4, <2>5 DEF Quiet, CycleQuiet, Held, Ends, Becomes
  <2>2. Out
    BY <1>e, <2>3 DEF Out
  <2> QED
    BY <1>q, <2>1, <2>2
<1>5. CASE LoadDependency(c)
  <2>1. /\ c \in DOMAIN calls /\ calls[c].pc = "deps" /\ calls[c].todo # <<>>
        /\ Grows("load", Head(calls[c].todo), None, "fast", c)
        /\ \A d \in DOMAIN calls : d # c => calls'[d] = calls[d]
        /\ Becomes(c, "await", calls[c].file, Tail(calls[c].todo), calls[c].regs,
                   calls[c].old, calls[c].oldLib)
        /\ UNCHANGED <<index, loaded, loadedMeta, up>>
    BY <1>5, LoadDependencyEffect DEF mapVars, liveVars
  <2>2. /\ calls[c].op = "load"
        /\ calls[c].todo \in Seq(Extensions)
        /\ \A d \in DOMAIN calls : d \in Nat
        /\ NewFrame \in Nat
        /\ c < NewFrame
    BY <1>0, <1>a, <2>1, FrameNumbers DEF FrameOK, UnloadPcs, ReloadPcs, FrameType, NewFrame, Grows
  <2>3. \A d \in DOMAIN calls : /\ calls'[d].name = calls[d].name
                                /\ calls'[d].parent = calls[d].parent
                                /\ calls'[d].file = calls[d].file
    BY <2>1 DEF Becomes
  <2>4. ASSUME NEW x, LastChild(c, x)'
        PROVE  x = NewFrame
    <3>1. x \in DOMAIN calls' /\ NewFrame <= x
      BY <2>1, <2>4 DEF LastChild, Grows
    <3> QED
      BY <2>1, <2>2, <3>1 DEF Grows
  <2>5. ASSUME NEW d \in DOMAIN calls'
        PROVE  FrameFile(d)' /\ (calls'[d].name \in Cyclic => Held(d)')
    <3>1. CASE d = NewFrame
      BY <2>1, <3>1 DEF Grows, FrameFile, Held
    <3>2. CASE d = c
      <4>1. Cyc => Head(calls[c].todo) \in Cyclic \/ HasCyclic(Tail(calls[c].todo))
        BY <1>a, <2>1, <2>2, CyclicTail DEF Held
      <4>2. calls'[c].pc = "await" /\ calls'[c].todo = Tail(calls[c].todo)
            /\ calls'[c].op = "load" /\ calls'[c].name = calls[c].name
        BY <2>1, <2>2 DEF Becomes
      <4>3. calls'[NewFrame].name = Head(calls[c].todo)
        BY <2>1 DEF Grows
      <4>4. FrameFile(c)'
        BY <1>a, <2>1, <2>3 DEF FrameFile
      <4> QED
        BY <2>4, <3>2, <4>1, <4>2, <4>3, <4>4 DEF Held
    <3>3. CASE d # NewFrame /\ d # c
      <4>1. d \in DOMAIN calls /\ calls'[d] = calls[d]
        BY <2>1, <3>3 DEF Grows
      <4>2. FrameFile(d)'
        BY <4>1 DEF CycleInv, FrameFile
      <4>3. ASSUME calls[d].name \in Cyclic
            PROVE  Held(d)'
        <5>1. Held(d)
          BY <4>1, <4>3 DEF CycleInv
        <5>2. ASSUME NEW x, LastChild(d, x)'
              PROVE  LastChild(d, x) /\ calls'[x].name = calls[x].name
          <6>1. x \in DOMAIN calls' /\ x # NewFrame
            BY <2>1, <3>3, <5>2 DEF LastChild, Grows
          <6> QED
            BY <2>1, <2>3, <5>2, <6>1 DEF LastChild, Grows
        <5> QED
          BY <4>1, <5>1, <5>2 DEF Held
      <4> QED
        BY <4>1, <4>2, <4>3
    <3> QED
      BY <3>1, <3>2, <3>3
  <2> QED
    BY <2>1, <2>5 DEF CycleInv
<1>6. CASE DependencyReturns(c)
  <2>0. c \in DOMAIN calls /\ calls[c].pc = "await" /\ calls[c].op = "load"
    BY <1>6, <1>a DEF DependencyReturns, At, FrameOK, UnloadPcs, ReloadPcs
  <2>5. PICK d \in DOMAIN calls :
          /\ LastChild(c, d)
          /\ \/ calls[d].pc = "ok" /\ Moves(c, "deps")
             \/ Ends(c, "failed")
    BY <1>6, <1>b, <2>0 DEF DependencyReturns, At, FailLoad, LastChild, Pcs, LoadPcs
  <2>6. calls[d].name \in Cyclic => calls[d].pc # "ok"
    <3>1. calls[d].op \in {"load", "unload", "reload"}
      BY <1>0, FrameNumbers DEF FrameType
    <3> QED
      BY <3>1 DEF CycleInv, Held
  <2>1. Quiet
    <3>1. Cyc /\ Moves(c, "deps") => HasCyclic(calls[c].todo)
      BY <1>a, <2>0, <2>5, <2>6 DEF Held, Moves, Ends, Becomes
    <3>2. CycleQuiet(c)
      BY <1>6, <2>5 DEF DependencyReturns, CycleQuiet, Moves, Ends, Becomes
    <3> QED
      BY <2>0, <2>5, <3>1, <3>2 DEF Quiet, Held, Moves, Ends, Becomes
  <2>2. Out
    BY <1>6, <1>d, <1>e DEF DependencyReturns, Out, AbandonReload, mapVars, liveVars
  <2> QED
    BY <1>q, <2>1, <2>2
<1>7. CASE OpenLibrary(c)
  <2>1. Quiet
    BY <1>7, <1>a, <1>b
       DEF OpenLibrary, Quiet, CycleQuiet, Held, HasCyclic, At, FailLoad, Fail, AbandonReload, Moves, Ends,
           Becomes, FrameOK, NameOf, Pcs, LoadPcs, UnloadPcs, ReloadPcs, mapVars
  <2>2. Out
    BY <1>7, <1>d, <1>e DEF OpenLibrary, Out, AbandonReload, mapVars, liveVars
  <2> QED
    BY <1>q, <2>1, <2>2
<1>8. CASE InitExtension(c)
  <2>1. Quiet
    BY <1>8, <1>a, <1>b
       DEF InitExtension, Quiet, CycleQuiet, Held, HasCyclic, At, FailLoad, Fail, AbandonReload, Moves, Ends,
           Becomes, FrameOK, NameOf, Pcs, LoadPcs, UnloadPcs, ReloadPcs, mapVars
  <2>2. Out
    <3>1. /\ c \in DOMAIN calls /\ calls[c].pc = "init"
          /\ loaded' = loaded /\ loadedMeta' = loadedMeta
          /\ up' \subseteq up \cup {calls[c].file}
      BY <1>8, <1>d DEF InitExtension, At, AbandonReload, mapVars
    <3>2. calls[c].name \notin Cyclic
      BY <1>a, <3>1 DEF Held
    <3>3. \A e \in Cyclic : calls[c].file \notin FilesOf[e]
      BY <1>a, <3>1, <3>2, NotCyclicFile DEF FrameFile
    <3> QED
      BY <1>e, <3>1, <3>3 DEF Out
  <2> QED
    BY <1>q, <2>1, <2>2
<1>9. CASE AttachOwned(c)
  <2>1. Quiet
    BY <1>9, <1>a, <1>b
       DEF AttachOwned, Quiet, CycleQuiet, Held, HasCyclic, At, FailLoad, Fail, AbandonReload, Moves, Ends,
           Becomes, FrameOK, NameOf, Pcs, LoadPcs, UnloadPcs, ReloadPcs, mapVars
  <2>2. Out
    BY <1>9, <1>d, <1>e DEF AttachOwned, Out, AbandonReload, mapVars, liveVars
  <2> QED
    BY <1>q, <2>1, <2>2
<1>10. CASE Snapshot(c)
  <2>1. Quiet
    BY <1>10, <1>a, <1>b, SnapshotEffect
       DEF Quiet, CycleQuiet, Held, HasCyclic, At, FailLoad, Fail, AbandonReload, Moves, Ends,
           Becomes, FrameOK, NameOf, Pcs, LoadPcs, UnloadPcs, ReloadPcs, mapVars
  <2>2. Out
    BY <1>10, <1>d, <1>e, SnapshotEffect DEF Out, AbandonReload, mapVars, liveVars
  <2> QED
    BY <1>q, <2>1, <2>2
<1>11. CASE PushEntries(c)
  <2>1. Quiet
    BY <1>11, <1>a, <1>b, PushEntriesEffect
       DEF Quiet, CycleQuiet, Held, HasCyclic, At, FailLoad, Fail, AbandonReload, Moves, Ends,
           Becomes, FrameOK, NameOf, Pcs, LoadPcs, UnloadPcs, ReloadPcs, mapVars
  <2>2. Out
    BY <1>11, <1>d, <1>e, PushEntriesEffect DEF Out, AbandonReload, mapVars, liveVars
  <2> QED
    BY <1>q, <2>1, <2>2
<1>12. CASE StoreLibrary(c)
  <2>1. Quiet
    BY <1>12, <1>a, <1>b
       DEF StoreLibrary, Quiet, CycleQuiet, Held, HasCyclic, At, FailLoad, Fail, AbandonReload, Moves, Ends,
           Becomes, FrameOK, NameOf, Pcs, LoadPcs, UnloadPcs, ReloadPcs, mapVars
  <2>2. Out
    <3>1. c \in DOMAIN calls /\ calls[c].pc \in {"push", "storeMeta"}
      BY <1>12 DEF StoreLibrary, At
    <3>2. calls[c].name \notin Cyclic /\ calls[c].name \in Extensions
      BY <1>a, <3>1 DEF Held
    <3> QED
      BY <1>12, <1>d, <1>e, <1>t, <3>2 DEF StoreLibrary, Out, NameOf
  <2> QED
    BY <1>q, <2>1, <2>2
<1>13. CASE StoreMeta(c)
  <2>1. Quiet
    BY <1>13, <1>a, <1>b
       DEF StoreMeta, Quiet, CycleQuiet, Held, HasCyclic, At, FailLoad, Fail, AbandonReload, Moves, Ends,
           Becomes, FrameOK, NameOf, Pcs, LoadPcs, UnloadPcs, ReloadPcs, mapVars
  <2>2. Out
    <3>1. c \in DOMAIN calls /\ calls[c].pc \in {"push", "storeMeta"}
      BY <1>13 DEF StoreMeta, At
    <3>2. calls[c].name \notin Cyclic /\ calls[c].name \in Extensions
      BY <1>a, <3>1 DEF Held
    <3> QED
      BY <1>13, <1>d, <1>e, <1>t, <3>2 DEF StoreMeta, Out, NameOf
  <2> QED
    BY <1>q, <2>1, <2>2
<1>14. CASE FinishLoad(c)
  <2>1. Quiet
    BY <1>14, <1>a, <1>b
       DEF FinishLoad, Quiet, CycleQuiet, Held, HasCyclic, At, FailLoad, Fail, AbandonReload, Moves, Ends,
           Becomes, FrameOK, NameOf, Pcs, LoadPcs, UnloadPcs, ReloadPcs, mapVars
  <2>2. Out
    BY <1>14, <1>d, <1>e DEF FinishLoad, Out, AbandonReload, mapVars, liveVars
  <2> QED
    BY <1>q, <2>1, <2>2
<1>15. CASE CheckDependents(c)
  <2>1. Quiet
    BY <1>15, <1>a, <1>b
       DEF CheckDependents, Quiet, CycleQuiet, Held, HasCyclic, At, FailLoad, Fail, AbandonReload, Moves, Ends,
           Becomes, FrameOK, NameOf, Pcs, LoadPcs, UnloadPcs, ReloadPcs, mapVars
  <2>2. Out
    BY <1>15, <1>d, <1>e DEF CheckDependents, Out, AbandonReload, mapVars, liveVars
  <2> QED
    BY <1>q, <2>1, <2>2
<1>16. CASE RemoveMeta(c)
  <2>1. Quiet
    BY <1>16, <1>a, <1>b, RemoveMetaEffect
       DEF Quiet, CycleQuiet, Held, HasCyclic, At, FailLoad, Fail, AbandonReload, Moves, Ends,
           Becomes, FrameOK, NameOf, Pcs, LoadPcs, UnloadPcs, ReloadPcs, mapVars
  <2>2. Out
    <3>1. /\ c \in DOMAIN calls
          /\ loaded' = loaded \/ loaded' = [loaded EXCEPT ![NameOf(c)] = 0]
          /\ loadedMeta' = loadedMeta \/ loadedMeta' = [loadedMeta EXCEPT ![NameOf(c)] = 0]
          /\ up' \subseteq up
      BY <1>16, <1>d, RemoveMetaEffect DEF liveVars
    <3> QED
      BY <1>e, <1>t, <3>1 DEF Out
  <2> QED
    BY <1>q, <2>1, <2>2
<1>17. CASE RemoveEntries(c)
  <2>1. Quiet
    BY <1>17, <1>a, <1>b
       DEF RemoveEntries, Quiet, CycleQuiet, Held, HasCyclic, At, FailLoad, Fail, AbandonReload, Moves, Ends,
           Becomes, FrameOK, NameOf, Pcs, LoadPcs, UnloadPcs, ReloadPcs, mapVars
  <2>2. Out
    BY <1>17, <1>d, <1>e DEF RemoveEntries, Out, AbandonReload, mapVars, liveVars
  <2> QED
    BY <1>q, <2>1, <2>2
<1>18. CASE RemoveOwned(c)
  <2>1. Quiet
    BY <1>18, <1>a, <1>b
       DEF RemoveOwned, Quiet, CycleQuiet, Held, HasCyclic, At, FailLoad, Fail, AbandonReload, Moves, Ends,
           Becomes, FrameOK, NameOf, Pcs, LoadPcs, UnloadPcs, ReloadPcs, mapVars
  <2>2. Out
    BY <1>18, <1>d, <1>e DEF RemoveOwned, Out, AbandonReload, mapVars, liveVars
  <2> QED
    BY <1>q, <2>1, <2>2
<1>19. CASE RemoveLibrary(c)
  <2>1. Quiet
    BY <1>19, <1>a, <1>b, RemoveLibraryEffect
       DEF Quiet, CycleQuiet, Held, HasCyclic, At, FailLoad, Fail, AbandonReload, Moves, Ends,
           Becomes, FrameOK, NameOf, Pcs, LoadPcs, UnloadPcs, ReloadPcs, mapVars
  <2>2. Out
    <3>1. /\ c \in DOMAIN calls
          /\ loaded' = loaded \/ loaded' = [loaded EXCEPT ![NameOf(c)] = 0]
          /\ loadedMeta' = loadedMeta \/ loadedMeta' = [loadedMeta EXCEPT ![NameOf(c)] = 0]
          /\ up' \subseteq up
      BY <1>19, <1>d, RemoveLibraryEffect DEF liveVars
    <3> QED
      BY <1>e, <1>t, <3>1 DEF Out
  <2> QED
    BY <1>q, <2>1, <2>2
<1>20. CASE Deinit(c)
  <2>1. Quiet
    BY <1>20, <1>a, <1>b
       DEF Deinit, Quiet, CycleQuiet, Held, HasCyclic, At, FailLoad, Fail, AbandonReload, Moves, Ends,
           Becomes, FrameOK, NameOf, Pcs, LoadPcs, UnloadPcs, ReloadPcs, mapVars
  <2>2. Out
    BY <1>20, <1>d, <1>e DEF Deinit, Out, AbandonReload, mapVars, liveVars
  <2> QED
    BY <1>q, <2>1, <2>2
<1>21. CASE CloseOld(c)
  <2>1. Quiet
    BY <1>21, <1>a, <1>b
       DEF CloseOld, Quiet, CycleQuiet, Held, HasCyclic, At, FailLoad, Fail, AbandonReload, Moves, Ends,
           Becomes, FrameOK, NameOf, Pcs, LoadPcs, UnloadPcs, ReloadPcs, mapVars
  <2>2. Out
    BY <1>21, <1>d, <1>e DEF CloseOld, Out, AbandonReload, mapVars, liveVars
  <2> QED
    BY <1>q, <2>1, <2>2
<1>22. CASE FindOld(c)
  <2>1. Quiet
    BY <1>22, <1>a, <1>b, FindOldEffect
       DEF Quiet, CycleQuiet, Held, HasCyclic, At, FailLoad, Fail, AbandonReload, Moves, Ends,
           Becomes, FrameOK, NameOf, Pcs, LoadPcs, UnloadPcs, ReloadPcs, mapVars
  <2>2. Out
    BY <1>22, <1>d, <1>e, FindOldEffect DEF Out, AbandonReload, mapVars, liveVars
  <2> QED
    BY <1>q, <2>1, <2>2
<1>23. CASE PrepareReload(c)
  <2>1. Quiet
    BY <1>23, <1>a, <1>b, PrepareReloadEffect
       DEF Quiet, CycleQuiet, Held, HasCyclic, At, FailLoad, Fail, AbandonReload, Moves, Ends,
           Becomes, FrameOK, NameOf, Pcs, LoadPcs, UnloadPcs, ReloadPcs, mapVars
  <2>2. Out
    BY <1>23, <1>d, <1>e, PrepareReloadEffect DEF Out, AbandonReload, mapVars, liveVars
  <2> QED
    BY <1>q, <2>1, <2>2
<1>24. CASE InitNew(c)
  <2>1. Quiet
    BY <1>24, <1>a, <1>b
       DEF InitNew, Quiet, CycleQuiet, Held, HasCyclic, At, FailLoad, Fail, AbandonReload, Moves, Ends,
           Becomes, FrameOK, NameOf, Pcs, LoadPcs, UnloadPcs, ReloadPcs, mapVars
  <2>2. Out
    <3>1. /\ c \in DOMAIN calls /\ calls[c].pc = "initNew"
          /\ loaded' = loaded /\ loadedMeta' = loadedMeta
          /\ up' \subseteq up \cup {calls[c].file}
      BY <1>24, <1>d DEF InitNew, At, AbandonReload, mapVars
    <3>2. calls[c].name \notin Cyclic
      BY <1>a, <3>1 DEF Held
    <3>3. \A e \in Cyclic : calls[c].file \notin FilesOf[e]
      BY <1>a, <3>1, <3>2, NotCyclicFile DEF FrameFile
    <3> QED
      BY <1>e, <3>1, <3>3 DEF Out
  <2> QED
    BY <1>q, <2>1, <2>2
<1>25. CASE RemoveOld(c)
  <2>1. Quiet
    BY <1>25, <1>a, <1>b, RemoveOldEffect
       DEF Quiet, CycleQuiet, Held, HasCyclic, At, FailLoad, Fail, AbandonReload, Moves, Ends,
           Becomes, FrameOK, NameOf, Pcs, LoadPcs, UnloadPcs, ReloadPcs, mapVars
  <2>2. Out
    <3>1. /\ c \in DOMAIN calls
          /\ loaded' = loaded \/ loaded' = [loaded EXCEPT ![NameOf(c)] = 0]
          /\ loadedMeta' = loadedMeta \/ loadedMeta' = [loadedMeta EXCEPT ![NameOf(c)] = 0]
          /\ up' \subseteq up
      BY <1>25, <1>d, RemoveOldEffect DEF liveVars
    <3> QED
      BY <1>e, <1>t, <3>1 DEF Out
  <2> QED
    BY <1>q, <2>1, <2>2
<1>26. CASE PushPrepared(c)
  <2>1. Quiet
    BY <1>26, <1>a, <1>b, PushPreparedEffect
       DEF Quiet, CycleQuiet, Held, HasCyclic, At, FailLoad, Fail, AbandonReload, Moves, Ends,
           Becomes, FrameOK, NameOf, Pcs, LoadPcs, UnloadPcs, ReloadPcs, mapVars
  <2>2. Out
    BY <1>26, <1>d, <1>e, PushPreparedEffect DEF Out, AbandonReload, mapVars, liveVars
  <2> QED
    BY <1>q, <2>1, <2>2
<1>27. CASE StoreReloaded(c)
  <2>1. Quiet
    BY <1>27, <1>a, <1>b
       DEF StoreReloaded, Quiet, CycleQuiet, Held, HasCyclic, At, FailLoad, Fail, AbandonReload, Moves, Ends,
           Becomes, FrameOK, NameOf, Pcs, LoadPcs, UnloadPcs, ReloadPcs, mapVars
  <2>2. Out
    <3>1. c \in DOMAIN calls /\ calls[c].pc \in {"push", "storeMeta"}
      BY <1>27 DEF StoreReloaded, At
    <3>2. calls[c].name \notin Cyclic /\ calls[c].name \in Extensions
      BY <1>a, <3>1 DEF Held
    <3> QED
      BY <1>27, <1>d, <1>e, <1>t, <3>2 DEF StoreReloaded, Out, NameOf
  <2> QED
    BY <1>q, <2>1, <2>2
<1>28. CASE CommitReload(c)
  <2>1. Quiet
    BY <1>28, <1>a, <1>b
       DEF CommitReload, Quiet, CycleQuiet, Held, HasCyclic, At, FailLoad, Fail, AbandonReload, Moves, Ends,
           Becomes, FrameOK, NameOf, Pcs, LoadPcs, UnloadPcs, ReloadPcs, mapVars
  <2>2. Out
    BY <1>28, <1>d, <1>e DEF CommitReload, Out, AbandonReload, mapVars, liveVars
  <2> QED
    BY <1>q, <2>1, <2>2
<1>29. CASE DropPrepared(c)
  <2>1. Quiet
    BY <1>29, <1>a, <1>b
       DEF DropPrepared, Quiet, CycleQuiet, Held, HasCyclic, At, FailLoad, Fail, AbandonReload, Moves, Ends,
           Becomes, FrameOK, NameOf, Pcs, LoadPcs, UnloadPcs, ReloadPcs, mapVars
  <2>2. Out
    BY <1>29, <1>d, <1>e DEF DropPrepared, Out, AbandonReload, mapVars, liveVars
  <2> QED
    BY <1>q, <2>1, <2>2
<1> QED
  BY <1>1, <1>2, <1>3, <1>4, <1>5, <1>6, <1>7, <1>8, <1>9, <1>10, <1>11, <1>12, <1>13, <1>14, <1>15,
     <1>16, <1>17, <1>18, <1>19, <1>20, <1>21, <1>22, <1>23, <1>24, <1>25, <1>26, <1>27, <1>28, <1>29
     DEF AnyStep, Step, LoadStep, UnloadStep, ReloadStep

\* Calls on cyclic extensions never get as far as to open a library.
LEMMA CyclesHeld == Spec => []CycleInv
<1>1. Init => CycleInv
  BY CyclicNeeds DEF Init, CycleInv
<1>2. TypeInv /\ CycleInv /\ [Next]_vars => CycleInv'
  <2> SUFFICES ASSUME TypeInv, CycleInv, [Next]_vars
               PROVE  CycleInv'
    OBVIOUS
  <2>0. FramesInv
    BY DEF TypeInv
  <2>1. CASE Scan \/ (\E s \in HostSlots : AttachRegister(s)) \/ UNCHANGED vars
    <3>1. UNCHANGED <<calls, loaded, loadedMeta, up>>
      BY <2>1 DEF Scan, AttachRegister, vars, mapVars, liveVars
    <3>2. \A e \in Extensions : index'[e] \in FilesOf[e] \cup {None}
      BY <2>1 DEF Scan, AttachRegister, vars, mapVars, CycleInv
    <3> QED
      BY <3>1, <3>2 DEF CycleInv, FrameFile, Held, LastChild
  <2>2. ASSUME NEW e \in Extensions,
               CallLoad(e) \/ CallUnload(e) \/ (\E f \in ReloadFiles[e] : CallReload(e, f))
        PROVE  CycleInv'
    <3>1. \/ Begins("load", e, None, "fast")
          \/ Begins("unload", e, None, "dependents")
          \/ \E f \in ReloadFiles[e] : Begins("reload", e, f, "old")
      BY <2>0, <2>2, StartKinds, StartFrame DEF MaybeFile, Pcs, LoadPcs, UnloadPcs, ReloadPcs
    <3>2. UNCHANGED <<index, loaded, loadedMeta, up>>
      BY <2>2, StartKinds DEF Start, mapVars, liveVars
    <3>3. 0 \notin DOMAIN calls /\ NewFrame # 0
      BY <2>0, FrameNumbers DEF NewFrame
    <3>4. ASSUME NEW d \in DOMAIN calls'
          PROVE  FrameFile(d)' /\ (calls'[d].name \in Cyclic => Held(d)')
      <4>1. CASE d = NewFrame
        BY <3>1, <4>1 DEF Begins, Grows, FrameFile, OwnFiles, Held
      <4>2. CASE d # NewFrame
        <5>1. d \in DOMAIN calls /\ calls'[d] = calls[d]
          BY <3>1, <4>2 DEF Begins, Grows
        <5>2. FrameFile(d)'
          BY <5>1 DEF CycleInv, FrameFile
        <5>3. ASSUME NEW x, LastChild(d, x)'
              PROVE  LastChild(d, x) /\ calls'[x] = calls[x]
          <6>1. x \in DOMAIN calls' /\ x # NewFrame
            BY <3>1, <3>3, <5>1, <5>3 DEF LastChild, Begins, Grows
          <6> QED
            BY <3>1, <5>3, <6>1 DEF LastChild, Begins, Grows
        <5>4. calls[d].name \in Cyclic => Held(d)'
          BY <5>1, <5>3 DEF CycleInv, Held
        <5> QED
          BY <5>1, <5>2, <5>4
      <4> QED
        BY <4>1, <4>2
    <3> QED
      BY <3>2, <3>4 DEF CycleInv
  <2>3. ASSUME NEW c \in 1..MaxFrames, Step(c) \/ CommitReload(c) \/ DropPrepared(c)
        PROVE  CycleInv'
    BY <2>3, CycleStep DEF AnyStep
  <2> QED
    BY <2>1, <2>2, <2>3 DEF Next
<1> QED
  BY <1>1, <1>2, TypeCorrect, PTL DEF Spec

\* An extension on a dependency cycle, or that depends on one, is never loaded and
\* its image is never initialised, whatever the dependency graph and however many
\* loads of its members run at once, each failing on a claim of another.
THEOREM CyclesAreRefused == Spec => []CyclesRefused
<1>1. CycleInv => CyclesRefused
  BY DEF CycleInv, CyclesRefused
<1> QED
  BY <1>1, CyclesHeld, PTL
-----------------------------------------------------------------------------
(***************************************************************************)
(* One call at a time.  The frames that have work to do form a stack: all  *)
(* but the last wait for the load of a dependency, which is the next one.  *)
(***************************************************************************)

Active(c) == c \in DOMAIN calls /\ calls[c].pc \notin Returned \cup {"prepared"}

StackInv ==
  \* every active frame but the last waits ...
  /\ \A c, d \in DOMAIN calls : Active(c) /\ Active(d) /\ c < d => calls[c].pc = "await"
  \* ... for a frame of its own
  /\ \A c, d \in DOMAIN calls : Active(c) /\ Active(d) /\ c < d =>
       \E x \in DOMAIN calls : Active(x) /\ calls[x].parent = c /\ x <= d
  \* a dependency is loaded when the ones before it have been
  /\ \A x, y \in DOMAIN calls :
       x < y /\ calls[x].parent = calls[y].parent /\ calls[x].parent # 0 => ~Active(x)
  \* the call from outside comes first, and is the only one
  /\ \A d \in DOMAIN calls : Active(d) =>
       \E r \in DOMAIN calls : Active(r) /\ calls[r].parent = 0 /\ r <= d
  /\ \A q, r \in DOMAIN calls :
       Active(q) /\ Active(r) /\ calls[q].parent = 0 /\ calls[r].parent = 0 => q = r

(***************************************************************************)
(* Libraries and metadata boxes: each one that exists is in its map, or is *)
(* in the hands of exactly one frame.                                      *)
(***************************************************************************)

\* The commit of a reload, between the removal of the old version and its end.
Swapping == {"removeEntries", "removeOwned", "deinit", "close"}

\* The frame has opened a library that is in no map yet.
Fresh(c) ==
  \/ calls[c].op = "load" /\ calls[c].pc \in {"init", "attach", "snapshot", "push"}
  \/ /\ calls[c].op = "reload"
     /\ calls[c].pc \in {"initNew", "prepared", "dependents", "removeOld", "attach", "push"}
                          \cup Swapping

\* The frame has a metadata box that is in no map yet.
FreshMeta(c) == Fresh(c) \/ (calls[c].op = "load" /\ calls[c].pc = "storeMeta")

\* The frame has taken the library that its name had.
HoldsLib(c) ==
  \/ calls[c].op = "unload" /\ calls[c].pc \in {"deinit", "close"}
  \/ calls[c].op = "reload" /\ calls[c].pc \in Swapping

\* unload has taken the metadata that its name had, and not yet the library.
HalfUnloaded(c) ==
  calls[c].op = "unload" /\ calls[c].pc \in {"removeEntries", "removeOwned", "removeLib"}

HoldsMeta(c) == HoldsLib(c) \/ HalfUnloaded(c)

\* load has stored the library, and not yet the metadata.
HalfLoaded(c) == calls[c].op = "load" /\ calls[c].pc = "storeMeta"

\* A load that has not found its name loaded, until it stores the library.
Absent(c) ==
  /\ calls[c].op = "load"
  /\ calls[c].pc \in {"claim", "resolve", "slots", "deps", "await", "init", "attach",
                      "snapshot", "push"}

\* The library m was brought by a call on e that has returned.
BroughtBy(m, e) == m \in DOMAIN calls /\ calls[m].name = e /\ calls[m].pc = "ok"

\* What a frame knows of the maps at its name.
Knows(c) ==
  LET e == calls[c].name IN
  /\ Absent(c) => loaded[e] = 0 /\ loadedMeta[e] = 0
  /\ HalfLoaded(c) => loaded[e] = c /\ loadedMeta[e] = 0
  /\ calls[c].op = "load" /\ calls[c].pc = "finish" => loaded[e] = c /\ loadedMeta[e] = c
  /\ HalfUnloaded(c) =>
       BroughtBy(calls[c].old, e) /\ loaded[e] = calls[c].old /\ loadedMeta[e] = 0
  /\ HoldsLib(c) =>
       /\ BroughtBy(calls[c].old, e) /\ BroughtBy(calls[c].oldLib, e)
       /\ loaded[e] = 0 /\ loadedMeta[e] = 0
  /\ calls[c].op = "reload" /\ calls[c].pc \in {"attach", "push"} =>
       loaded[e] = 0 /\ loadedMeta[e] = 0

\* The two maps agree but for the name that a call is halfway through.
MapsAgree ==
  \A e \in Extensions :
    \/ loaded[e] = loadedMeta[e]
    \/ \E c \in DOMAIN calls : calls[c].name = e /\ (HalfLoaded(c) \/ HalfUnloaded(c))

\* A loaded library was brought under its name.
LoadedBy ==
  \A e \in Extensions :
    loaded[e] # 0 =>
      \/ BroughtBy(loaded[e], e)
      \/ /\ loaded[e] \in DOMAIN calls
         /\ calls[loaded[e]].name = e
         /\ calls[loaded[e]].op = "load"
         /\ calls[loaded[e]].pc \in {"storeMeta", "finish"}

HandleOwned(m) ==
  /\ m # 0
  /\ \/ \E e \in Extensions : loaded[e] = m
     \/ m \in DOMAIN calls /\ Fresh(m)
     \/ \E c \in DOMAIN calls : HoldsLib(c) /\ calls[c].oldLib = m

MetaOwned(m) ==
  /\ m # 0
  /\ \/ \E e \in Extensions : loadedMeta[e] = m
     \/ m \in DOMAIN calls /\ FreshMeta(m)
     \/ \E c \in DOMAIN calls : HoldsMeta(c) /\ calls[c].old = m

NoneAstray ==
  /\ \A m \in Nat : m \in handles <=> HandleOwned(m)
  /\ \A m \in Nat : m \in metas <=> MetaOwned(m)

DataInv == (\A c \in DOMAIN calls : Knows(c)) /\ MapsAgree /\ LoadedBy /\ NoneAstray

(***************************************************************************)
(* Registers.                                                              *)
(***************************************************************************)

\* The libraries whose registers extension e may have in the slot map.
Serving(m, e) ==
  \/ m # 0 /\ loaded[e] = m
  \/ /\ m \in DOMAIN calls /\ calls[m].name = e
     /\ \/ calls[m].op = "load" /\ calls[m].pc \in {"snapshot", "push"}
        \/ calls[m].op = "reload" /\ calls[m].pc = "push"
  \/ \E c \in DOMAIN calls :
       /\ calls[c].name = e /\ calls[c].oldLib = m
       /\ calls[c].op = "reload" /\ calls[c].pc \in {"removeEntries", "removeOwned"}

\* The owner's registers are out of the slot map.
Disowned(c) ==
  \/ calls[c].op = "unload" /\ calls[c].pc \in {"removeLib", "deinit", "close"}
  \/ calls[c].op = "reload" /\ calls[c].pc \in {"deinit", "close", "attach"}

RegInv ==
  /\ \A s \in Slots : slotMap[s] # None /\ slotMap[s].file # None =>
       /\ slotMap[s].owner \in Extensions
       /\ \E m \in DOMAIN calls : Serving(m, slotMap[s].owner) /\ calls[m].file = slotMap[s].file
  /\ \A c \in DOMAIN calls : Disowned(c) =>
       \A s \in Slots : slotMap[s] # None /\ slotMap[s].file # None
                          => slotMap[s].owner # calls[c].name
  /\ \A c \in DOMAIN calls : calls[c].op = "load" /\ calls[c].pc = "push" =>
       \A r \in calls[c].regs :
         r.file = None \/ \E e \in Extensions : /\ loaded[e] # 0
                                               /\ calls[loaded[e]].file = r.file
  /\ stray = FALSE

(***************************************************************************)
(* The registry that callers see.                                          *)
(***************************************************************************)

Live == {e \in Extensions : loadedMeta[e] # 0}

\* A load that has its dependencies.
Supplied(c) ==
  calls[c].op = "load" /\ calls[c].pc \in {"init", "attach", "snapshot", "push", "storeMeta"}

\* The version in use of each extension is a file of its own.
LiveFiles == \A e \in Live : FileOf(loadedMeta[e]) \in OwnFiles(e)

RegistryInv ==
  /\ LiveFiles
  /\ \A c \in DOMAIN calls : Supplied(c) => Needs(calls[c].file) \subseteq Live
  /\ \A c \in DOMAIN calls : calls[c].pc \in {"deps", "await"} =>
       \A n \in Needs(calls[c].file) :
         \/ n \in Live
         \/ \E i \in DOMAIN calls[c].todo : calls[c].todo[i] = n
         \/ calls[c].pc = "await" /\ \E d \in DOMAIN calls : LastChild(c, d) /\ calls[d].name = n
  /\ \A c, d \in DOMAIN calls :
       calls[c].pc = "await" /\ LastChild(c, d) /\ calls[d].pc = "ok" => calls[d].name \in Live
  /\ \A c \in DOMAIN calls : calls[c].pc \in {"removeMeta", "removeOld"}
                                => Dependents(calls[c].name) = {}
-----------------------------------------------------------------------------
\* The frame with work to do: the others wait for it, or for a frame that does.
Top(c) ==
  /\ Active(c)
  /\ \A d \in DOMAIN calls : Active(d) /\ d # c => d < c /\ calls[d].pc = "await"

\* The operations of frames and where their steps start.
LEMMA StepKinds ==
  ASSUME FramesInv, NEW c, Step(c)
  PROVE  /\ c \in DOMAIN calls
         /\ Active(c)
         /\ calls[c].pc = "await" => DependencyReturns(c)
BY DEF Step, LoadStep, UnloadStep, ReloadStep, FastPath, Claim, Resolve, CheckSlots,
       LoadDependency, DependencyReturns, OpenLibrary, InitExtension, AttachOwned, Snapshot,
       PushEntries, StoreLibrary, StoreMeta, FinishLoad, CheckDependents, RemoveMeta,
       RemoveEntries, RemoveOwned, RemoveLibrary, Deinit, CloseOld, FindOld, PrepareReload,
       InitNew, RemoveOld, PushPrepared, StoreReloaded, At, Active, Returned

\* Only the last active frame can take a step.
LEMMA StepperOnTop ==
  ASSUME FramesInv, StackInv, NEW c, Step(c)
  PROVE  Top(c)
<1>1. /\ c \in DOMAIN calls
      /\ Active(c)
      /\ calls[c].pc = "await" => DependencyReturns(c)
  BY StepKinds
<1>2. \A d \in DOMAIN calls : d \in Nat /\ d # 0 /\ calls[d].parent \in Nat
  BY FrameNumbers DEF FrameType
<1> SUFFICES ASSUME NEW d \in DOMAIN calls, Active(d), d # c
             PROVE  d < c /\ calls[d].pc = "await"
  BY <1>1 DEF Top
<1>3. CASE d < c
  BY <1>1, <1>3 DEF StackInv
<1>4. CASE c < d
  <2>1. calls[c].pc = "await"
    BY <1>1, <1>4 DEF StackInv
  <2>2. PICK y \in DOMAIN calls : LastChild(c, y) /\ calls[y].pc \in Returned
    BY <1>1, <2>1 DEF DependencyReturns, At, LastChild, Returned
  <2>3. PICK x \in DOMAIN calls : Active(x) /\ calls[x].parent = c
    BY <1>1, <1>4 DEF StackInv
  <2>4. x <= y /\ x # y /\ calls[x].parent = calls[y].parent /\ calls[x].parent # 0
    BY <1>1, <1>2, <2>2, <2>3 DEF LastChild, Active
  <2>5. x < y
    BY <1>2, <2>4
  <2>6. ~Active(x)
    BY <2>4, <2>5 DEF StackInv
  <2> QED
    BY <2>3, <2>6
<1> QED
  BY <1>1, <1>2, <1>3, <1>4

\* The bottom frame is the call from outside: a frame on top without a parent is
\* alone.
LEMMA RootAlone ==
  ASSUME FramesInv, StackInv, NEW c \in DOMAIN calls, Top(c), calls[c].parent = 0,
         NEW d \in DOMAIN calls, Active(d)
  PROVE  d = c
<1>1. PICK r \in DOMAIN calls : Active(r) /\ calls[r].parent = 0 /\ r <= d
  BY DEF StackInv
<1>2. r = c
  BY <1>1 DEF StackInv, Top
<1>3. d \in Nat /\ c \in Nat
  BY FrameNumbers
<1> QED
  BY <1>1, <1>2, <1>3 DEF Top

\* No call from outside is running: there is no active frame.
LEMMA NothingActive ==
  ASSUME FramesInv, StackInv, MaxConcurrent = 1, Cardinality(Running) < MaxConcurrent
  PROVE  Running = {} /\ \A d \in DOMAIN calls : ~Active(d)
<1>1. IsFiniteSet(Running)
  <2>1. DOMAIN calls = 1..Len(calls) /\ Len(calls) \in Nat
    BY FrameNumbers
  <2>2. IsFiniteSet(DOMAIN calls)
    BY <2>1, FS_Interval
  <2>3. Running \subseteq DOMAIN calls
    BY DEF Running
  <2> QED
    BY <2>2, <2>3, FS_Subset
<1>2. Running = {}
  BY <1>1, FS_CardinalityType, FS_EmptySet
<1> QED
  BY <1>2 DEF StackInv, Running, Active

\* The frame on top changes its program counter, or leaves.
LEMMA StackMove ==
  ASSUME FramesInv, StackInv, NEW c, Top(c), Only(c), calls'[c].parent = calls[c].parent
  PROVE  StackInv'
<1>1. \A d \in DOMAIN calls : calls'[d].parent = calls[d].parent
                                /\ (d # c => (Active(d)' <=> Active(d)) /\ calls'[d].pc = calls[d].pc)
  BY DEF Only, Active
<1>2. DOMAIN calls' = DOMAIN calls /\ c \in DOMAIN calls /\ Active(c)
  BY DEF Only, Top
<1>3. \A d \in DOMAIN calls : d \in Nat
  BY FrameNumbers
<1>4. ASSUME NEW a \in DOMAIN calls, NEW d \in DOMAIN calls, Active(a)', Active(d)', a < d
      PROVE  /\ calls'[a].pc = "await"
             /\ \E x \in DOMAIN calls : Active(x)' /\ calls'[x].parent = a /\ x <= d
  <2>1. Active(a) /\ Active(d)
    BY <1>1, <1>2, <1>4
  <2>2. a # c
    BY <1>2, <1>3, <1>4, <2>1 DEF Top
  <2>3. calls[a].pc = "await"
    BY <1>4, <2>1 DEF StackInv
  <2>4. PICK x \in DOMAIN calls : Active(x) /\ calls[x].parent = a /\ x <= d
    BY <1>4, <2>1 DEF StackInv
  <2>5. CASE x = c
    <3>1. d = c
      BY <1>3, <2>1, <2>4, <2>5 DEF Top
    <3> QED
      BY <1>1, <1>4, <2>2, <2>3, <2>4, <2>5, <3>1
  <2>6. CASE x # c
    BY <1>1, <2>2, <2>3, <2>4, <2>6
  <2> QED
    BY <2>5, <2>6
<1>5. ASSUME NEW x \in DOMAIN calls, NEW y \in DOMAIN calls,
             x < y, calls'[x].parent = calls'[y].parent, calls'[x].parent # 0
      PROVE  ~Active(x)'
  <2>1. ~Active(x)
    BY <1>1, <1>5 DEF StackInv
  <2> QED
    BY <1>1, <1>2, <2>1
<1>6. ASSUME NEW d \in DOMAIN calls, Active(d)'
      PROVE  \E r \in DOMAIN calls : Active(r)' /\ calls'[r].parent = 0 /\ r <= d
  <2>1. Active(d)
    BY <1>1, <1>2, <1>6
  <2>2. PICK r \in DOMAIN calls : Active(r) /\ calls[r].parent = 0 /\ r <= d
    BY <2>1 DEF StackInv
  <2>3. r = c => d = c
    BY <1>3, <2>1, <2>2 DEF Top
  <2> QED
    BY <1>1, <1>6, <2>2, <2>3
<1>7. ASSUME NEW q \in DOMAIN calls, NEW r \in DOMAIN calls,
             Active(q)', Active(r)', calls'[q].parent = 0, calls'[r].parent = 0
      PROVE  q = r
  BY <1>1, <1>2, <1>7 DEF StackInv
<1> QED
  BY <1>2, <1>4, <1>5, <1>6, <1>7 DEF StackInv

\* A frame that is not active stays so.
LEMMA StackIdle ==
  ASSUME FramesInv, StackInv, NEW c, Only(c), ~Active(c), ~Active(c)',
         calls'[c].parent = calls[c].parent
  PROVE  StackInv'
<1>1. \A d \in DOMAIN calls : /\ calls'[d].parent = calls[d].parent
                              /\ Active(d)' <=> Active(d)
                              /\ Active(d) => calls'[d].pc = calls[d].pc
  BY DEF Only, Active
<1>2. DOMAIN calls' = DOMAIN calls
  BY DEF Only
<1> QED
  BY <1>1, <1>2 DEF StackInv

\* Nothing was active, and one call from outside is.
LEMMA StackFirst ==
  ASSUME FramesInv, NEW n \in DOMAIN calls', n \in Nat,
         \A d \in DOMAIN calls' : d # n => ~Active(d)',
         calls'[n].parent = 0
  PROVE  StackInv'
<1>1. ASSUME NEW d \in DOMAIN calls', Active(d)'
      PROVE  d = n
  BY <1>1
<1>2. ~(n < n) /\ n <= n
  OBVIOUS
<1>3. ASSUME NEW x \in DOMAIN calls', NEW y \in DOMAIN calls',
             calls'[x].parent = calls'[y].parent, calls'[x].parent # 0
      PROVE  ~Active(x)'
  BY <1>1, <1>3
<1> QED
  BY <1>1, <1>2, <1>3 DEF StackInv

\* The frame on top starts to load a dependency.
LEMMA StackPush ==
  ASSUME FramesInv, StackInv, NEW c, Top(c), NEW n \in Nat,
         n \notin DOMAIN calls, DOMAIN calls' = DOMAIN calls \cup {n},
         \A d \in DOMAIN calls : d < n,
         \A d \in DOMAIN calls : d # c => calls'[d] = calls[d],
         calls'[c].parent = calls[c].parent, calls'[c].pc = "await",
         calls'[n].parent = c, calls'[n].pc = "fast"
  PROVE  StackInv'
<1>1. \A d \in DOMAIN calls : /\ calls'[d].parent = calls[d].parent
                              /\ Active(d)' <=> Active(d)
                              /\ d # c => calls'[d].pc = calls[d].pc
  BY DEF Active, Top, Returned
<1>2. /\ c \in DOMAIN calls /\ Active(c) /\ n \in DOMAIN calls' /\ Active(n)'
      /\ n # c /\ n \notin DOMAIN calls /\ DOMAIN calls' = DOMAIN calls \cup {n}
      /\ calls'[n].parent = c /\ n \in Nat
  <2>1. c \in DOMAIN calls /\ Active(c) /\ n \in DOMAIN calls'
    BY DEF Top, Active
  <2>2. Active(n)'
    BY <2>1 DEF Active, Returned
  <2> QED
    BY <2>1, <2>2
<1>3. \A d \in DOMAIN calls : d \in Nat /\ d # 0 /\ d < n /\ calls[d].parent < d
  BY FrameNumbers DEF FrameOK
<1>4. ASSUME NEW a \in DOMAIN calls', NEW d \in DOMAIN calls', Active(a)', Active(d)', a < d
      PROVE  /\ calls'[a].pc = "await"
             /\ \E x \in DOMAIN calls' : Active(x)' /\ calls'[x].parent = a /\ x <= d
  <2>1. a \in DOMAIN calls /\ Active(a)
    BY <1>1, <1>2, <1>3, <1>4
  <2>2. calls'[a].pc = "await"
    BY <1>1, <2>1 DEF Top
  <2>3. CASE a = c
    <3>1. d = n
      <4>1. SUFFICES ASSUME d # n
                     PROVE  FALSE
        OBVIOUS
      <4>2. d \in DOMAIN calls /\ Active(d) /\ d # c
        BY <1>1, <1>2, <1>3, <1>4, <2>3, <4>1
      <4>3. d < c
        BY <4>2 DEF Top
      <4> QED
        BY <1>2, <1>3, <1>4, <2>3, <4>2, <4>3
    <3> QED
      BY <1>2, <2>2, <2>3, <3>1
  <2>4. CASE a # c
    <3>1. a < c
      BY <2>1, <2>4 DEF Top
    <3>2. CASE d = n
      <4>1. PICK x \in DOMAIN calls : Active(x) /\ calls[x].parent = a /\ x <= c
        BY <1>2, <2>1, <3>1 DEF StackInv
      <4> QED
        BY <1>1, <1>2, <1>3, <2>2, <3>2, <4>1
    <3>3. CASE d # n
      <4>1. d \in DOMAIN calls /\ Active(d)
        BY <1>1, <1>2, <1>4, <3>3
      <4>2. PICK x \in DOMAIN calls : Active(x) /\ calls[x].parent = a /\ x <= d
        BY <1>4, <2>1, <4>1 DEF StackInv
      <4> QED
        BY <1>1, <1>2, <2>2, <4>2
    <3> QED
      BY <3>2, <3>3
  <2> QED
    BY <2>3, <2>4
<1>5. ASSUME NEW x \in DOMAIN calls', NEW y \in DOMAIN calls',
             x < y, calls'[x].parent = calls'[y].parent, calls'[x].parent # 0
      PROVE  ~Active(x)'
  <2>1. x # n /\ x \in DOMAIN calls
    BY <1>2, <1>3, <1>5
  <2>2. CASE y = n
    <3>1. calls[x].parent = c /\ c < x
      BY <1>1, <1>2, <1>3, <1>5, <2>1, <2>2
    <3>2. ~Active(x)
      BY <1>2, <1>3, <2>1, <3>1 DEF Top
    <3> QED
      BY <1>1, <2>1, <3>2
  <2>3. CASE y # n
    <3>1. ~Active(x)
      BY <1>1, <1>2, <1>5, <2>1, <2>3 DEF StackInv
    <3> QED
      BY <1>1, <2>1, <3>1
  <2> QED
    BY <2>2, <2>3
<1>6. ASSUME NEW d \in DOMAIN calls', Active(d)'
      PROVE  \E r \in DOMAIN calls' : Active(r)' /\ calls'[r].parent = 0 /\ r <= d
  <2>1. CASE d = n
    <3>1. PICK r \in DOMAIN calls : Active(r) /\ calls[r].parent = 0 /\ r <= c
      BY <1>2 DEF StackInv
    <3> QED
      BY <1>1, <1>2, <1>3, <2>1, <3>1
  <2>2. CASE d # n
    <3>1. d \in DOMAIN calls /\ Active(d)
      BY <1>1, <1>2, <1>6, <2>2
    <3>2. PICK r \in DOMAIN calls : Active(r) /\ calls[r].parent = 0 /\ r <= d
      BY <3>1 DEF StackInv
    <3> QED
      BY <1>1, <1>2, <3>2
  <2> QED
    BY <2>1, <2>2
<1>7. ASSUME NEW q \in DOMAIN calls', NEW r \in DOMAIN calls',
             Active(q)', Active(r)', calls'[q].parent = 0, calls'[r].parent = 0
      PROVE  q = r
  <2>1. q \in DOMAIN calls /\ r \in DOMAIN calls
    BY <1>2, <1>3, <1>7
  <2> QED
    BY <1>1, <1>7, <2>1 DEF StackInv
<1> QED
  BY <1>4, <1>5, <1>6, <1>7 DEF StackInv

\* Every step keeps the stack, when one call is made at a time.
LEMMA StackStep ==
  ASSUME MaxConcurrent = 1, TypeInv, StackInv, [Next]_vars
  PROVE  StackInv'
<1>0. FramesInv
  BY DEF TypeInv
<1>1. CASE calls' = calls
  BY <1>1 DEF StackInv, Active
<1>2. ASSUME NEW e \in Extensions,
             CallLoad(e) \/ CallUnload(e) \/ (\E f \in ReloadFiles[e] : CallReload(e, f))
      PROVE  StackInv'
  <2>1. \/ Begins("load", e, None, "fast")
        \/ Begins("unload", e, None, "dependents")
        \/ \E f \in Files : Begins("reload", e, f, "old")
    BY <1>0, <1>2, StartKinds, StartFrame DEF MaybeFile, Pcs, LoadPcs, UnloadPcs, ReloadPcs
  <2>2. \A d \in DOMAIN calls : ~Active(d)
    BY <1>0, <1>2, StartKinds, NothingActive DEF Start
  <2>3. NewFrame \in Nat
    BY <1>0, FrameNumbers DEF NewFrame
  <2>4. /\ NewFrame \in DOMAIN calls'
        /\ calls'[NewFrame].parent = 0
        /\ \A d \in DOMAIN calls' : d # NewFrame => d \in DOMAIN calls /\ calls'[d] = calls[d]
    BY <2>1 DEF Begins, Grows
  <2>5. \A d \in DOMAIN calls' : d # NewFrame => ~Active(d)'
    BY <2>2, <2>4 DEF Active
  <2> QED
    BY <1>0, <2>3, <2>4, <2>5, StackFirst
<1>3. ASSUME NEW c, LoadDependency(c)
      PROVE  StackInv'
  <2>1. Top(c)
    BY <1>0, <1>3, StepperOnTop DEF Step, LoadStep
  <2>2. /\ Grows("load", Head(calls[c].todo), None, "fast", c)
        /\ \A d \in DOMAIN calls : d # c => calls'[d] = calls[d]
        /\ calls'[c].parent = calls[c].parent /\ calls'[c].pc = "await"
    BY <1>3, LoadDependencyEffect DEF Becomes
  <2>3. NewFrame \in Nat
    BY <1>0, FrameNumbers DEF NewFrame
  <2> QED
    BY <1>0, <2>1, <2>2, <2>3, StackPush DEF Grows
<1>4. ASSUME NEW c, Step(c), ~LoadDependency(c)
      PROVE  StackInv'
  BY <1>0, <1>4, StepperOnTop, StepKeeps, StackMove DEF AnyStep, Kept
<1>5. ASSUME NEW c, CommitReload(c)
      PROVE  StackInv'
  <2>1. ~LoadDependency(c) /\ c \in DOMAIN calls /\ calls[c].pc = "prepared"
    BY <1>5 DEF CommitReload, LoadDependency, At
  <2>2. Kept(c)
    BY <1>5, <2>1, StepKeeps DEF AnyStep
  <2>3. \A d \in DOMAIN calls : ~Active(d)
    BY <1>0, <1>5, NothingActive DEF CommitReload
  <2>4. c \in Nat /\ calls[c].parent = 0
    BY <1>0, <2>1, FrameNumbers DEF FrameOK, FrameType, LoadPcs
  <2>5. \A d \in DOMAIN calls' : d # c => ~Active(d)'
    BY <2>2, <2>3 DEF Kept, Only, Active
  <2> QED
    BY <1>0, <2>1, <2>2, <2>4, <2>5, StackFirst DEF Kept, Only
<1>6. ASSUME NEW c, DropPrepared(c)
      PROVE  StackInv'
  <2>1. ~LoadDependency(c) /\ c \in DOMAIN calls /\ calls[c].pc = "prepared"
    BY <1>6 DEF DropPrepared, LoadDependency, At
  <2>2. Ends(c, "failed")
    BY <1>0, <1>6, <2>1, FrameSteps DEF DropPrepared, AbandonReload, Fail, Pcs, LoadPcs
  <2>3. ~Active(c) /\ ~Active(c)' /\ calls'[c].parent = calls[c].parent /\ Only(c)
    BY <2>1, <2>2 DEF Active, Returned, Ends, Becomes
  <2> QED
    BY <1>0, <2>3, StackIdle
<1> QED
  BY <1>1, <1>2, <1>3, <1>4, <1>5, <1>6 DEF Next, Scan, AttachRegister, vars

\* The calls form a stack.
LEMMA StackCorrect ==
  ASSUME MaxConcurrent = 1
  PROVE  Spec => []StackInv
<1>1. Init => StackInv
  BY DEF Init, StackInv
<1>2. TypeInv /\ StackInv /\ [Next]_vars => StackInv'
  BY StackStep
<1> QED
  BY <1>1, <1>2, TypeCorrect, PTL DEF Spec
-----------------------------------------------------------------------------
(***************************************************************************)
(* What the other frames do while one takes its step.                      *)
(***************************************************************************)

\* The other frames have returned, wait for a dependency or wait for a commit.
Alone(c) ==
  \A d \in DOMAIN calls : d # c =>
    \/ calls[d].pc \in {"ok", "failed", "prepared"}
    \/ calls[d].pc = "await" /\ calls[c].op = "load"

\* While a call takes a step, no other is in the middle of one.
LEMMA StepAlone ==
  ASSUME FramesInv, StackInv, NEW c, Step(c)
  PROVE  Alone(c)
<1>1. Top(c) /\ c \in DOMAIN calls
  BY StepperOnTop DEF Top, Active
<1>2. FrameOK(c)
  BY <1>1, FrameNumbers
<1>3. ASSUME NEW d \in DOMAIN calls, d # c, Active(d)
      PROVE  calls[d].pc = "await" /\ calls[c].op = "load"
  <2>1. calls[d].pc = "await"
    BY <1>1, <1>3 DEF Top
  <2>2. calls[c].parent # 0
    BY <1>1, <1>3, RootAlone
  <2> QED
    BY <1>2, <2>1, <2>2 DEF FrameOK
<1> QED
  BY <1>3 DEF Alone, Active, Returned

\* A commit starts when no call is in progress.
LEMMA CommitAlone ==
  ASSUME MaxConcurrent = 1, FramesInv, StackInv, NEW c, CommitReload(c)
  PROVE  Alone(c)
BY NothingActive DEF CommitReload, Alone, Active, Returned

\* The frames that are not in the middle of a step hold nothing but the library of
\* a prepared reload.
LEMMA IdleFrame ==
  ASSUME FramesInv, NEW d \in DOMAIN calls,
         calls[d].pc \in {"ok", "failed", "prepared", "await"}
  PROVE  /\ ~HalfLoaded(d) /\ ~HalfUnloaded(d) /\ ~HoldsLib(d) /\ ~HoldsMeta(d)
         /\ Fresh(d) <=> calls[d].pc = "prepared"
         /\ FreshMeta(d) <=> calls[d].pc = "prepared"
         /\ Absent(d) <=> calls[d].pc = "await"
<1>1. FrameOK(d) /\ calls[d].op \in {"load", "unload", "reload"}
  BY FrameNumbers DEF FrameType
<1>2. calls[d].pc = "prepared" => calls[d].op = "reload"
  BY <1>1 DEF FrameOK, LoadPcs, UnloadPcs
<1>3. calls[d].pc = "await" => calls[d].op = "load"
  BY <1>1 DEF FrameOK, UnloadPcs, ReloadPcs
<1> QED
  BY <1>2, <1>3 DEF HalfLoaded, HalfUnloaded, HoldsLib, HoldsMeta, Fresh, FreshMeta, Absent, Swapping
-----------------------------------------------------------------------------
(***************************************************************************)
(* Libraries and metadata boxes, step by step.                             *)
(***************************************************************************)

\* A frame holds what it held.
SameRole(d) ==
  /\ calls'[d].name = calls[d].name
  /\ calls'[d].op = calls[d].op
  /\ calls[d].pc = "ok" => calls'[d].pc = "ok"
  /\ Fresh(d)' <=> Fresh(d)
  /\ HalfLoaded(d)' <=> HalfLoaded(d)
  /\ HalfUnloaded(d)' <=> HalfUnloaded(d)
  /\ HoldsLib(d)' <=> HoldsLib(d)
  /\ HoldsLib(d) => calls'[d].oldLib = calls[d].oldLib
  /\ HoldsLib(d) \/ HalfUnloaded(d) => calls'[d].old = calls[d].old
  /\ calls[d].op = "load" /\ calls[d].pc \in {"storeMeta", "finish"}
       => calls'[d].pc \in {"storeMeta", "finish", "ok"}

\* A frame holds nothing.
NoRole(d) == ~Fresh(d) /\ ~HalfLoaded(d) /\ ~HalfUnloaded(d) /\ ~HoldsLib(d)

\* Frames stay what they are, and those that have returned stay returned.
FramesStay ==
  /\ DOMAIN calls \subseteq DOMAIN calls'
  /\ \A m \in DOMAIN calls : /\ calls'[m].name = calls[m].name
                             /\ calls[m].pc = "ok" => calls'[m].pc = "ok"

\* A frame that has not moved knows what it knew, if its name did not change.
LEMMA KnowsUnmoved ==
  ASSUME DataInv, FramesStay, NEW d \in DOMAIN calls, calls'[d] = calls[d],
         loaded'[calls[d].name] = loaded[calls[d].name],
         loadedMeta'[calls[d].name] = loadedMeta[calls[d].name]
  PROVE  Knows(d)'
<1>1. Knows(d)
  BY DEF DataInv
<1>2. \A m, e : BroughtBy(m, e) => BroughtBy(m, e)'
  BY DEF BroughtBy, FramesStay
<1> QED
  BY <1>1, <1>2 DEF Knows, Absent, HalfLoaded, HalfUnloaded, HoldsLib

\* A step that leaves the maps and what exists alone, and that moves no library
\* between hands.
LEMMA DataQuiet ==
  ASSUME DataInv, UNCHANGED <<loaded, loadedMeta, handles, metas>>,
         FramesStay,
         \A d \in DOMAIN calls : SameRole(d),
         \A d \in DOMAIN calls' : d \notin DOMAIN calls => NoRole(d)',
         \A d \in DOMAIN calls' : Knows(d)'
  PROVE  DataInv'
<1>1. MapsAgree'
  BY DEF DataInv, MapsAgree, SameRole, FramesStay
<1>2. LoadedBy'
  <2> SUFFICES ASSUME NEW e \in Extensions, loaded[e] # 0
               PROVE  \/ BroughtBy(loaded[e], e)'
                      \/ /\ loaded[e] \in DOMAIN calls'
                         /\ calls'[loaded[e]].name = e
                         /\ calls'[loaded[e]].op = "load"
                         /\ calls'[loaded[e]].pc \in {"storeMeta", "finish"}
    BY DEF LoadedBy, BroughtBy
  <2> QED
    BY DEF DataInv, LoadedBy, BroughtBy, SameRole, FramesStay
<1>3. \A m : HandleOwned(m)' <=> HandleOwned(m)
  BY DEF HandleOwned, SameRole, NoRole, FramesStay
<1>4. \A m : MetaOwned(m)' <=> MetaOwned(m)
  BY DEF MetaOwned, FreshMeta, HoldsMeta, HalfLoaded, SameRole, NoRole, FramesStay
<1>5. NoneAstray'
  BY <1>3, <1>4 DEF DataInv, NoneAstray
<1> QED
  BY <1>1, <1>2, <1>5 DEF DataInv

\* A step of one frame leaves the roles of the others.
LEMMA OnlyRoles ==
  ASSUME FramesInv, NEW c, Only(c), calls'[c].name = calls[c].name, calls[c].pc # "ok"
  PROVE  /\ FramesStay
         /\ \A d \in DOMAIN calls : d # c => SameRole(d)
BY DEF Only, FramesStay, SameRole, Fresh, HalfLoaded, HalfUnloaded, HoldsLib

\* A step of one frame that moves no library between hands.
LEMMA DataStays ==
  ASSUME FramesInv, DataInv, NEW c, Only(c), calls'[c].name = calls[c].name, calls[c].pc # "ok",
         UNCHANGED <<loaded, loadedMeta, handles, metas>>, SameRole(c), Knows(c)'
  PROVE  DataInv'
<1>1. /\ FramesStay
      /\ \A d \in DOMAIN calls : d # c => SameRole(d)
  BY OnlyRoles
<1>2. DOMAIN calls' = DOMAIN calls
  BY DEF Only
<1>3. ASSUME NEW d \in DOMAIN calls, d # c
      PROVE  Knows(d)'
  BY <1>1, <1>3, KnowsUnmoved DEF Only
<1> QED
  BY <1>1, <1>2, <1>3, DataQuiet

\* The frame that steps and the maps: they differ at its name only.
LEMMA MapsAtStep ==
  ASSUME FramesInv, MapsAgree, NEW c \in DOMAIN calls, Alone(c), NEW e \in Extensions,
         loaded[e] # loadedMeta[e]
  PROVE  e = calls[c].name /\ (HalfLoaded(c) \/ HalfUnloaded(c))
<1>1. PICK d \in DOMAIN calls : calls[d].name = e /\ (HalfLoaded(d) \/ HalfUnloaded(d))
  BY DEF MapsAgree
<1>2. d = c
  BY <1>1, IdleFrame DEF Alone
<1> QED
  BY <1>1, <1>2

\* The steps that open nothing, drop nothing and leave the maps alone.
QuietStep(c) ==
  \/ FastPath(c) \/ Claim(c) \/ Resolve(c) \/ CheckSlots(c) \/ DependencyReturns(c)
  \/ AttachOwned(c) \/ Snapshot(c) \/ PushEntries(c) \/ FinishLoad(c)
  \/ RemoveEntries(c) \/ RemoveOwned(c) \/ Deinit(c) \/ FindOld(c) \/ PushPrepared(c)

\* A quiet step keeps every library in one place.
LEMMA DataQuietStep ==
  ASSUME TypeInv, DataInv, NEW c, Alone(c), QuietStep(c)
  PROVE  DataInv'
<1>0. FramesInv
  BY DEF TypeInv
<1> DEFINE Fine == /\ c \in DOMAIN calls
                   /\ Only(c)
                   /\ calls'[c].name = calls[c].name
                   /\ calls[c].pc # "ok"
                   /\ UNCHANGED <<loaded, loadedMeta, handles, metas>>
                   /\ SameRole(c)
                   /\ Knows(c)'
<1>a. ASSUME c \in DOMAIN calls
      PROVE  /\ FrameOK(c)
             /\ calls[c].op \in {"load", "unload", "reload"}
             /\ calls[c].name \in Extensions
             /\ Knows(c)
             /\ ~HalfLoaded(c) /\ ~HalfUnloaded(c)
                  => loaded[calls[c].name] = loadedMeta[calls[c].name]
  BY <1>0, <1>a, FrameNumbers, MapsAtStep DEF FrameType, DataInv
<1>b. ASSUME c \in DOMAIN calls
      PROVE  /\ \A p \in Pcs : Goto(c, p) => Moves(c, p)
             /\ \A p \in Pcs : Return(c, p) => Ends(c, p)
  BY <1>0, <1>b, FrameSteps
<1>d. ASSUME NEW m, NEW e, BroughtBy(m, e), c \in DOMAIN calls, Only(c), calls[c].pc # "ok"
      PROVE  BroughtBy(m, e)'
  BY <1>d DEF BroughtBy, Only
<1>f. Fine => DataInv'
  BY <1>0, DataStays
<1> HIDE DEF Fine
<1>1. CASE FastPath(c)
  <2>1. /\ c \in DOMAIN calls
        /\ Only(c)
        /\ calls'[c].name = calls[c].name /\ calls'[c].op = calls[c].op
        /\ calls[c].pc # "ok"
        /\ UNCHANGED <<loaded, loadedMeta, handles, metas>>
    BY <1>1, <1>a, <1>b
       DEF FastPath, At, FailLoad, Moves, Ends, Becomes, FrameOK, Pcs, LoadPcs, UnloadPcs, ReloadPcs,
           mapVars, liveVars
  <2>2. SameRole(c)
    BY <1>1, <1>a, <1>b, <2>1
       DEF FastPath, At, FailLoad, Moves, Ends, Becomes, FrameOK, Pcs, LoadPcs, UnloadPcs, ReloadPcs,
           SameRole, Fresh, HalfLoaded, HalfUnloaded, HoldsLib, Swapping
  <2>3. Knows(c)'
    BY <1>1, <1>a, <1>b, <1>d, <2>1
       DEF FastPath, At, NameOf, FailLoad, Moves, Ends, Becomes, FrameOK, Pcs, LoadPcs, UnloadPcs, ReloadPcs,
           Knows, Absent, HalfLoaded, HalfUnloaded, HoldsLib, Swapping
  <2> QED
    BY <1>f, <2>1, <2>2, <2>3 DEF Fine
<1>2. CASE Claim(c)
  <2>1. /\ c \in DOMAIN calls
        /\ Only(c)
        /\ calls'[c].name = calls[c].name /\ calls'[c].op = calls[c].op
        /\ calls[c].pc # "ok"
        /\ UNCHANGED <<loaded, loadedMeta, handles, metas>>
    BY <1>2, <1>a, <1>b
       DEF Claim, At, FailLoad, Moves, Ends, Becomes, FrameOK, Pcs, LoadPcs, UnloadPcs, ReloadPcs,
           mapVars, liveVars
  <2>2. SameRole(c)
    BY <1>2, <1>a, <1>b, <2>1
       DEF Claim, At, FailLoad, Moves, Ends, Becomes, FrameOK, Pcs, LoadPcs, UnloadPcs, ReloadPcs,
           SameRole, Fresh, HalfLoaded, HalfUnloaded, HoldsLib, Swapping
  <2>3. Knows(c)'
    BY <1>2, <1>a, <1>b, <1>d, <2>1
       DEF Claim, At, NameOf, FailLoad, Moves, Ends, Becomes, FrameOK, Pcs, LoadPcs, UnloadPcs, ReloadPcs,
           Knows, Absent, HalfLoaded, HalfUnloaded, HoldsLib, Swapping
  <2> QED
    BY <1>f, <2>1, <2>2, <2>3 DEF Fine
<1>3. CASE Resolve(c)
  <2>1. /\ c \in DOMAIN calls
        /\ Only(c)
        /\ calls'[c].name = calls[c].name /\ calls'[c].op = calls[c].op
        /\ calls[c].pc # "ok"
        /\ UNCHANGED <<loaded, loadedMeta, handles, metas>>
    BY <1>3, <1>a, <1>b, ResolveEffect
       DEF At, FailLoad, Moves, Ends, Becomes, FrameOK, Pcs, LoadPcs, UnloadPcs, ReloadPcs,
           mapVars, liveVars
  <2>2. SameRole(c)
    BY <1>3, <1>a, <1>b, <2>1, ResolveEffect
       DEF At, FailLoad, Moves, Ends, Becomes, FrameOK, Pcs, LoadPcs, UnloadPcs, ReloadPcs,
           SameRole, Fresh, HalfLoaded, HalfUnloaded, HoldsLib, Swapping
  <2>3. Knows(c)'
    BY <1>3, <1>a, <1>b, <1>d, <2>1, ResolveEffect
       DEF At, NameOf, FailLoad, Moves, Ends, Becomes, FrameOK, Pcs, LoadPcs, UnloadPcs, ReloadPcs,
           Knows, Absent, HalfLoaded, HalfUnloaded, HoldsLib, Swapping
  <2> QED
    BY <1>f, <2>1, <2>2, <2>3 DEF Fine
<1>4. CASE CheckSlots(c)
  <2>1. /\ c \in DOMAIN calls
        /\ Only(c)
        /\ calls'[c].name = calls[c].name /\ calls'[c].op = calls[c].op
        /\ calls[c].pc # "ok"
        /\ UNCHANGED <<loaded, loadedMeta, handles, metas>>
    BY <1>4, <1>a, <1>b, CheckSlotsEffect
       DEF At, FailLoad, Moves, Ends, Becomes, FrameOK, Pcs, LoadPcs, UnloadPcs, ReloadPcs,
           mapVars, liveVars
  <2>2. SameRole(c)
    BY <1>4, <1>a, <1>b, <2>1, CheckSlotsEffect
       DEF At, FailLoad, Moves, Ends, Becomes, FrameOK, Pcs, LoadPcs, UnloadPcs, ReloadPcs,
           SameRole, Fresh, HalfLoaded, HalfUnloaded, HoldsLib, Swapping
  <2>3. Knows(c)'
    BY <1>4, <1>a, <1>b, <1>d, <2>1, CheckSlotsEffect
       DEF At, NameOf, FailLoad, Moves, Ends, Becomes, FrameOK, Pcs, LoadPcs, UnloadPcs, ReloadPcs,
           Knows, Absent, HalfLoaded, HalfUnloaded, HoldsLib, Swapping
  <2> QED
    BY <1>f, <2>1, <2>2, <2>3 DEF Fine
<1>5. CASE DependencyReturns(c)
  <2>1. /\ c \in DOMAIN calls
        /\ Only(c)
        /\ calls'[c].name = calls[c].name /\ calls'[c].op = calls[c].op
        /\ calls[c].pc # "ok"
        /\ UNCHANGED <<loaded, loadedMeta, handles, metas>>
    BY <1>5, <1>a, <1>b
       DEF DependencyReturns, At, FailLoad, Moves, Ends, Becomes, FrameOK, Pcs, LoadPcs, UnloadPcs, ReloadPcs,
           mapVars, liveVars
  <2>2. SameRole(c)
    BY <1>5, <1>a, <1>b, <2>1
       DEF DependencyReturns, At, FailLoad, Moves, Ends, Becomes, FrameOK, Pcs, LoadPcs, UnloadPcs, ReloadPcs,
           SameRole, Fresh, HalfLoaded, HalfUnloaded, HoldsLib, Swapping
  <2>3. Knows(c)'
    BY <1>5, <1>a, <1>b, <1>d, <2>1
       DEF DependencyReturns, At, NameOf, FailLoad, Moves, Ends, Becomes, FrameOK, Pcs, LoadPcs, UnloadPcs, ReloadPcs,
           Knows, Absent, HalfLoaded, HalfUnloaded, HoldsLib, Swapping
  <2> QED
    BY <1>f, <2>1, <2>2, <2>3 DEF Fine
<1>6. CASE AttachOwned(c)
  <2>1. /\ c \in DOMAIN calls
        /\ Only(c)
        /\ calls'[c].name = calls[c].name /\ calls'[c].op = calls[c].op
        /\ calls[c].pc # "ok"
        /\ UNCHANGED <<loaded, loadedMeta, handles, metas>>
    BY <1>6, <1>a, <1>b
       DEF AttachOwned, At, FailLoad, Moves, Ends, Becomes, FrameOK, Pcs, LoadPcs, UnloadPcs, ReloadPcs,
           mapVars, liveVars
  <2>2. SameRole(c)
    BY <1>6, <1>a, <1>b, <2>1
       DEF AttachOwned, At, FailLoad, Moves, Ends, Becomes, FrameOK, Pcs, LoadPcs, UnloadPcs, ReloadPcs,
           SameRole, Fresh, HalfLoaded, HalfUnloaded, HoldsLib, Swapping
  <2>3. Knows(c)'
    BY <1>6, <1>a, <1>b, <1>d, <2>1
       DEF AttachOwned, At, NameOf, FailLoad, Moves, Ends, Becomes, FrameOK, Pcs, LoadPcs, UnloadPcs, ReloadPcs,
           Knows, Absent, HalfLoaded, HalfUnloaded, HoldsLib, Swapping
  <2> QED
    BY <1>f, <2>1, <2>2, <2>3 DEF Fine
<1>7. CASE Snapshot(c)
  <2>1. /\ c \in DOMAIN calls
        /\ Only(c)
        /\ calls'[c].name = calls[c].name /\ calls'[c].op = calls[c].op
        /\ calls[c].pc # "ok"
        /\ UNCHANGED <<loaded, loadedMeta, handles, metas>>
    BY <1>7, <1>a, <1>b, SnapshotEffect
       DEF At, FailLoad, Moves, Ends, Becomes, FrameOK, Pcs, LoadPcs, UnloadPcs, ReloadPcs,
           mapVars, liveVars
  <2>2. SameRole(c)
    BY <1>7, <1>a, <1>b, <2>1, SnapshotEffect
       DEF At, FailLoad, Moves, Ends, Becomes, FrameOK, Pcs, LoadPcs, UnloadPcs, ReloadPcs,
           SameRole, Fresh, HalfLoaded, HalfUnloaded, HoldsLib, Swapping
  <2>3. Knows(c)'
    BY <1>7, <1>a, <1>b, <1>d, <2>1, SnapshotEffect
       DEF At, NameOf, FailLoad, Moves, Ends, Becomes, FrameOK, Pcs, LoadPcs, UnloadPcs, ReloadPcs,
           Knows, Absent, HalfLoaded, HalfUnloaded, HoldsLib, Swapping
  <2> QED
    BY <1>f, <2>1, <2>2, <2>3 DEF Fine
<1>8. CASE PushEntries(c)
  <2>1. /\ c \in DOMAIN calls
        /\ Only(c)
        /\ calls'[c].name = calls[c].name /\ calls'[c].op = calls[c].op
        /\ calls[c].pc # "ok"
        /\ UNCHANGED <<loaded, loadedMeta, handles, metas>>
    BY <1>8, <1>a, <1>b, PushEntriesEffect
       DEF At, FailLoad, Moves, Ends, Becomes, FrameOK, Pcs, LoadPcs, UnloadPcs, ReloadPcs,
           mapVars, liveVars
  <2>2. SameRole(c)
    BY <1>8, <1>a, <1>b, <2>1, PushEntriesEffect
       DEF At, FailLoad, Moves, Ends, Becomes, FrameOK, Pcs, LoadPcs, UnloadPcs, ReloadPcs,
           SameRole, Fresh, HalfLoaded, HalfUnloaded, HoldsLib, Swapping
  <2>3. Knows(c)'
    BY <1>8, <1>a, <1>b, <1>d, <2>1, PushEntriesEffect
       DEF At, NameOf, FailLoad, Moves, Ends, Becomes, FrameOK, Pcs, LoadPcs, UnloadPcs, ReloadPcs,
           Knows, Absent, HalfLoaded, HalfUnloaded, HoldsLib, Swapping
  <2> QED
    BY <1>f, <2>1, <2>2, <2>3 DEF Fine
<1>9. CASE FinishLoad(c)
  <2>1. /\ c \in DOMAIN calls
        /\ Only(c)
        /\ calls'[c].name = calls[c].name /\ calls'[c].op = calls[c].op
        /\ calls[c].pc # "ok"
        /\ UNCHANGED <<loaded, loadedMeta, handles, metas>>
    BY <1>9, <1>a, <1>b
       DEF FinishLoad, At, FailLoad, Moves, Ends, Becomes, FrameOK, Pcs, LoadPcs, UnloadPcs, ReloadPcs,
           mapVars, liveVars
  <2>2. SameRole(c)
    BY <1>9, <1>a, <1>b, <2>1
       DEF FinishLoad, At, FailLoad, Moves, Ends, Becomes, FrameOK, Pcs, LoadPcs, UnloadPcs, ReloadPcs,
           SameRole, Fresh, HalfLoaded, HalfUnloaded, HoldsLib, Swapping
  <2>3. Knows(c)'
    BY <1>9, <1>a, <1>b, <1>d, <2>1
       DEF FinishLoad, At, NameOf, FailLoad, Moves, Ends, Becomes, FrameOK, Pcs, LoadPcs, UnloadPcs, ReloadPcs,
           Knows, Absent, HalfLoaded, HalfUnloaded, HoldsLib, Swapping
  <2> QED
    BY <1>f, <2>1, <2>2, <2>3 DEF Fine
<1>10. CASE RemoveEntries(c)
  <2>1. /\ c \in DOMAIN calls
        /\ Only(c)
        /\ calls'[c].name = calls[c].name /\ calls'[c].op = calls[c].op
        /\ calls[c].pc # "ok"
        /\ UNCHANGED <<loaded, loadedMeta, handles, metas>>
    BY <1>10, <1>a, <1>b
       DEF RemoveEntries, At, FailLoad, Moves, Ends, Becomes, FrameOK, Pcs, LoadPcs, UnloadPcs, ReloadPcs,
           mapVars, liveVars
  <2>2. SameRole(c)
    BY <1>10, <1>a, <1>b, <2>1
       DEF RemoveEntries, At, FailLoad, Moves, Ends, Becomes, FrameOK, Pcs, LoadPcs, UnloadPcs, ReloadPcs,
           SameRole, Fresh, HalfLoaded, HalfUnloaded, HoldsLib, Swapping
  <2>3. Knows(c)'
    BY <1>10, <1>a, <1>b, <1>d, <2>1
       DEF RemoveEntries, At, NameOf, FailLoad, Moves, Ends, Becomes, FrameOK, Pcs, LoadPcs, UnloadPcs, ReloadPcs,
           Knows, Absent, HalfLoaded, HalfUnloaded, HoldsLib, Swapping
  <2> QED
    BY <1>f, <2>1, <2>2, <2>3 DEF Fine
<1>11. CASE RemoveOwned(c)
  <2>1. /\ c \in DOMAIN calls
        /\ Only(c)
        /\ calls'[c].name = calls[c].name /\ calls'[c].op = calls[c].op
        /\ calls[c].pc # "ok"
        /\ UNCHANGED <<loaded, loadedMeta, handles, metas>>
    BY <1>11, <1>a, <1>b
       DEF RemoveOwned, At, FailLoad, Moves, Ends, Becomes, FrameOK, Pcs, LoadPcs, UnloadPcs, ReloadPcs,
           mapVars, liveVars
  <2>2. SameRole(c)
    BY <1>11, <1>a, <1>b, <2>1
       DEF RemoveOwned, At, FailLoad, Moves, Ends, Becomes, FrameOK, Pcs, LoadPcs, UnloadPcs, ReloadPcs,
           SameRole, Fresh, HalfLoaded, HalfUnloaded, HoldsLib, Swapping
  <2>3. Knows(c)'
    BY <1>11, <1>a, <1>b, <1>d, <2>1
       DEF RemoveOwned, At, NameOf, FailLoad, Moves, Ends, Becomes, FrameOK, Pcs, LoadPcs, UnloadPcs, ReloadPcs,
           Knows, Absent, HalfLoaded, HalfUnloaded, HoldsLib, Swapping
  <2> QED
    BY <1>f, <2>1, <2>2, <2>3 DEF Fine
<1>12. CASE Deinit(c)
  <2>1. /\ c \in DOMAIN calls
        /\ Only(c)
        /\ calls'[c].name = calls[c].name /\ calls'[c].op = calls[c].op
        /\ calls[c].pc # "ok"
        /\ UNCHANGED <<loaded, loadedMeta, handles, metas>>
    BY <1>12, <1>a, <1>b
       DEF Deinit, At, FailLoad, Moves, Ends, Becomes, FrameOK, Pcs, LoadPcs, UnloadPcs, ReloadPcs,
           mapVars, liveVars
  <2>2. SameRole(c)
    BY <1>12, <1>a, <1>b, <2>1
       DEF Deinit, At, FailLoad, Moves, Ends, Becomes, FrameOK, Pcs, LoadPcs, UnloadPcs, ReloadPcs,
           SameRole, Fresh, HalfLoaded, HalfUnloaded, HoldsLib, Swapping
  <2>3. Knows(c)'
    BY <1>12, <1>a, <1>b, <1>d, <2>1
       DEF Deinit, At, NameOf, FailLoad, Moves, Ends, Becomes, FrameOK, Pcs, LoadPcs, UnloadPcs, ReloadPcs,
           Knows, Absent, HalfLoaded, HalfUnloaded, HoldsLib, Swapping
  <2> QED
    BY <1>f, <2>1, <2>2, <2>3 DEF Fine
<1>13. CASE FindOld(c)
  <2>1. /\ c \in DOMAIN calls
        /\ Only(c)
        /\ calls'[c].name = calls[c].name /\ calls'[c].op = calls[c].op
        /\ calls[c].pc # "ok"
        /\ UNCHANGED <<loaded, loadedMeta, handles, metas>>
    BY <1>13, <1>a, <1>b, FindOldEffect
       DEF At, FailLoad, Moves, Ends, Becomes, FrameOK, Pcs, LoadPcs, UnloadPcs, ReloadPcs,
           mapVars, liveVars
  <2>2. SameRole(c)
    BY <1>13, <1>a, <1>b, <2>1, FindOldEffect
       DEF At, FailLoad, Moves, Ends, Becomes, FrameOK, Pcs, LoadPcs, UnloadPcs, ReloadPcs,
           SameRole, Fresh, HalfLoaded, HalfUnloaded, HoldsLib, Swapping
  <2>3. Knows(c)'
    BY <1>13, <1>a, <1>b, <1>d, <2>1, FindOldEffect
       DEF At, NameOf, FailLoad, Moves, Ends, Becomes, FrameOK, Pcs, LoadPcs, UnloadPcs, ReloadPcs,
           Knows, Absent, HalfLoaded, HalfUnloaded, HoldsLib, Swapping
  <2> QED
    BY <1>f, <2>1, <2>2, <2>3 DEF Fine
<1>14. CASE PushPrepared(c)
  <2>1. /\ c \in DOMAIN calls
        /\ Only(c)
        /\ calls'[c].name = calls[c].name /\ calls'[c].op = calls[c].op
        /\ calls[c].pc # "ok"
        /\ UNCHANGED <<loaded, loadedMeta, handles, metas>>
    BY <1>14, <1>a, <1>b, PushPreparedEffect
       DEF At, FailLoad, Moves, Ends, Becomes, FrameOK, Pcs, LoadPcs, UnloadPcs, ReloadPcs,
           mapVars, liveVars
  <2>2. SameRole(c)
    BY <1>14, <1>a, <1>b, <2>1, PushPreparedEffect
       DEF At, FailLoad, Moves, Ends, Becomes, FrameOK, Pcs, LoadPcs, UnloadPcs, ReloadPcs,
           SameRole, Fresh, HalfLoaded, HalfUnloaded, HoldsLib, Swapping
  <2>3. Knows(c)'
    BY <1>14, <1>a, <1>b, <1>d, <2>1, PushPreparedEffect
       DEF At, NameOf, FailLoad, Moves, Ends, Becomes, FrameOK, Pcs, LoadPcs, UnloadPcs, ReloadPcs,
           Knows, Absent, HalfLoaded, HalfUnloaded, HoldsLib, Swapping
  <2> QED
    BY <1>f, <2>1, <2>2, <2>3 DEF Fine
<1> QED
  BY <1>1, <1>2, <1>3, <1>4, <1>5, <1>6, <1>7, <1>8, <1>9, <1>10, <1>11, <1>12, <1>13, <1>14 DEF QuietStep

\* The library m is in the map or is that of a prepared reload other than c.
HandleElsewhere(c, m) ==
  \/ \E e \in Extensions : loaded[e] = m
  \/ m \in DOMAIN calls /\ m # c /\ calls[m].pc = "prepared"

MetaElsewhere(c, m) ==
  \/ \E e \in Extensions : loadedMeta[e] = m
  \/ m \in DOMAIN calls /\ m # c /\ calls[m].pc = "prepared"

\* Who owns what, before and after a step of frame c.
LEMMA OwnedAtStep ==
  ASSUME FramesInv, NEW c, Only(c), Alone(c), NEW m
  PROVE  /\ HandleOwned(m) <=>
              m # 0 /\ (\/ HandleElsewhere(c, m) \/ (m = c /\ Fresh(c))
                        \/ (HoldsLib(c) /\ calls[c].oldLib = m))
         /\ HandleOwned(m)' <=>
              m # 0 /\ (\/ HandleElsewhere(c, m)' \/ (m = c /\ Fresh(c)')
                        \/ (HoldsLib(c)' /\ calls'[c].oldLib = m))
         /\ MetaOwned(m) <=>
              m # 0 /\ (\/ MetaElsewhere(c, m) \/ (m = c /\ FreshMeta(c))
                        \/ (HoldsMeta(c) /\ calls[c].old = m))
         /\ MetaOwned(m)' <=>
              m # 0 /\ (\/ MetaElsewhere(c, m)' \/ (m = c /\ FreshMeta(c)')
                        \/ (HoldsMeta(c)' /\ calls'[c].old = m))
<1>1. \A d \in DOMAIN calls : d # c =>
        /\ calls'[d] = calls[d]
        /\ calls[d].pc \in {"ok", "failed", "prepared", "await"}
  BY DEF Only, Alone
<1>2. \A d \in DOMAIN calls : d # c =>
        /\ ~HoldsLib(d) /\ ~HoldsMeta(d)
        /\ Fresh(d) <=> calls[d].pc = "prepared"
        /\ FreshMeta(d) <=> calls[d].pc = "prepared"
  BY <1>1, IdleFrame
<1>3. \A d \in DOMAIN calls : d # c =>
        /\ ~HoldsLib(d)' /\ ~HoldsMeta(d)'
        /\ Fresh(d)' <=> calls'[d].pc = "prepared"
        /\ FreshMeta(d)' <=> calls'[d].pc = "prepared"
  BY <1>1, <1>2 DEF HoldsLib, HoldsMeta, HalfUnloaded, Fresh, FreshMeta
<1>4. c \in DOMAIN calls /\ DOMAIN calls' = DOMAIN calls
  BY DEF Only
<1>5. HandleOwned(m) <=>
        m # 0 /\ (\/ HandleElsewhere(c, m) \/ (m = c /\ Fresh(c))
                  \/ (HoldsLib(c) /\ calls[c].oldLib = m))
  BY <1>2, <1>4 DEF HandleOwned, HandleElsewhere
<1>6. HandleOwned(m)' <=>
        m # 0 /\ (\/ HandleElsewhere(c, m)' \/ (m = c /\ Fresh(c)')
                  \/ (HoldsLib(c)' /\ calls'[c].oldLib = m))
  BY <1>3, <1>4 DEF HandleOwned, HandleElsewhere
<1>7. MetaOwned(m) <=>
        m # 0 /\ (\/ MetaElsewhere(c, m) \/ (m = c /\ FreshMeta(c))
                  \/ (HoldsMeta(c) /\ calls[c].old = m))
  BY <1>2, <1>4 DEF MetaOwned, MetaElsewhere
<1>8. MetaOwned(m)' <=>
        m # 0 /\ (\/ MetaElsewhere(c, m)' \/ (m = c /\ FreshMeta(c)')
                  \/ (HoldsMeta(c)' /\ calls'[c].old = m))
  BY <1>3, <1>4 DEF MetaOwned, MetaElsewhere
<1> QED
  BY <1>5, <1>6, <1>7, <1>8

\* Frames that are not in the middle of a step know little.
LEMMA KnowsIdle ==
  ASSUME FramesInv, NEW d \in DOMAIN calls,
         calls[d].pc \in {"ok", "failed", "prepared", "await"}, calls'[d] = calls[d],
         calls[d].pc = "await" => loaded'[calls[d].name] = 0 /\ loadedMeta'[calls[d].name] = 0
  PROVE  Knows(d)'
<1>1. /\ ~HalfLoaded(d) /\ ~HalfUnloaded(d) /\ ~HoldsLib(d)
      /\ Absent(d) <=> calls[d].pc = "await"
  BY IdleFrame
<1>2. /\ ~HalfLoaded(d)' /\ ~HalfUnloaded(d)' /\ ~HoldsLib(d)'
      /\ Absent(d)' <=> calls[d].pc = "await"
  BY <1>1 DEF HalfLoaded, HalfUnloaded, HoldsLib, Absent
<1> QED
  BY <1>2 DEF Knows

\* What is true of the other frames and the maps when frame c takes a step.
LEMMA DataContext ==
  ASSUME TypeInv, DataInv, ClaimsExclusive, NEW c \in DOMAIN calls, Alone(c)
  PROVE  /\ 0 \notin handles /\ 0 \notin metas
         /\ \A d \in DOMAIN calls : d # c =>
              /\ calls[d].pc \in {"ok", "failed", "prepared", "await"}
              /\ calls[d].pc = "await" =>
                   /\ calls[c].op = "load"
                   /\ Claimed(c) => calls[d].name # calls[c].name
                   /\ loaded[calls[d].name] = 0 /\ loadedMeta[calls[d].name] = 0
         /\ \A e \in Extensions : loaded[e] # 0 =>
              /\ loaded[e] \in DOMAIN calls
              /\ calls[loaded[e]].name = e
              /\ calls[loaded[e]].pc \in {"ok", "storeMeta", "finish"}
<1>0. FramesInv
  BY DEF TypeInv
<1>1. 0 \notin handles /\ 0 \notin metas
  BY DEF DataInv, NoneAstray, HandleOwned, MetaOwned
<1>2. ASSUME NEW d \in DOMAIN calls, d # c
      PROVE  /\ calls[d].pc \in {"ok", "failed", "prepared", "await"}
             /\ calls[d].pc = "await" =>
                  /\ calls[c].op = "load"
                  /\ Claimed(c) => calls[d].name # calls[c].name
                  /\ loaded[calls[d].name] = 0 /\ loadedMeta[calls[d].name] = 0
  <2>1. \/ calls[d].pc \in {"ok", "failed", "prepared"}
        \/ calls[d].pc = "await" /\ calls[c].op = "load"
    BY <1>2 DEF Alone
  <2>2. ASSUME calls[d].pc = "await"
        PROVE  /\ Claimed(c) => calls[d].name # calls[c].name
               /\ loaded[calls[d].name] = 0 /\ loadedMeta[calls[d].name] = 0
    <3>1. Absent(d) /\ Knows(d)
      BY <1>0, <2>2, IdleFrame DEF DataInv
    <3>2. calls[d].op = "load"
      BY <3>1 DEF Absent
    <3>3. Claimed(d)
      BY <2>2, <3>2 DEF Claimed, Returned
    <3> QED
      BY <1>2, <3>1, <3>3 DEF Knows, ClaimsExclusive, NameOf
  <2> QED
    BY <2>1, <2>2
<1>3. ASSUME NEW e \in Extensions, loaded[e] # 0
      PROVE  /\ loaded[e] \in DOMAIN calls
             /\ calls[loaded[e]].name = e
             /\ calls[loaded[e]].pc \in {"ok", "storeMeta", "finish"}
  BY <1>3 DEF DataInv, LoadedBy, BroughtBy
<1> QED
  BY <1>1, <1>2, <1>3

\* A call opens a library: it and its metadata are in the frame's hands.
LEMMA DataOpens ==
  ASSUME TypeInv, DataInv, ClaimsExclusive, NEW c \in DOMAIN calls, Alone(c), Only(c),
         calls'[c].name = calls[c].name,
         calls[c].pc \in {"deps", "prepare"}, calls'[c].pc \in {"init", "initNew"},
         ~HoldsLib(c), ~HalfUnloaded(c), ~Fresh(c),
         Fresh(c)', ~HoldsLib(c)', ~HalfUnloaded(c)',
         handles' = handles \cup {c}, metas' = metas \cup {c},
         UNCHANGED <<loaded, loadedMeta>>, Knows(c)'
  PROVE  DataInv'
<1>0. FramesInv /\ DOMAIN calls' = DOMAIN calls /\ c \in Nat /\ c # 0
  BY FrameNumbers DEF TypeInv, Only
<1>1. \A d \in DOMAIN calls : d # c => calls'[d] = calls[d]
  BY DEF Only
<1>2. \A d \in DOMAIN calls : Knows(d)'
  BY <1>0, <1>1, KnowsIdle, DataContext
<1>3. MapsAgree'
  BY <1>0, MapsAtStep DEF DataInv, MapsAgree, HalfLoaded, HalfUnloaded
<1>4. LoadedBy'
  BY <1>0, <1>1, DataContext DEF DataInv, LoadedBy, BroughtBy
<1>5. FreshMeta(c)' /\ ~HoldsMeta(c)' /\ ~FreshMeta(c) /\ ~HoldsMeta(c)
  BY DEF FreshMeta, HoldsMeta
<1>6. ASSUME NEW m \in Nat
      PROVE  (m \in handles' <=> HandleOwned(m)') /\ (m \in metas' <=> MetaOwned(m)')
  <2>1. HandleElsewhere(c, m)' <=> HandleElsewhere(c, m)
    BY <1>0, <1>1 DEF HandleElsewhere
  <2>2. MetaElsewhere(c, m)' <=> MetaElsewhere(c, m)
    BY <1>0, <1>1 DEF MetaElsewhere
  <2> QED
    BY <1>0, <1>5, <1>6, <2>1, <2>2, OwnedAtStep DEF DataInv, NoneAstray
<1> QED
  BY <1>0, <1>2, <1>3, <1>4, <1>6 DEF DataInv, NoneAstray

\* A call drops what it opened: nothing else is in the frame's hands.
LEMMA DataDrops ==
  ASSUME TypeInv, DataInv, NEW c, Only(c),
         calls'[c].name = calls[c].name, calls'[c].pc = "failed",
         Fresh(c), ~HoldsLib(c), ~HalfUnloaded(c), ~HalfLoaded(c),
         calls[c].pc \notin {"ok", "storeMeta", "finish"},
         handles' = handles \ {c}, metas' = metas \ {c},
         UNCHANGED <<loaded, loadedMeta>>
  PROVE  DataInv'
<1>0. /\ FramesInv /\ DOMAIN calls' = DOMAIN calls /\ c \in DOMAIN calls
      /\ \A d \in DOMAIN calls : d # c => calls'[d] = calls[d]
  BY DEF TypeInv, Only
<1>1. FramesStay /\ \A d \in DOMAIN calls : d # c => SameRole(d)
  BY <1>0, OnlyRoles
<1>2. ~Fresh(c)' /\ ~HoldsLib(c)' /\ ~HalfUnloaded(c)' /\ ~HalfLoaded(c)' /\ ~FreshMeta(c)'
      /\ ~HoldsMeta(c)' /\ ~HoldsMeta(c) /\ FreshMeta(c)
  BY DEF Fresh, HoldsLib, HalfUnloaded, HalfLoaded, FreshMeta, HoldsMeta, Swapping
<1>3. \A d \in DOMAIN calls : Knows(d)'
  <2>1. Knows(c)'
    BY <1>2 DEF Knows, Absent
  <2> QED
    BY <1>0, <1>1, <2>1, KnowsUnmoved
<1>4. MapsAgree'
  BY <1>0, <1>1, <1>2 DEF DataInv, MapsAgree, SameRole
<1>5. LoadedBy'
  BY <1>0 DEF DataInv, LoadedBy, BroughtBy
<1>6. \A e \in Extensions : loaded[e] # c
  <2>1. c # 0
    BY <1>0, FrameNumbers
  <2> QED
    BY <2>1 DEF DataInv, LoadedBy, BroughtBy
<1>7. \A e \in Extensions : loadedMeta[e] # c
  <2> SUFFICES ASSUME NEW e \in Extensions, loadedMeta[e] = c
               PROVE  FALSE
    OBVIOUS
  <2>1. PICK d \in DOMAIN calls : calls[d].name = e /\ (HalfLoaded(d) \/ HalfUnloaded(d))
    BY <1>6 DEF DataInv, MapsAgree
  <2>2. loadedMeta[e] = 0
    BY <2>1 DEF DataInv, Knows
  <2> QED
    BY <1>0, <2>2, FrameNumbers
<1>8. \A d \in DOMAIN calls : /\ HoldsLib(d) => calls[d].oldLib # c /\ calls[d].old # c
                              /\ HalfUnloaded(d) => calls[d].old # c
  BY DEF DataInv, Knows, BroughtBy
<1>9. ASSUME NEW m \in Nat
      PROVE  (m \in handles' <=> HandleOwned(m)') /\ (m \in metas' <=> MetaOwned(m)')
  <2>1. CASE m = c
    <3>1. ~HandleOwned(c)'
      BY <1>0, <1>1, <1>2, <1>6, <1>8 DEF HandleOwned, SameRole
    <3>2. ~MetaOwned(c)'
      BY <1>0, <1>1, <1>2, <1>7, <1>8 DEF MetaOwned, HoldsMeta, SameRole
    <3> QED
      BY <2>1, <3>1, <3>2
  <2>2. CASE m # c
    <3>1. HandleOwned(m)' <=> HandleOwned(m)
      BY <1>0, <1>1, <1>2, <2>2 DEF HandleOwned, SameRole
    <3>2. MetaOwned(m)' <=> MetaOwned(m)
      BY <1>0, <1>1, <1>2, <2>2 DEF MetaOwned, HoldsMeta, FreshMeta, HalfLoaded, SameRole
    <3> QED
      BY <1>9, <2>2, <3>1, <3>2 DEF DataInv, NoneAstray
  <2> QED
    BY <2>1, <2>2
<1> QED
  BY <1>0, <1>3, <1>4, <1>5, <1>9 DEF DataInv, NoneAstray

\* The parts of DataInv that a step of one frame is to show.
LEMMA DataLocal ==
  ASSUME TypeInv, DataInv, ClaimsExclusive, NEW c \in DOMAIN calls, Alone(c), Only(c),
         calls'[c].name = calls[c].name,
         \A e \in Extensions : e # calls[c].name =>
           loaded'[e] = loaded[e] /\ loadedMeta'[e] = loadedMeta[e],
         Claimed(c) \/ calls[c].op # "load",
         calls[c].pc \notin {"ok"},
         Knows(c)',
         \/ loaded'[calls[c].name] = loadedMeta'[calls[c].name]
         \/ HalfLoaded(c)' \/ HalfUnloaded(c)',
         \/ loaded'[calls[c].name] \in {0, loaded[calls[c].name]}
         \/ loaded'[calls[c].name] = c,
         loaded'[calls[c].name] = c =>
           calls'[c].pc = "ok" \/ (calls'[c].op = "load" /\ calls'[c].pc \in {"storeMeta", "finish"})
  PROVE  (\A d \in DOMAIN calls' : Knows(d)') /\ MapsAgree' /\ LoadedBy'
<1>0. /\ FramesInv /\ DOMAIN calls' = DOMAIN calls
      /\ \A d \in DOMAIN calls : d # c => calls'[d] = calls[d]
      /\ calls[c].name \in Extensions
      /\ \A d \in DOMAIN calls : calls[d].name \in Extensions
  BY FrameNumbers DEF TypeInv, Only, FrameType
<1>1. ASSUME NEW d \in DOMAIN calls, d # c
      PROVE  Knows(d)'
  <2>1. calls[d].pc \in {"ok", "failed", "prepared", "await"}
    BY <1>1, DataContext
  <2>2. ASSUME calls[d].pc = "await"
        PROVE  loaded'[calls[d].name] = 0 /\ loadedMeta'[calls[d].name] = 0
    BY <1>0, <1>1, <2>2, DataContext
  <2> QED
    BY <1>0, <1>1, <2>1, <2>2, KnowsIdle
<1>2. MapsAgree'
  <2> SUFFICES ASSUME NEW e \in Extensions, loaded'[e] # loadedMeta'[e]
               PROVE  \E d \in DOMAIN calls' :
                        calls'[d].name = e /\ (HalfLoaded(d)' \/ HalfUnloaded(d)')
    BY DEF MapsAgree
  <2>1. e = calls[c].name
    BY <1>0, MapsAtStep DEF DataInv
  <2> QED
    BY <1>0, <2>1
<1>3. LoadedBy'
  <2> SUFFICES ASSUME NEW e \in Extensions, NEW m, m = loaded'[e], m # 0
               PROVE  \/ BroughtBy(m, e)'
                      \/ /\ m \in DOMAIN calls'
                         /\ calls'[m].name = e
                         /\ calls'[m].op = "load"
                         /\ calls'[m].pc \in {"storeMeta", "finish"}
    BY DEF LoadedBy, BroughtBy
  <2>1. CASE m = c
    <3>1. e = calls[c].name
      <4>1. SUFFICES ASSUME e # calls[c].name
                     PROVE  FALSE
        OBVIOUS
      <4>2. loaded[e] = c /\ c # 0
        BY <2>1, <4>1
      <4>3. calls[loaded[e]].name = e
        BY <4>2, DataContext
      <4> QED
        BY <4>1, <4>2, <4>3
    <3> QED
      BY <1>0, <2>1, <3>1 DEF BroughtBy
  <2>2. CASE m # c
    <3>1. m = loaded[e]
      BY <1>0, <2>2
    <3>2. \/ BroughtBy(m, e)
          \/ /\ m \in DOMAIN calls
             /\ calls[m].name = e
             /\ calls[m].op = "load"
             /\ calls[m].pc \in {"storeMeta", "finish"}
      BY <3>1 DEF DataInv, LoadedBy, BroughtBy
    <3> QED
      BY <1>0, <2>2, <3>2 DEF BroughtBy
  <2> QED
    BY <2>1, <2>2
<1> QED
  BY <1>0, <1>1, <1>2, <1>3

\* load stores the library: it goes from the frame to the map.
LEMMA DataStoreLibrary ==
  ASSUME TypeInv, DataInv, ClaimsExclusive, NEW c, Alone(c), StoreLibrary(c)
  PROVE  DataInv'
<1>0. /\ c \in DOMAIN calls /\ calls[c].pc = "push" /\ calls[c].op = "load"
      /\ FramesInv
      /\ calls[c].name \in Extensions
      /\ c # 0 /\ c \in Nat
  BY FrameNumbers DEF StoreLibrary, At, TypeInv, FrameType
<1> DEFINE e == calls[c].name
<1>1. Knows(c) /\ loaded[e] = 0 /\ loadedMeta[e] = 0
  BY <1>0 DEF DataInv, Knows, Absent
<1>2. /\ Moves(c, "storeMeta")
      /\ loaded' = [loaded EXCEPT ![e] = c]
      /\ UNCHANGED <<loadedMeta, metas>>
      /\ handles' = handles \ {0}
  BY <1>0, <1>1, FrameSteps DEF StoreLibrary, NameOf, DropLibraries, Pcs, LoadPcs
<1>3. /\ Only(c)
      /\ calls'[c].name = e /\ calls'[c].op = "load" /\ calls'[c].pc = "storeMeta"
      /\ loaded'[e] = c /\ \A x \in Extensions : x # e => loaded'[x] = loaded[x]
      /\ handles' = handles
  BY <1>0, <1>2, DataContext DEF Moves, Becomes, TypeInv, MapTypes
<1>4. HalfLoaded(c)' /\ Knows(c)' /\ Claimed(c)
  BY <1>0, <1>1, <1>2, <1>3
     DEF HalfLoaded, Knows, Absent, HalfUnloaded, HoldsLib, Claimed, Returned
<1>5. (\A d \in DOMAIN calls' : Knows(d)') /\ MapsAgree' /\ LoadedBy'
  BY <1>0, <1>1, <1>2, <1>3, <1>4, DataLocal
<1>6. /\ ~Fresh(c)' /\ Fresh(c) /\ ~HoldsLib(c) /\ ~HoldsLib(c)'
      /\ FreshMeta(c) /\ FreshMeta(c)' /\ ~HoldsMeta(c) /\ ~HoldsMeta(c)'
  BY <1>0, <1>3 DEF Fresh, HoldsLib, FreshMeta, HoldsMeta, HalfLoaded, HalfUnloaded
<1>7. ASSUME NEW m \in Nat
      PROVE  (m \in handles' <=> HandleOwned(m)') /\ (m \in metas' <=> MetaOwned(m)')
  <2>1. m # 0 /\ m # c => (HandleElsewhere(c, m)' <=> HandleElsewhere(c, m))
    BY <1>0, <1>1, <1>3 DEF HandleElsewhere, Only
  <2>2. MetaElsewhere(c, m)' <=> MetaElsewhere(c, m)
    BY <1>2, <1>3 DEF MetaElsewhere, Only
  <2>3. HandleElsewhere(c, c)'
    BY <1>0, <1>3 DEF HandleElsewhere
  <2> QED
    BY <1>0, <1>2, <1>3, <1>6, <1>7, <2>1, <2>2, <2>3, OwnedAtStep DEF DataInv, NoneAstray
<1> QED
  BY <1>5, <1>7 DEF DataInv, NoneAstray

\* load stores the metadata: it goes from the frame to the map.
LEMMA DataStoreMeta ==
  ASSUME TypeInv, DataInv, ClaimsExclusive, NEW c, Alone(c), StoreMeta(c)
  PROVE  DataInv'
<1>0. /\ c \in DOMAIN calls /\ calls[c].pc = "storeMeta" /\ FrameOK(c)
      /\ FramesInv
      /\ calls[c].name \in Extensions
      /\ calls[c].op \in {"load", "unload", "reload"}
      /\ c # 0 /\ c \in Nat
  BY FrameNumbers DEF StoreMeta, At, TypeInv, FrameType
<1>a. calls[c].op = "load"
  BY <1>0 DEF FrameOK, UnloadPcs, ReloadPcs
<1> DEFINE e == calls[c].name
<1>1. Knows(c) /\ loaded[e] = c /\ loadedMeta[e] = 0
  BY <1>0, <1>a DEF DataInv, Knows, HalfLoaded
<1>2. /\ Moves(c, "finish")
      /\ loadedMeta' = [loadedMeta EXCEPT ![e] = c]
      /\ UNCHANGED <<loaded, handles>>
      /\ metas' = metas \ {0}
  BY <1>0, <1>1, FrameSteps DEF StoreMeta, NameOf, Pcs, LoadPcs
<1>3. /\ Only(c)
      /\ calls'[c].name = e /\ calls'[c].op = "load" /\ calls'[c].pc = "finish"
      /\ loadedMeta'[e] = c /\ \A x \in Extensions : x # e => loadedMeta'[x] = loadedMeta[x]
      /\ metas' = metas
  BY <1>0, <1>a, <1>2, DataContext DEF Moves, Becomes, TypeInv, MapTypes
<1>4. Knows(c)' /\ Claimed(c)
  BY <1>0, <1>a, <1>1, <1>2, <1>3
     DEF HalfLoaded, Knows, Absent, HalfUnloaded, HoldsLib, Claimed, Returned
<1>5. (\A d \in DOMAIN calls' : Knows(d)') /\ MapsAgree' /\ LoadedBy'
  BY <1>0, <1>1, <1>2, <1>3, <1>4, DataLocal
<1>6. /\ ~Fresh(c)' /\ ~Fresh(c) /\ ~HoldsLib(c) /\ ~HoldsLib(c)'
      /\ FreshMeta(c) /\ ~FreshMeta(c)' /\ ~HoldsMeta(c) /\ ~HoldsMeta(c)'
  BY <1>0, <1>a, <1>3 DEF Fresh, HoldsLib, FreshMeta, HoldsMeta, HalfLoaded, HalfUnloaded
<1>7. ASSUME NEW m \in Nat
      PROVE  (m \in handles' <=> HandleOwned(m)') /\ (m \in metas' <=> MetaOwned(m)')
  <2>1. HandleElsewhere(c, m)' <=> HandleElsewhere(c, m)
    BY <1>2, <1>3 DEF HandleElsewhere, Only
  <2>2. m # 0 /\ m # c => (MetaElsewhere(c, m)' <=> MetaElsewhere(c, m))
    BY <1>0, <1>1, <1>3 DEF MetaElsewhere, Only
  <2>3. MetaElsewhere(c, c)'
    BY <1>0, <1>3 DEF MetaElsewhere
  <2> QED
    BY <1>0, <1>2, <1>3, <1>6, <1>7, <2>1, <2>2, <2>3, OwnedAtStep DEF DataInv, NoneAstray
<1> QED
  BY <1>5, <1>7 DEF DataInv, NoneAstray

\* A library that is in the map while no load is between its insertions was
\* brought by a call that has returned, and its metadata is in the other map.
LEMMA LoadedAtStep ==
  ASSUME TypeInv, DataInv, ClaimsExclusive, NEW c \in DOMAIN calls, Alone(c),
         calls[c].op # "load", ~HalfUnloaded(c),
         loadedMeta[calls[c].name] # 0 \/ loaded[calls[c].name] # 0
  PROVE  /\ loaded[calls[c].name] = loadedMeta[calls[c].name]
         /\ BroughtBy(loaded[calls[c].name], calls[c].name)
<1> DEFINE e == calls[c].name
<1>0. FramesInv /\ e \in Extensions
  BY FrameNumbers DEF TypeInv, FrameType
<1>1. loaded[e] = loadedMeta[e]
  BY <1>0, MapsAtStep DEF DataInv, HalfLoaded
<1>2. \/ BroughtBy(loaded[e], e)
      \/ /\ loaded[e] \in DOMAIN calls
         /\ calls[loaded[e]].op = "load"
         /\ calls[loaded[e]].pc \in {"storeMeta", "finish"}
  BY <1>0, <1>1 DEF DataInv, LoadedBy
<1>3. \A d \in DOMAIN calls : calls[d].op = "load" => calls[d].pc \notin {"storeMeta", "finish"}
  BY DataContext
<1> QED
  BY <1>1, <1>2, <1>3

\* unload takes the metadata into its hands.
LEMMA DataRemoveMeta ==
  ASSUME TypeInv, DataInv, ClaimsExclusive, NEW c, Alone(c), RemoveMeta(c)
  PROVE  DataInv'
<1>0. /\ c \in DOMAIN calls /\ calls[c].pc = "removeMeta" /\ FrameOK(c)
      /\ FramesInv
      /\ calls[c].name \in Extensions
      /\ calls[c].op \in {"load", "unload", "reload"}
      /\ c # 0 /\ c \in Nat
  BY FrameNumbers DEF RemoveMeta, At, TypeInv, FrameType
<1>a. calls[c].op = "unload"
  BY <1>0 DEF FrameOK, LoadPcs, ReloadPcs
<1>b. /\ ~HalfUnloaded(c) /\ ~HalfLoaded(c) /\ ~HoldsLib(c) /\ ~Fresh(c) /\ ~FreshMeta(c)
      /\ ~HoldsMeta(c)
  BY <1>0, <1>a DEF HalfUnloaded, HalfLoaded, HoldsLib, Fresh, FreshMeta, HoldsMeta
<1> DEFINE e == calls[c].name
<1>1. CASE /\ Fail(c)
           /\ UNCHANGED <<loaded, loadedMeta, handles, metas>>
  <2>1. Ends(c, "failed")
    BY <1>0, <1>1, FrameSteps DEF Fail, Pcs, LoadPcs
  <2>2. /\ Only(c) /\ calls'[c].name = e /\ calls'[c].op = "unload" /\ calls'[c].pc = "failed"
    BY <1>a, <2>1 DEF Ends, Becomes
  <2>3. SameRole(c) /\ Knows(c)'
    BY <1>0, <1>a, <1>b, <2>2
       DEF SameRole, Knows, Absent, HalfUnloaded, HalfLoaded, HoldsLib, Fresh
  <2> QED
    BY <1>0, <1>1, <2>2, <2>3, DataStays
<1>2. CASE /\ loadedMeta[e] # 0
           /\ loadedMeta' = [loadedMeta EXCEPT ![e] = 0]
           /\ Only(c)
           /\ Becomes(c, "removeEntries", calls[c].file, calls[c].todo, calls[c].regs,
                      loadedMeta[e], calls[c].oldLib)
           /\ UNCHANGED <<loaded, handles, metas>>
  <2>1. loaded[e] = loadedMeta[e] /\ BroughtBy(loaded[e], e)
    BY <1>0, <1>a, <1>b, <1>2, LoadedAtStep
  <2>2. /\ calls'[c].name = e /\ calls'[c].op = "unload" /\ calls'[c].pc = "removeEntries"
        /\ calls'[c].old = loadedMeta[e]
        /\ loadedMeta'[e] = 0 /\ \A x \in Extensions : x # e => loadedMeta'[x] = loadedMeta[x]
    BY <1>0, <1>a, <1>2 DEF Becomes, TypeInv, MapTypes
  <2>3. \A m : BroughtBy(m, e) => BroughtBy(m, e)'
    BY <1>0, <1>2, <2>2 DEF BroughtBy, Only
  <2>4. /\ HalfUnloaded(c)' /\ ~HalfLoaded(c)' /\ ~HoldsLib(c)' /\ ~Fresh(c)' /\ ~FreshMeta(c)'
        /\ HoldsMeta(c)'
    BY <2>2 DEF HalfUnloaded, HalfLoaded, HoldsLib, Fresh, FreshMeta, HoldsMeta, Swapping
  <2>5. Knows(c)'
    BY <1>2, <2>1, <2>2, <2>3, <2>4 DEF Knows, Absent
  <2>6. (\A d \in DOMAIN calls' : Knows(d)') /\ MapsAgree' /\ LoadedBy'
    <3>1. loaded'[e] # c
      BY <1>0, <1>2, <2>1 DEF BroughtBy
    <3> QED
      BY <1>0, <1>a, <1>2, <2>2, <2>4, <2>5, <3>1, DataLocal
  <2>7. ASSUME NEW m \in Nat
        PROVE  (m \in handles' <=> HandleOwned(m)') /\ (m \in metas' <=> MetaOwned(m)')
    <3>1. HandleElsewhere(c, m)' <=> HandleElsewhere(c, m)
      BY <1>2 DEF HandleElsewhere, Only
    <3>2. m # 0 => (MetaElsewhere(c, m) <=> MetaElsewhere(c, m)' \/ m = loadedMeta[e])
      BY <1>0, <1>2, <2>2 DEF MetaElsewhere, Only
    <3>3. m \in handles' <=> HandleOwned(m)'
      BY <1>0, <1>b, <1>2, <2>4, <3>1, OwnedAtStep DEF DataInv, NoneAstray
    <3>4. m \in metas <=> m # 0 /\ MetaElsewhere(c, m)
      BY <1>0, <1>b, <1>2, OwnedAtStep DEF DataInv, NoneAstray
    <3>5. MetaOwned(m)' <=> m # 0 /\ (MetaElsewhere(c, m)' \/ m = loadedMeta[e])
      BY <1>0, <1>2, <2>2, <2>4, OwnedAtStep
    <3> QED
      BY <1>2, <3>2, <3>3, <3>4, <3>5
  <2> QED
    BY <2>6, <2>7 DEF DataInv, NoneAstray
<1> QED
  BY <1>1, <1>2, RemoveMetaEffect DEF NameOf, liveVars

\* unload takes the library into its hands; with one call at a time it is there.
LEMMA DataRemoveLibrary ==
  ASSUME TypeInv, DataInv, ClaimsExclusive, NEW c, Alone(c), RemoveLibrary(c)
  PROVE  DataInv'
<1>0. /\ c \in DOMAIN calls /\ calls[c].pc = "removeLib" /\ FrameOK(c)
      /\ FramesInv
      /\ calls[c].name \in Extensions
      /\ calls[c].op \in {"load", "unload", "reload"}
      /\ c # 0 /\ c \in Nat
  BY FrameNumbers DEF RemoveLibrary, At, TypeInv, FrameType
<1>a. calls[c].op = "unload"
  BY <1>0 DEF FrameOK, LoadPcs, ReloadPcs
<1>b. HalfUnloaded(c) /\ ~HoldsLib(c) /\ ~Fresh(c) /\ ~FreshMeta(c) /\ HoldsMeta(c)
  BY <1>0, <1>a DEF HalfUnloaded, HalfLoaded, HoldsLib, Fresh, FreshMeta, HoldsMeta
<1> DEFINE e == calls[c].name
<1>1. BroughtBy(calls[c].old, e) /\ loaded[e] = calls[c].old /\ loadedMeta[e] = 0
  BY <1>0, <1>b DEF DataInv, Knows
<1>2. loaded[e] # 0 /\ loaded[e] # c
  BY <1>0, <1>1, FrameNumbers DEF BroughtBy
<1>3. /\ loaded' = [loaded EXCEPT ![e] = 0]
      /\ Only(c)
      /\ Becomes(c, "deinit", calls[c].file, calls[c].todo, calls[c].regs,
                 calls[c].old, loaded[e])
      /\ UNCHANGED <<loadedMeta, handles, metas>>
  BY <1>2, RemoveLibraryEffect DEF NameOf
<1>4. /\ calls'[c].name = e /\ calls'[c].op = "unload" /\ calls'[c].pc = "deinit"
      /\ calls'[c].old = calls[c].old /\ calls'[c].oldLib = loaded[e]
      /\ loaded'[e] = 0 /\ \A x \in Extensions : x # e => loaded'[x] = loaded[x]
  BY <1>0, <1>a, <1>3 DEF Becomes, TypeInv, MapTypes
<1>5. \A m : BroughtBy(m, e) => BroughtBy(m, e)'
  BY <1>0, <1>3, <1>4 DEF BroughtBy, Only
<1>6. /\ ~HalfUnloaded(c)' /\ ~HalfLoaded(c)' /\ HoldsLib(c)' /\ ~Fresh(c)' /\ ~FreshMeta(c)'
      /\ HoldsMeta(c)'
  BY <1>4 DEF HalfUnloaded, HalfLoaded, HoldsLib, Fresh, FreshMeta, HoldsMeta, Swapping
<1>7. Knows(c)'
  BY <1>1, <1>3, <1>4, <1>5, <1>6 DEF Knows, Absent
<1>8. (\A d \in DOMAIN calls' : Knows(d)') /\ MapsAgree' /\ LoadedBy'
  BY <1>0, <1>a, <1>1, <1>3, <1>4, <1>7, DataLocal
<1>9. ASSUME NEW m \in Nat
      PROVE  (m \in handles' <=> HandleOwned(m)') /\ (m \in metas' <=> MetaOwned(m)')
  <2>1. m # 0 => (HandleElsewhere(c, m) <=> HandleElsewhere(c, m)' \/ m = loaded[e])
    BY <1>0, <1>3, <1>4 DEF HandleElsewhere, Only
  <2>2. MetaElsewhere(c, m)' <=> MetaElsewhere(c, m)
    BY <1>3 DEF MetaElsewhere, Only
  <2>3. m \in handles <=> m # 0 /\ HandleElsewhere(c, m)
    BY <1>0, <1>b, <1>3, OwnedAtStep DEF DataInv, NoneAstray
  <2>4. HandleOwned(m)' <=> m # 0 /\ (HandleElsewhere(c, m)' \/ m = loaded[e])
    BY <1>0, <1>3, <1>4, <1>6, OwnedAtStep
  <2>5. m \in handles' <=> HandleOwned(m)'
    BY <1>3, <2>1, <2>3, <2>4
  <2>6. m \in metas <=> m # 0 /\ (MetaElsewhere(c, m) \/ calls[c].old = m)
    BY <1>0, <1>b, <1>3, OwnedAtStep DEF DataInv, NoneAstray
  <2>7. MetaOwned(m)' <=> m # 0 /\ (MetaElsewhere(c, m)' \/ calls[c].old = m)
    BY <1>0, <1>3, <1>4, <1>6, OwnedAtStep
  <2> QED
    BY <1>3, <2>2, <2>5, <2>6, <2>7
<1> QED
  BY <1>8, <1>9 DEF DataInv, NoneAstray

\* The old version is dropped: nothing else refers to it.
LEMMA DataCloseOld ==
  ASSUME TypeInv, DataInv, ClaimsExclusive, NEW c, Alone(c), CloseOld(c)
  PROVE  DataInv'
<1>0. /\ c \in DOMAIN calls /\ calls[c].pc = "close" /\ FrameOK(c)
      /\ FramesInv
      /\ calls[c].name \in Extensions
      /\ calls[c].op \in {"load", "unload", "reload"}
      /\ c # 0 /\ c \in Nat
  BY FrameNumbers DEF CloseOld, At, TypeInv, FrameType
<1>a. calls[c].op \in {"unload", "reload"}
  BY <1>0 DEF FrameOK, LoadPcs
<1>b. HoldsLib(c) /\ HoldsMeta(c) /\ (Fresh(c) <=> calls[c].op = "reload")
      /\ (FreshMeta(c) <=> calls[c].op = "reload")
  BY <1>0, <1>a DEF HoldsLib, Fresh, FreshMeta, HoldsMeta, Swapping
<1> DEFINE e == calls[c].name
           old == calls[c].old
           oldLib == calls[c].oldLib
<1>1. BroughtBy(old, e) /\ BroughtBy(oldLib, e) /\ loaded[e] = 0 /\ loadedMeta[e] = 0
  BY <1>0, <1>b DEF DataInv, Knows
<1>2. /\ handles' = handles \ {oldLib} /\ metas' = metas \ {old}
      /\ UNCHANGED <<loaded, loadedMeta>>
      /\ calls[c].op = "unload" => Ends(c, "ok")
      /\ calls[c].op = "reload" => Moves(c, "attach")
  BY <1>0, <1>a, FrameSteps DEF CloseOld, DropLibraries, mapVars, Pcs, LoadPcs
<1>3. /\ Only(c) /\ calls'[c].name = e /\ calls'[c].op = calls[c].op
      /\ calls[c].op = "unload" => calls'[c].pc = "ok"
      /\ calls[c].op = "reload" => calls'[c].pc = "attach"
  BY <1>a, <1>2 DEF Ends, Moves, Becomes
<1>4. /\ ~HoldsLib(c)' /\ ~HoldsMeta(c)' /\ ~HalfLoaded(c)' /\ ~HalfUnloaded(c)'
      /\ Fresh(c)' <=> Fresh(c)
      /\ FreshMeta(c)' <=> FreshMeta(c)
  BY <1>a, <1>b, <1>3
     DEF HoldsLib, HoldsMeta, HalfLoaded, HalfUnloaded, Fresh, FreshMeta, Swapping
<1>5. Knows(c)'
  BY <1>a, <1>1, <1>2, <1>3, <1>4 DEF Knows, Absent
<1>6. (\A d \in DOMAIN calls' : Knows(d)') /\ MapsAgree' /\ LoadedBy'
  BY <1>0, <1>a, <1>1, <1>2, <1>3, <1>5, DataLocal
<1>7. ASSUME NEW x \in Extensions
      PROVE  loaded[x] # oldLib /\ loadedMeta[x] # old
  <2>1. oldLib # 0 /\ old # 0 /\ calls[oldLib].name = e /\ calls[old].name = e
    BY <1>0, <1>1, FrameNumbers DEF BroughtBy
  <2>2. x # e => loaded[x] = loadedMeta[x]
    BY <1>0, MapsAtStep DEF DataInv
  <2>3. loaded[x] # 0 => calls[loaded[x]].name = x
    BY <1>0, DataContext
  <2> QED
    BY <1>1, <2>1, <2>2, <2>3
<1>8. /\ calls[oldLib].pc = "ok" /\ calls[old].pc = "ok" /\ oldLib # c /\ old # c
  BY <1>0, <1>1 DEF BroughtBy
<1>9. ASSUME NEW m \in Nat
      PROVE  (m \in handles' <=> HandleOwned(m)') /\ (m \in metas' <=> MetaOwned(m)')
  <2>1. HandleElsewhere(c, m)' <=> HandleElsewhere(c, m)
    BY <1>2, <1>3 DEF HandleElsewhere, Only
  <2>2. MetaElsewhere(c, m)' <=> MetaElsewhere(c, m)
    BY <1>2, <1>3 DEF MetaElsewhere, Only
  <2>3. ~HandleElsewhere(c, oldLib)
    BY <1>7, <1>8 DEF HandleElsewhere
  <2>4. ~MetaElsewhere(c, old)
    BY <1>7, <1>8 DEF MetaElsewhere
  <2>a. m \in handles <=> m # 0 /\ (\/ HandleElsewhere(c, m) \/ (m = c /\ Fresh(c))
                                   \/ oldLib = m)
    BY <1>0, <1>b, <1>3, OwnedAtStep DEF DataInv, NoneAstray
  <2>b. HandleOwned(m)' <=> m # 0 /\ (HandleElsewhere(c, m)' \/ (m = c /\ Fresh(c)))
    BY <1>0, <1>3, <1>4, OwnedAtStep
  <2>c. m \in metas <=> m # 0 /\ (\/ MetaElsewhere(c, m) \/ (m = c /\ FreshMeta(c))
                                 \/ old = m)
    BY <1>0, <1>b, <1>3, OwnedAtStep DEF DataInv, NoneAstray
  <2>d. MetaOwned(m)' <=> m # 0 /\ (MetaElsewhere(c, m)' \/ (m = c /\ FreshMeta(c)))
    BY <1>0, <1>3, <1>4, OwnedAtStep
  <2>5. m \in handles' <=> HandleOwned(m)'
    BY <1>2, <1>8, <2>1, <2>3, <2>a, <2>b
  <2>6. m \in metas' <=> MetaOwned(m)'
    BY <1>2, <1>8, <2>2, <2>4, <2>c, <2>d
  <2> QED
    BY <2>5, <2>6
<1> QED
  BY <1>6, <1>9 DEF DataInv, NoneAstray

\* The commit of a reload takes the old version into its hands, from both maps; if
\* it is not there, what the reload opened is dropped.
LEMMA DataRemoveOld ==
  ASSUME TypeInv, DataInv, ClaimsExclusive, NEW c, Alone(c), RemoveOld(c)
  PROVE  DataInv'
<1>0. /\ c \in DOMAIN calls /\ calls[c].pc = "removeOld" /\ FrameOK(c)
      /\ FramesInv
      /\ calls[c].name \in Extensions
      /\ calls[c].op \in {"load", "unload", "reload"}
      /\ c # 0 /\ c \in Nat
  BY FrameNumbers DEF RemoveOld, At, TypeInv, FrameType
<1>a. calls[c].op = "reload"
  BY <1>0 DEF FrameOK, LoadPcs, UnloadPcs
<1>b. /\ ~HalfUnloaded(c) /\ ~HalfLoaded(c) /\ ~HoldsLib(c) /\ ~HoldsMeta(c)
      /\ Fresh(c) /\ FreshMeta(c)
  BY <1>0, <1>a DEF HalfUnloaded, HalfLoaded, HoldsLib, Fresh, FreshMeta, HoldsMeta, Swapping
<1> DEFINE e == calls[c].name
<1>c. loaded[e] = loadedMeta[e]
  BY <1>0, <1>b, MapsAtStep DEF DataInv
<1>d. loadedMeta' = [loadedMeta EXCEPT ![e] = 0]
  BY RemoveOldEffect DEF NameOf
<1>1. CASE /\ loadedMeta[e] = 0 \/ loaded[e] = 0
           /\ Fail(c)
           /\ handles' = handles \ {c}
           /\ metas' = metas \ {c, loadedMeta[e]}
           /\ loaded' = loaded
  <2>1. Ends(c, "failed")
    BY <1>0, <1>1, FrameSteps DEF Fail, Pcs, LoadPcs
  <2>2. Only(c) /\ calls'[c].name = e /\ calls'[c].pc = "failed"
    BY <2>1 DEF Ends, Becomes
  <2>3. loadedMeta[e] = 0 /\ loadedMeta' = loadedMeta
    BY <1>0, <1>c, <1>d, <1>1 DEF TypeInv, MapTypes
  <2>4. metas' = metas \ {c}
    BY <1>0, <1>1, <2>3, DataContext
  <2> QED
    BY <1>0, <1>b, <1>1, <2>2, <2>3, <2>4, DataDrops
<1>2. CASE /\ loadedMeta[e] # 0 /\ loaded[e] # 0
           /\ loaded' = [loaded EXCEPT ![e] = 0]
           /\ Only(c)
           /\ Becomes(c, "removeEntries", calls[c].file, calls[c].todo, calls[c].regs,
                      loadedMeta[e], loaded[e])
           /\ UNCHANGED <<handles, metas>>
  <2>1. BroughtBy(loaded[e], e) /\ loaded[e] # c
    BY <1>0, <1>a, <1>b, <1>2, LoadedAtStep DEF BroughtBy
  <2>2. /\ calls'[c].name = e /\ calls'[c].op = "reload" /\ calls'[c].pc = "removeEntries"
        /\ calls'[c].old = loadedMeta[e] /\ calls'[c].oldLib = loaded[e]
        /\ loadedMeta'[e] = 0 /\ loaded'[e] = 0
        /\ \A x \in Extensions : x # e => loadedMeta'[x] = loadedMeta[x] /\ loaded'[x] = loaded[x]
    BY <1>0, <1>a, <1>d, <1>2 DEF Becomes, TypeInv, MapTypes
  <2>3. \A m : BroughtBy(m, e) => BroughtBy(m, e)'
    BY <1>0, <1>2, <2>2 DEF BroughtBy, Only
  <2>4. /\ ~HalfUnloaded(c)' /\ ~HalfLoaded(c)' /\ HoldsLib(c)' /\ HoldsMeta(c)'
        /\ Fresh(c)' /\ FreshMeta(c)'
    BY <2>2 DEF HalfUnloaded, HalfLoaded, HoldsLib, Fresh, FreshMeta, HoldsMeta, Swapping
  <2>5. Knows(c)'
    BY <1>c, <2>1, <2>2, <2>3, <2>4 DEF Knows, Absent
  <2>6. (\A d \in DOMAIN calls' : Knows(d)') /\ MapsAgree' /\ LoadedBy'
    BY <1>0, <1>a, <1>2, <2>2, <2>5, DataLocal
  <2>7. ASSUME NEW m \in Nat
        PROVE  (m \in handles' <=> HandleOwned(m)') /\ (m \in metas' <=> MetaOwned(m)')
    <3>1. m # 0 => (HandleElsewhere(c, m) <=> HandleElsewhere(c, m)' \/ m = loaded[e])
      BY <1>0, <1>2, <2>2 DEF HandleElsewhere, Only
    <3>2. m # 0 => (MetaElsewhere(c, m) <=> MetaElsewhere(c, m)' \/ m = loadedMeta[e])
      BY <1>0, <1>2, <2>2 DEF MetaElsewhere, Only
    <3>3. m \in handles <=> m # 0 /\ (HandleElsewhere(c, m) \/ m = c)
      BY <1>0, <1>b, <1>2, OwnedAtStep DEF DataInv, NoneAstray
    <3>4. HandleOwned(m)' <=> m # 0 /\ (HandleElsewhere(c, m)' \/ m = c \/ m = loaded[e])
      BY <1>0, <1>2, <2>2, <2>4, OwnedAtStep
    <3>5. m \in metas <=> m # 0 /\ (MetaElsewhere(c, m) \/ m = c)
      BY <1>0, <1>b, <1>2, OwnedAtStep DEF DataInv, NoneAstray
    <3>6. MetaOwned(m)' <=> m # 0 /\ (MetaElsewhere(c, m)' \/ m = c \/ m = loadedMeta[e])
      BY <1>0, <1>2, <2>2, <2>4, OwnedAtStep
    <3>7. m \in handles' <=> HandleOwned(m)'
      BY <1>2, <3>1, <3>3, <3>4
    <3>8. m \in metas' <=> MetaOwned(m)'
      BY <1>2, <3>2, <3>5, <3>6
    <3> QED
      BY <3>7, <3>8
  <2> QED
    BY <2>6, <2>7 DEF DataInv, NoneAstray
<1> QED
  BY <1>1, <1>2, RemoveOldEffect DEF NameOf, DropLibraries

\* The commit of a reload stores the new version in both maps, which have none.
LEMMA DataStoreReloaded ==
  ASSUME TypeInv, DataInv, ClaimsExclusive, NEW c, Alone(c), StoreReloaded(c)
  PROVE  DataInv'
<1>0. /\ c \in DOMAIN calls /\ calls[c].pc = "push" /\ calls[c].op = "reload"
      /\ FramesInv
      /\ calls[c].name \in Extensions
      /\ c # 0 /\ c \in Nat
  BY FrameNumbers DEF StoreReloaded, At, TypeInv, FrameType
<1> DEFINE e == calls[c].name
<1>1. loaded[e] = 0 /\ loadedMeta[e] = 0
  BY <1>0 DEF DataInv, Knows
<1>2. /\ Ends(c, "ok")
      /\ loaded' = [loaded EXCEPT ![e] = c]
      /\ loadedMeta' = [loadedMeta EXCEPT ![e] = c]
      /\ handles' = handles \ {0} /\ metas' = metas \ {0}
  BY <1>0, <1>1, FrameSteps DEF StoreReloaded, NameOf, DropLibraries, Pcs, LoadPcs
<1>3. /\ Only(c)
      /\ calls'[c].name = e /\ calls'[c].op = "reload" /\ calls'[c].pc = "ok"
      /\ loaded'[e] = c /\ loadedMeta'[e] = c
      /\ \A x \in Extensions : x # e => loadedMeta'[x] = loadedMeta[x] /\ loaded'[x] = loaded[x]
      /\ handles' = handles /\ metas' = metas
  BY <1>0, <1>2, DataContext DEF Ends, Becomes, TypeInv, MapTypes
<1>4. /\ ~HalfUnloaded(c)' /\ ~HalfLoaded(c)' /\ ~HoldsLib(c)' /\ ~HoldsMeta(c)'
      /\ ~Fresh(c)' /\ ~FreshMeta(c)'
      /\ ~HoldsLib(c) /\ ~HoldsMeta(c) /\ Fresh(c) /\ FreshMeta(c)
  BY <1>0, <1>3 DEF HalfUnloaded, HalfLoaded, HoldsLib, Fresh, FreshMeta, HoldsMeta, Swapping
<1>5. Knows(c)'
  BY <1>3, <1>4 DEF Knows, Absent
<1>6. (\A d \in DOMAIN calls' : Knows(d)') /\ MapsAgree' /\ LoadedBy'
  BY <1>0, <1>3, <1>5, DataLocal
<1>7. ASSUME NEW m \in Nat
      PROVE  (m \in handles' <=> HandleOwned(m)') /\ (m \in metas' <=> MetaOwned(m)')
  <2>1. m # 0 => (HandleElsewhere(c, m) \/ m = c <=> HandleElsewhere(c, m)')
    BY <1>0, <1>1, <1>3 DEF HandleElsewhere, Only
  <2>2. m # 0 => (MetaElsewhere(c, m) \/ m = c <=> MetaElsewhere(c, m)')
    BY <1>0, <1>1, <1>3 DEF MetaElsewhere, Only
  <2>3. m \in handles <=> m # 0 /\ (HandleElsewhere(c, m) \/ m = c)
    BY <1>0, <1>3, <1>4, OwnedAtStep DEF DataInv, NoneAstray
  <2>4. HandleOwned(m)' <=> m # 0 /\ HandleElsewhere(c, m)'
    BY <1>0, <1>3, <1>4, OwnedAtStep
  <2>5. m \in metas <=> m # 0 /\ (MetaElsewhere(c, m) \/ m = c)
    BY <1>0, <1>3, <1>4, OwnedAtStep DEF DataInv, NoneAstray
  <2>6. MetaOwned(m)' <=> m # 0 /\ MetaElsewhere(c, m)'
    BY <1>0, <1>3, <1>4, OwnedAtStep
  <2> QED
    BY <1>3, <2>1, <2>2, <2>3, <2>4, <2>5, <2>6
<1> QED
  BY <1>6, <1>7 DEF DataInv, NoneAstray

\* The steps that open a library, and those that drop one that was opened.
OpeningStep(c) == OpenLibrary(c) \/ PrepareReload(c)

DroppingStep(c) ==
  InitExtension(c) \/ CheckDependents(c) \/ InitNew(c) \/ CommitReload(c) \/ DropPrepared(c)

\* load and prepare_reload open a library, or return an error.
LEMMA DataOpeningStep ==
  ASSUME TypeInv, DataInv, ClaimsExclusive, NEW c, Alone(c), OpeningStep(c)
  PROVE  DataInv'
<1>0. /\ c \in DOMAIN calls /\ calls[c].pc \in {"deps", "prepare"} /\ FrameOK(c)
      /\ FramesInv
      /\ calls[c].name \in Extensions
      /\ calls[c].op \in {"load", "unload", "reload"}
      /\ calls[c].pc = "deps" <=> OpenLibrary(c)
  BY FrameNumbers DEF OpeningStep, OpenLibrary, PrepareReload, At, TypeInv, FrameType
<1>a. (calls[c].op = "load" /\ calls[c].pc = "deps") \/ (calls[c].op = "reload" /\ calls[c].pc = "prepare")
  BY <1>0 DEF FrameOK, LoadPcs, UnloadPcs, ReloadPcs
<1>b. /\ ~HalfUnloaded(c) /\ ~HalfLoaded(c) /\ ~HoldsLib(c) /\ ~Fresh(c)
  BY <1>a DEF HalfUnloaded, HalfLoaded, HoldsLib, Fresh, Swapping
<1>c. UNCHANGED <<loaded, loadedMeta>>
  BY DEF OpeningStep, OpenLibrary, PrepareReload, mapVars
<1>d. Knows(c)
  BY <1>0 DEF DataInv
<1>1. CASE /\ Moves(c, "init") /\ calls[c].op = "load"
           /\ handles' = handles \cup {c} /\ metas' = metas \cup {c}
  <2>1. /\ Only(c) /\ calls'[c].name = calls[c].name /\ calls'[c].op = "load"
        /\ calls'[c].pc = "init"
    BY <1>1 DEF Moves, Becomes
  <2>2. /\ ~HalfUnloaded(c)' /\ ~HalfLoaded(c)' /\ ~HoldsLib(c)' /\ Fresh(c)'
    BY <2>1 DEF HalfUnloaded, HalfLoaded, HoldsLib, Fresh
  <2>3. Knows(c)'
    BY <1>a, <1>c, <1>d, <1>1, <2>1, <2>2 DEF Knows, Absent
  <2> QED
    BY <1>0, <1>b, <1>c, <1>1, <2>1, <2>2, <2>3, DataOpens
<1>2. CASE /\ Only(c) /\ calls[c].op = "reload"
           /\ Becomes(c, "initNew", calls[c].file, calls[c].todo, OthersRegisters(c),
                      calls[c].old, calls[c].oldLib)
           /\ handles' = handles \cup {c} /\ metas' = metas \cup {c}
  <2>1. /\ calls'[c].name = calls[c].name /\ calls'[c].op = "reload" /\ calls'[c].pc = "initNew"
    BY <1>2 DEF Becomes
  <2>2. /\ ~HalfUnloaded(c)' /\ ~HalfLoaded(c)' /\ ~HoldsLib(c)' /\ Fresh(c)'
    BY <2>1 DEF HalfUnloaded, HalfLoaded, HoldsLib, Fresh, Swapping
  <2>3. Knows(c)'
    BY <2>1, <2>2 DEF Knows, Absent
  <2> QED
    BY <1>0, <1>b, <1>c, <1>2, <2>1, <2>2, <2>3, DataOpens
<1>3. CASE Ends(c, "failed") /\ UNCHANGED <<handles, metas>>
  <2>1. Only(c) /\ calls'[c].name = calls[c].name /\ calls'[c].op = calls[c].op
        /\ calls'[c].pc = "failed"
    BY <1>3 DEF Ends, Becomes
  <2>2. SameRole(c) /\ Knows(c)'
    BY <1>a, <1>b, <2>1
       DEF SameRole, Knows, Absent, HalfUnloaded, HalfLoaded, HoldsLib, Fresh, Swapping
  <2> QED
    BY <1>0, <1>a, <1>c, <1>3, <2>1, <2>2, DataStays
<1>4. \A p \in Pcs : (Goto(c, p) => Moves(c, p)) /\ (Return(c, p) => Ends(c, p))
  BY <1>0, FrameSteps
<1>5. "init" \in Pcs /\ "failed" \in Pcs
  BY DEF Pcs, LoadPcs
<1>6. CASE OpenLibrary(c)
  <2>1. calls[c].op = "load"
    BY <1>0, <1>a, <1>6
  <2> QED
    BY <1>1, <1>3, <1>4, <1>5, <1>6, <2>1 DEF OpenLibrary, FailLoad
<1>7. CASE PrepareReload(c)
  <2>1. calls[c].op = "reload"
    BY <1>a, <1>7, PrepareReloadEffect
  <2> QED
    BY <1>2, <1>3, <1>4, <1>5, <1>7, <2>1, PrepareReloadEffect DEF Fail
<1> QED
  BY <1>6, <1>7 DEF OpeningStep

\* What a call opened is dropped again, or it goes on.
LEMMA DataDroppingStep ==
  ASSUME TypeInv, DataInv, NEW c, DroppingStep(c)
  PROVE  DataInv'
<1>0. /\ c \in DOMAIN calls
      /\ calls[c].pc \in {"init", "dependents", "initNew", "prepared"}
      /\ FrameOK(c)
      /\ FramesInv
      /\ calls[c].op \in {"load", "unload", "reload"}
      /\ Knows(c)
  BY FrameNumbers
     DEF DroppingStep, InitExtension, CheckDependents, InitNew, CommitReload, DropPrepared, At,
         TypeInv, FrameType, DataInv
<1>a. \/ calls[c].op = "load" /\ calls[c].pc = "init"
      \/ calls[c].op = "unload" /\ calls[c].pc = "dependents"
      \/ calls[c].op = "reload" /\ calls[c].pc \in {"dependents", "initNew", "prepared"}
  BY <1>0 DEF FrameOK, LoadPcs, UnloadPcs, ReloadPcs
<1>b. /\ ~HalfUnloaded(c) /\ ~HalfLoaded(c) /\ ~HoldsLib(c)
      /\ Fresh(c) <=> calls[c].op # "unload"
  BY <1>a DEF HalfUnloaded, HalfLoaded, HoldsLib, Fresh, Swapping
<1>c. UNCHANGED <<loaded, loadedMeta>>
  BY DEF DroppingStep, InitExtension, CheckDependents, InitNew, CommitReload, DropPrepared, mapVars
<1>1. CASE /\ Ends(c, "failed") /\ calls[c].op # "unload"
           /\ handles' = handles \ {c} /\ metas' = metas \ {c}
  BY <1>0, <1>a, <1>b, <1>c, <1>1, DataDrops DEF Ends, Becomes
<1>2. CASE /\ Ends(c, "failed") /\ calls[c].op = "unload"
           /\ UNCHANGED <<handles, metas>>
  <2>1. Only(c) /\ calls'[c].name = calls[c].name /\ calls'[c].op = calls[c].op
        /\ calls'[c].pc = "failed"
    BY <1>2 DEF Ends, Becomes
  <2>2. SameRole(c) /\ Knows(c)'
    BY <1>2, <1>a, <1>b, <2>1
       DEF SameRole, Knows, Absent, HalfUnloaded, HalfLoaded, HoldsLib, Fresh, Swapping
  <2> QED
    BY <1>0, <1>c, <1>2, <2>1, <2>2, DataStays
<1>3. CASE /\ UNCHANGED <<handles, metas>>
           /\ \/ calls[c].op = "load" /\ Moves(c, "attach")
              \/ calls[c].op = "unload" /\ Moves(c, "removeMeta")
              \/ calls[c].op = "reload" /\ calls[c].pc # "dependents" /\ Moves(c, "prepared")
              \/ calls[c].op = "reload" /\ calls[c].pc # "dependents" /\ Moves(c, "dependents")
              \/ calls[c].op = "reload" /\ Moves(c, "removeOld")
  <2>1. /\ Only(c) /\ calls'[c].name = calls[c].name /\ calls'[c].op = calls[c].op
        /\ \/ calls[c].op = "load" /\ calls'[c].pc = "attach"
           \/ calls[c].op = "unload" /\ calls'[c].pc = "removeMeta"
           \/ calls[c].op = "reload" /\ calls'[c].pc \in {"prepared", "dependents", "removeOld"}
    BY <1>3 DEF Moves, Becomes
  <2>2. SameRole(c)
    BY <1>a, <1>b, <2>1 DEF SameRole, HalfUnloaded, HalfLoaded, HoldsLib, Fresh, Swapping
  <2>3. Knows(c)'
    BY <1>0, <1>a, <1>c, <2>1 DEF Knows, Absent, HalfUnloaded, HalfLoaded, HoldsLib, Swapping
  <2> QED
    BY <1>0, <1>a, <1>c, <1>3, <2>1, <2>2, <2>3, DataStays
<1>4. \A p \in Pcs : (Goto(c, p) => Moves(c, p)) /\ (Return(c, p) => Ends(c, p))
  BY <1>0, FrameSteps
<1>5. {"attach", "removeMeta", "prepared", "dependents", "removeOld", "failed"} \subseteq Pcs
  BY DEF Pcs, LoadPcs, UnloadPcs, ReloadPcs
<1>6. CASE InitExtension(c)
  <2>1. calls[c].op = "load"
    BY <1>a, <1>6 DEF InitExtension, At
  <2> QED
    BY <1>1, <1>3, <1>4, <1>5, <1>6, <2>1 DEF InitExtension, FailLoad, DropLibraries
<1>7. CASE CheckDependents(c)
  <2>1. calls[c].op # "load" /\ (calls[c].op # "unload" => calls[c].op = "reload")
    BY <1>a, <1>7 DEF CheckDependents, At
  <2> QED
    BY <1>1, <1>2, <1>3, <1>4, <1>5, <1>7, <2>1
       DEF CheckDependents, AbandonReload, Fail, DropLibraries, liveVars
<1>8. CASE InitNew(c) \/ CommitReload(c) \/ DropPrepared(c)
  <2>1. calls[c].op = "reload" /\ calls[c].pc # "dependents"
    BY <1>a, <1>8 DEF InitNew, CommitReload, DropPrepared, At
  <2> QED
    BY <1>1, <1>3, <1>4, <1>5, <1>8, <2>1
       DEF InitNew, CommitReload, DropPrepared, AbandonReload, Fail, DropLibraries
<1> QED
  BY <1>6, <1>7, <1>8 DEF DroppingStep

\* A frame that starts holds nothing.
LEMMA DataGrows ==
  ASSUME DataInv, NEW n, DOMAIN calls' = DOMAIN calls \cup {n}, n \notin DOMAIN calls,
         UNCHANGED <<loaded, loadedMeta, handles, metas>>,
         FramesStay, \A d \in DOMAIN calls : SameRole(d) /\ Knows(d)',
         \/ calls'[n].op = "load" /\ calls'[n].pc = "fast"
         \/ calls'[n].op = "unload" /\ calls'[n].pc = "dependents"
         \/ calls'[n].op = "reload" /\ calls'[n].pc = "old"
  PROVE  DataInv'
<1>1. NoRole(n)' /\ ~Absent(n)'
  BY DEF NoRole, Fresh, HalfLoaded, HalfUnloaded, HoldsLib, Absent, Swapping
<1>2. Knows(n)'
  BY <1>1 DEF NoRole, Knows
<1> QED
  BY <1>1, <1>2, DataQuiet

\* A call starts from outside.
LEMMA DataBegins ==
  ASSUME TypeInv, DataInv, NEW op, NEW e, NEW f, NEW p, Begins(op, e, f, p),
         <<op, p>> \in {<<"load", "fast">>, <<"unload", "dependents">>, <<"reload", "old">>},
         UNCHANGED <<loaded, loadedMeta, handles, metas>>
  PROVE  DataInv'
<1>1. /\ DOMAIN calls' = DOMAIN calls \cup {NewFrame} /\ NewFrame \notin DOMAIN calls
      /\ \A d \in DOMAIN calls : calls'[d] = calls[d]
      /\ calls'[NewFrame].op = op /\ calls'[NewFrame].pc = p
  BY DEF Begins, Grows
<1>2. FramesStay /\ \A d \in DOMAIN calls : SameRole(d)
  BY <1>1 DEF FramesStay, SameRole, Fresh, HalfLoaded, HalfUnloaded, HoldsLib
<1>3. \A d \in DOMAIN calls : Knows(d)'
  BY <1>1, <1>2, KnowsUnmoved
<1>4. \E n : /\ DOMAIN calls' = DOMAIN calls \cup {n} /\ n \notin DOMAIN calls
             /\ calls'[n].op = op /\ calls'[n].pc = p
  BY <1>1
<1> QED
  BY <1>2, <1>3, <1>4, DataGrows

\* A call starts for a dependency.
LEMMA DataLoadDependency ==
  ASSUME TypeInv, DataInv, NEW c, LoadDependency(c)
  PROVE  DataInv'
<1>0. FramesInv
  BY DEF TypeInv
<1>1. /\ c \in DOMAIN calls /\ calls[c].pc = "deps"
      /\ UNCHANGED <<loaded, loadedMeta, handles, metas>>
      /\ FrameOK(c)
      /\ calls[c].op \in {"load", "unload", "reload"}
  BY <1>0, FrameNumbers DEF LoadDependency, At, mapVars, liveVars, FrameType
<1>2. calls[c].op = "load"
  BY <1>1 DEF FrameOK, UnloadPcs, ReloadPcs
<1>3. /\ DOMAIN calls' = DOMAIN calls \cup {NewFrame} /\ NewFrame \notin DOMAIN calls
      /\ \A d \in DOMAIN calls : d # c => calls'[d] = calls[d]
      /\ calls'[NewFrame].op = "load" /\ calls'[NewFrame].pc = "fast"
      /\ calls'[c].name = calls[c].name /\ calls'[c].op = "load" /\ calls'[c].pc = "await"
  BY <1>2, LoadDependencyEffect DEF Grows, Becomes
<1>4. FramesStay /\ \A d \in DOMAIN calls : SameRole(d)
  BY <1>1, <1>2, <1>3
     DEF FramesStay, SameRole, Fresh, HalfLoaded, HalfUnloaded, HoldsLib
<1>5. Knows(c)'
  BY <1>1, <1>2, <1>3
     DEF DataInv, Knows, Absent, HalfLoaded, HalfUnloaded, HoldsLib
<1>6. \A d \in DOMAIN calls : Knows(d)'
  BY <1>1, <1>3, <1>4, <1>5, KnowsUnmoved
<1>7. \E n : /\ DOMAIN calls' = DOMAIN calls \cup {n} /\ n \notin DOMAIN calls
             /\ calls'[n].op = "load" /\ calls'[n].pc = "fast"
  BY <1>3
<1> QED
  BY <1>1, <1>4, <1>6, <1>7, DataGrows

\* Every step keeps every library and every metadata box in one place.
LEMMA DataStep ==
  ASSUME MaxConcurrent = 1, TypeInv, StackInv, ClaimsExclusive, DataInv, [Next]_vars
  PROVE  DataInv'
<1>0. FramesInv
  BY DEF TypeInv
<1>1. CASE UNCHANGED <<calls, loaded, loadedMeta, handles, metas>>
  BY <1>1 DEF DataInv, Knows, MapsAgree, LoadedBy, NoneAstray, HandleOwned, MetaOwned, BroughtBy,
              Absent, HalfLoaded, HalfUnloaded, HoldsLib, HoldsMeta, Fresh, FreshMeta
<1>2. ASSUME NEW e \in Extensions,
             CallLoad(e) \/ CallUnload(e) \/ (\E f \in ReloadFiles[e] : CallReload(e, f))
      PROVE  DataInv'
  <2>1. \/ Begins("load", e, None, "fast")
        \/ Begins("unload", e, None, "dependents")
        \/ \E f \in Files : Begins("reload", e, f, "old")
    BY <1>0, <1>2, StartKinds, StartFrame DEF MaybeFile, Pcs, LoadPcs, UnloadPcs, ReloadPcs
  <2>2. UNCHANGED <<loaded, loadedMeta, handles, metas>>
    BY <1>2, StartKinds DEF Start, mapVars, liveVars
  <2> QED
    BY <2>1, <2>2, DataBegins
<1>3. ASSUME NEW c, Step(c)
      PROVE  DataInv'
  <2>1. Alone(c)
    BY <1>0, <1>3, StepAlone
  <2>2. \/ QuietStep(c) \/ OpeningStep(c) \/ DroppingStep(c) \/ LoadDependency(c)
        \/ StoreLibrary(c) \/ StoreMeta(c) \/ RemoveMeta(c) \/ RemoveLibrary(c) \/ CloseOld(c)
        \/ RemoveOld(c) \/ StoreReloaded(c)
    BY <1>3 DEF Step, LoadStep, UnloadStep, ReloadStep, QuietStep, OpeningStep, DroppingStep
  <2> QED
    BY <2>1, <2>2, DataQuietStep, DataOpeningStep, DataDroppingStep, DataLoadDependency,
       DataStoreLibrary, DataStoreMeta, DataRemoveMeta, DataRemoveLibrary, DataCloseOld,
       DataRemoveOld, DataStoreReloaded
<1>4. ASSUME NEW c, CommitReload(c) \/ DropPrepared(c)
      PROVE  DataInv'
  BY <1>4, DataDroppingStep DEF DroppingStep
<1> QED
  BY <1>1, <1>2, <1>3, <1>4 DEF Next, Scan, AttachRegister, vars, mapVars, liveVars

\* The libraries and the metadata boxes are where the frames and the maps say.
LEMMA DataCorrect ==
  ASSUME MaxConcurrent = 1
  PROVE  Spec => []DataInv
<1>1. Init => DataInv
  BY DEF Init, DataInv, MapsAgree, LoadedBy, NoneAstray, HandleOwned, MetaOwned
<1>2. TypeInv /\ StackInv /\ ClaimsExclusive /\ DataInv /\ [Next]_vars => DataInv'
  BY DataStep
<1> QED
  BY <1>1, <1>2, TypeCorrect, StackCorrect, ClaimsAreExclusive, PTL DEF Spec

\* With one call at a time nothing is left behind: between calls the two maps agree,
\* and the libraries and boxes that exist are theirs and those of the prepared
\* reloads, after every success and every error return, for every dependency graph.
THEOREM NothingIsLeft ==
  ASSUME MaxConcurrent = 1
  PROVE  Spec => []NothingLeft
<1>1. ASSUME TypeInv, StackInv, DataInv
      PROVE  NothingLeft
  <2> SUFFICES ASSUME Running = {}
               PROVE  /\ loaded = loadedMeta
                      /\ handles = metas
                      /\ handles = ({loaded[e] : e \in Extensions} \ {0})
                                     \cup {c \in DOMAIN calls : At(c, "prepared")}
    BY DEF NothingLeft
  <2>0. FramesInv /\ MapTypes /\ LiveTypes
    BY <1>1 DEF TypeInv
  <2>1. \A d \in DOMAIN calls : calls[d].pc \in {"ok", "failed", "prepared"}
    BY <1>1 DEF StackInv, Running, Active, Returned
  <2>2. \A d \in DOMAIN calls : /\ ~HalfLoaded(d) /\ ~HalfUnloaded(d) /\ ~HoldsLib(d) /\ ~HoldsMeta(d)
                                /\ Fresh(d) <=> calls[d].pc = "prepared"
                                /\ FreshMeta(d) <=> calls[d].pc = "prepared"
    BY <2>0, <2>1, IdleFrame
  <2>3. \A e \in Extensions : loaded[e] = loadedMeta[e]
    BY <1>1, <2>2 DEF DataInv, MapsAgree
  <2>4. loaded = loadedMeta
    BY <2>0, <2>3 DEF MapTypes
  <2>5. \A d \in DOMAIN calls : d \in Nat /\ d # 0
    BY <2>0, FrameNumbers
  <2>6. ASSUME NEW m \in Nat
        PROVE  /\ m \in handles <=> m # 0 /\ (\/ \E e \in Extensions : loaded[e] = m
                                              \/ m \in DOMAIN calls /\ calls[m].pc = "prepared")
               /\ m \in metas <=> m # 0 /\ (\/ \E e \in Extensions : loadedMeta[e] = m
                                            \/ m \in DOMAIN calls /\ calls[m].pc = "prepared")
    BY <1>1, <2>2, <2>6 DEF DataInv, NoneAstray, HandleOwned, MetaOwned
  <2>7. handles = metas
    BY <2>0, <2>3, <2>6 DEF LiveTypes
  <2>8. \A e \in Extensions : loaded[e] \in Nat
    BY <2>0 DEF MapTypes
  <2>9. handles = ({loaded[e] : e \in Extensions} \ {0})
                     \cup {c \in DOMAIN calls : At(c, "prepared")}
    BY <2>0, <2>5, <2>6, <2>8 DEF LiveTypes, At
  <2> QED
    BY <2>4, <2>7, <2>9
<1> QED
  BY <1>1, TypeCorrect, StackCorrect, DataCorrect, PTL

-----------------------------------------------------------------------------
(***************************************************************************)
(* Registers, step by step.                                                *)
(***************************************************************************)

\* A register of e is in the slot map.
Owns(e) == \E s \in Slots : slotMap[s] # None /\ slotMap[s].file # None /\ slotMap[s].owner = e

\* The frame's own library, not in the map yet, may have registers in the slot map.
ServesNew(c) ==
  \/ calls[c].op = "load" /\ calls[c].pc \in {"snapshot", "push"}
  \/ calls[c].op = "reload" /\ calls[c].pc = "push"

\* The library that the frame took out of the map may have.
ServesOld(c) == calls[c].op = "reload" /\ calls[c].pc \in {"removeEntries", "removeOwned"}

\* Every library that serves an extension is open.
LEMMA ServingOpen ==
  ASSUME TypeInv, DataInv, NEW e \in Extensions, NEW m \in DOMAIN calls, Serving(m, e)
  PROVE  m \in handles
<1>1. m \in Nat /\ m # 0
  BY FrameNumbers DEF TypeInv
<1>2. HandleOwned(m)
  <2>1. CASE loaded[e] = m
    BY <1>1, <2>1 DEF HandleOwned
  <2>2. CASE ServesNew(m)
    <3>1. Fresh(m)
      BY <2>2 DEF ServesNew, Fresh
    <3> QED
      BY <1>1, <3>1 DEF HandleOwned
  <2>3. CASE \E c \in DOMAIN calls : calls[c].oldLib = m /\ ServesOld(c)
    <3>1. \E c \in DOMAIN calls : calls[c].oldLib = m /\ HoldsLib(c)
      BY <2>3 DEF ServesOld, HoldsLib, Swapping
    <3> QED
      BY <1>1, <3>1 DEF HandleOwned
  <2> QED
    BY <2>1, <2>2, <2>3 DEF Serving, ServesNew, ServesOld
<1> QED
  BY <1>1, <1>2 DEF DataInv, NoneAstray

\* When frame c takes a step, an extension is served by the library in the map, and
\* the one that c handles by what c has in its hands too.
LEMMA ServingAtStep ==
  ASSUME NEW c \in DOMAIN calls, Alone(c), NEW e, NEW m
  PROVE  Serving(m, e) <=>
           \/ m # 0 /\ loaded[e] = m
           \/ m = c /\ calls[c].name = e /\ ServesNew(c)
           \/ calls[c].name = e /\ calls[c].oldLib = m /\ ServesOld(c)
<1>1. \A d \in DOMAIN calls : d # c => ~ServesNew(d) /\ ~ServesOld(d)
  BY DEF Alone, ServesNew, ServesOld
<1> QED
  BY <1>1 DEF Serving, ServesNew, ServesOld

\* After the step the same holds: the others have not moved.
LEMMA ServingAfterStep ==
  ASSUME NEW c, Only(c), NEW e, NEW m,
         \/ m # 0 /\ loaded'[e] = m
         \/ m = c /\ calls'[c].name = e /\ ServesNew(c)'
         \/ calls'[c].name = e /\ calls'[c].oldLib = m /\ ServesOld(c)'
  PROVE  Serving(m, e)'
BY DEF Only, Serving, ServesNew, ServesOld

\* A step of frame c keeps the registers' invariant if it keeps what is about c.
LEMMA RegLocal ==
  ASSUME TypeInv, DataInv, ClaimsExclusive, RegInv,
         NEW c \in DOMAIN calls, Alone(c), Only(c),
         NEW e \in Extensions, e = calls[c].name, e = calls'[c].name,
         calls'[c].file = calls[c].file \/ calls[c].pc = "resolve",
         \A x \in Extensions : x # e => loaded'[x] = loaded[x],
         \A s \in Slots :
           \/ slotMap'[s] = slotMap[s]
           \/ slotMap'[s] = None
           \/ slotMap'[s].owner = e /\ slotMap'[s].file = calls'[c].file /\ ServesNew(c)',
         Disowned(c)' => ~Owns(e)',
         Owns(e)' => \A m \in DOMAIN calls : Serving(m, e) => Serving(m, e)',
         calls'[c].op = "load" /\ calls'[c].pc = "push" =>
           \A r \in calls'[c].regs :
             r.file = None \/ \E x \in Extensions : /\ loaded'[x] # 0
                                                    /\ calls'[loaded'[x]].file = r.file,
         stray' = FALSE
  PROVE  RegInv'
<1>0. /\ FramesInv /\ DOMAIN calls' = DOMAIN calls
      /\ \A d \in DOMAIN calls : d # c => calls'[d] = calls[d]
  BY DEF TypeInv, Only
<1>1. \A d \in DOMAIN calls : d # c => calls[d].pc \in {"ok", "failed", "prepared", "await"}
  BY DataContext
<1>2. ASSUME NEW s \in Slots, NEW o, o = slotMap'[s].owner,
             slotMap'[s] # None, slotMap'[s].file # None
      PROVE  /\ o \in Extensions
             /\ \E m \in DOMAIN calls' : Serving(m, o)' /\ calls'[m].file = slotMap'[s].file
  <2>1. CASE o = e /\ slotMap'[s].file = calls'[c].file /\ ServesNew(c)'
    <3>1. Serving(c, e)'
      BY <2>1, ServingAfterStep
    <3> QED
      BY <1>0, <2>1, <3>1
  <2>2. CASE slotMap'[s] = slotMap[s]
    <3>1. o \in Extensions
          /\ \E m \in DOMAIN calls : Serving(m, o) /\ calls[m].file = slotMap[s].file
      BY <1>2, <2>2 DEF RegInv, Serving
    <3>2. PICK m \in DOMAIN calls : Serving(m, o) /\ calls[m].file = slotMap[s].file
      BY <3>1
    <3>3. CASE o = e
      <4>1. Serving(m, e)'
        BY <1>2, <3>2, <3>3 DEF Owns
      <4>2. CASE m = c
        <5>1. calls[c].pc # "resolve"
          <6>1. SUFFICES ASSUME calls[c].pc = "resolve"
                         PROVE  FALSE
            OBVIOUS
          <6>2. c # 0 /\ loaded[e] = c
            <7>1. ~ServesNew(c) /\ ~ServesOld(c)
              BY <6>1 DEF ServesNew, ServesOld
            <7> QED
              BY <3>2, <3>3, <4>2, <7>1, ServingAtStep
          <6> QED
            BY <6>1, <6>2, DataContext
        <5> QED
          BY <1>0, <2>2, <3>1, <3>2, <3>3, <4>1, <4>2, <5>1
      <4> QED
        BY <1>0, <2>2, <3>1, <3>2, <3>3, <4>1, <4>2
    <3>4. CASE o # e
      <4>a. Serving(m, o) <=>
              \/ m # 0 /\ loaded[o] = m
              \/ m = c /\ calls[c].name = o /\ ServesNew(c)
              \/ calls[c].name = o /\ calls[c].oldLib = m /\ ServesOld(c)
        BY ServingAtStep, ZenonT(60)
      <4>0. \/ m # 0 /\ loaded[o] = m
            \/ calls[c].name = o
        BY <3>2, <4>a
      <4>1. m # 0 /\ loaded[o] = m
        BY <3>4, <4>0
      <4>2. m # c
        <5>1. calls[loaded[o]].name = o
          BY <3>1, <4>1, DataContext
        <5> QED
          BY <3>4, <4>1, <5>1
      <4>3. Serving(m, o)'
        BY <3>1, <3>4, <4>1, ServingAfterStep
      <4> QED
        BY <1>0, <2>2, <3>1, <3>2, <4>2, <4>3
    <3> QED
      BY <3>3, <3>4
  <2> QED
    BY <1>2, <2>1, <2>2
<1>3. ASSUME NEW d \in DOMAIN calls', Disowned(d)', NEW s \in Slots,
             slotMap'[s] # None, slotMap'[s].file # None
      PROVE  slotMap'[s].owner # calls'[d].name
  <2>1. d = c
    BY <1>0, <1>1, <1>3 DEF Disowned
  <2> QED
    BY <1>3, <2>1 DEF Owns
<1>4. ASSUME NEW d \in DOMAIN calls', calls'[d].op = "load", calls'[d].pc = "push",
             NEW r \in calls'[d].regs
      PROVE  r.file = None \/ \E x \in Extensions : /\ loaded'[x] # 0
                                                    /\ calls'[loaded'[x]].file = r.file
  <2>1. d = c
    BY <1>0, <1>1, <1>4
  <2> QED
    BY <1>4, <2>1
<1>5. \A s \in Slots : slotMap'[s] # None /\ slotMap'[s].file # None =>
        /\ slotMap'[s].owner \in Extensions
        /\ \E m \in DOMAIN calls' :
             Serving(m, slotMap[s].owner)' /\ calls'[m].file = slotMap'[s].file
  BY <1>2 DEF Serving
<1> QED
  BY <1>3, <1>4, <1>5 DEF RegInv

\* A step that leaves the slot map and the loaded libraries alone, and what frame c
\* serves too.
Steady(c) ==
  /\ Only(c)
  /\ calls'[c].name = calls[c].name /\ calls'[c].op = calls[c].op
  /\ slotMap' = slotMap /\ loaded' = loaded
  /\ calls'[c].file = calls[c].file \/ calls[c].pc = "resolve"
  /\ ServesNew(c) => ServesNew(c)'
  /\ ServesOld(c) => ServesOld(c)' /\ calls'[c].oldLib = calls[c].oldLib
  /\ Disowned(c)' => Disowned(c)
  /\ calls'[c].op = "load" /\ calls'[c].pc = "push" =>
       calls[c].pc = "push" /\ calls'[c].regs \subseteq calls[c].regs

\* The registers of a frame's owner are gone when it says so.
LEMMA DisownedOwnsNot ==
  ASSUME RegInv, NEW c \in DOMAIN calls, Disowned(c), NEW e, e = calls[c].name
  PROVE  ~Owns(e)
BY DEF RegInv, Owns

\* A steady step keeps the registers' invariant.
LEMMA RegSteady ==
  ASSUME TypeInv, DataInv, ClaimsExclusive, RegInv, NEW c, Alone(c), Steady(c), stray' = FALSE
  PROVE  RegInv'
<1>0. c \in DOMAIN calls /\ Only(c) /\ calls[c].name \in Extensions
  BY FrameNumbers DEF Steady, Only, TypeInv, FrameType
<1>1. PICK e \in Extensions : e = calls[c].name
  BY <1>0
<1>2. e = calls'[c].name
  BY <1>1 DEF Steady
<1>3. Disowned(c)' => ~Owns(e)'
  <2>1. Disowned(c)' => ~Owns(e)
    BY <1>0, <1>1, DisownedOwnsNot DEF Steady
  <2>2. Owns(e)' => Owns(e)
    BY DEF Steady, Owns
  <2> QED
    BY <2>1, <2>2
<1>4. ASSUME NEW m \in DOMAIN calls, Serving(m, e)
      PROVE  Serving(m, e)'
  <2>1. \/ m # 0 /\ loaded[e] = m
        \/ m = c /\ ServesNew(c)
        \/ calls[c].oldLib = m /\ ServesOld(c)
    BY <1>0, <1>4, ServingAtStep
  <2>2. \/ m # 0 /\ loaded'[e] = m
        \/ m = c /\ ServesNew(c)'
        \/ calls'[c].oldLib = m /\ ServesOld(c)'
    BY <2>1 DEF Steady
  <2> QED
    BY <1>0, <1>2, <2>2, ServingAfterStep
<1>5. ASSUME calls'[c].op = "load", calls'[c].pc = "push", NEW r \in calls'[c].regs
      PROVE  r.file = None \/ \E x \in Extensions : /\ loaded'[x] # 0
                                                    /\ calls'[loaded'[x]].file = r.file
  <2>1. calls[c].pc = "push" /\ calls[c].op = "load" /\ r \in calls[c].regs
    BY <1>5 DEF Steady
  <2>2. SUFFICES ASSUME r.file # None
                 PROVE  \E x \in Extensions : loaded'[x] # 0 /\ calls'[loaded'[x]].file = r.file
    OBVIOUS
  <2>3. PICK x \in Extensions : loaded[x] # 0 /\ calls[loaded[x]].file = r.file
    BY <1>0, <2>1, <2>2 DEF RegInv
  <2>4. calls'[loaded[x]].file = calls[loaded[x]].file
    BY <1>0, <2>1, <2>3, DataContext DEF Steady, Only
  <2> QED
    BY <2>3, <2>4 DEF Steady
<1>6. /\ calls'[c].file = calls[c].file \/ calls[c].pc = "resolve"
      /\ \A x \in Extensions : x # e => loaded'[x] = loaded[x]
      /\ \A s \in Slots : slotMap'[s] = slotMap[s]
  BY DEF Steady
<1> QED
  BY <1>0, <1>1, <1>2, <1>3, <1>4, <1>5, <1>6, RegLocal

\* The steps that are steady.
SteadyStep(c) ==
  \/ FastPath(c) \/ Claim(c) \/ Resolve(c) \/ CheckSlots(c) \/ DependencyReturns(c)
  \/ OpenLibrary(c) \/ InitExtension(c) \/ StoreMeta(c) \/ FinishLoad(c) \/ CheckDependents(c)
  \/ RemoveMeta(c) \/ RemoveEntries(c) \/ Deinit(c) \/ CloseOld(c) \/ FindOld(c)
  \/ PrepareReload(c) \/ InitNew(c) \/ PushPrepared(c) \/ CommitReload(c)

\* They are.
LEMMA SteadySteps ==
  ASSUME TypeInv, NEW c, SteadyStep(c)
  PROVE  Steady(c) /\ stray' = stray
<1>0. FramesInv
  BY DEF TypeInv
<1>a. ASSUME c \in DOMAIN calls
      PROVE  /\ FrameOK(c)
             /\ calls[c].op \in {"load", "unload", "reload"}
  BY <1>0, <1>a, FrameNumbers DEF FrameType
<1>b. ASSUME c \in DOMAIN calls
      PROVE  /\ \A p \in Pcs : Goto(c, p) => Moves(c, p)
             /\ \A p \in Pcs : Return(c, p) => Ends(c, p)
  BY <1>0, <1>b, FrameSteps
<1>1. CASE FastPath(c)
  <2>1. /\ c \in DOMAIN calls
        /\ Only(c)
        /\ calls'[c].name = calls[c].name /\ calls'[c].op = calls[c].op
        /\ slotMap' = slotMap /\ loaded' = loaded /\ stray' = stray
    BY <1>1, <1>a, <1>b
       DEF FastPath, At, FailLoad, Fail, AbandonReload, Moves, Ends, Becomes, Pcs, LoadPcs, UnloadPcs,
           ReloadPcs, mapVars, liveVars, regVars
  <2>2. /\ calls'[c].file = calls[c].file \/ calls[c].pc = "resolve"
        /\ ServesNew(c) => ServesNew(c)'
        /\ ServesOld(c) => ServesOld(c)' /\ calls'[c].oldLib = calls[c].oldLib
        /\ Disowned(c)' => Disowned(c)
        /\ calls'[c].op = "load" /\ calls'[c].pc = "push" =>
             calls[c].pc = "push" /\ calls'[c].regs \subseteq calls[c].regs
    BY <1>1, <1>a, <2>1, <1>b
       DEF FastPath, At, FailLoad, Fail, AbandonReload, Moves, Ends, Becomes, FrameOK, Pcs, LoadPcs,
           UnloadPcs, ReloadPcs, ServesNew, ServesOld, Disowned
  <2> QED
    BY <2>1, <2>2 DEF Steady
<1>2. CASE Claim(c)
  <2>1. /\ c \in DOMAIN calls
        /\ Only(c)
        /\ calls'[c].name = calls[c].name /\ calls'[c].op = calls[c].op
        /\ slotMap' = slotMap /\ loaded' = loaded /\ stray' = stray
    BY <1>2, <1>a, <1>b
       DEF Claim, At, FailLoad, Fail, AbandonReload, Moves, Ends, Becomes, Pcs, LoadPcs, UnloadPcs,
           ReloadPcs, mapVars, liveVars, regVars
  <2>2. /\ calls'[c].file = calls[c].file \/ calls[c].pc = "resolve"
        /\ ServesNew(c) => ServesNew(c)'
        /\ ServesOld(c) => ServesOld(c)' /\ calls'[c].oldLib = calls[c].oldLib
        /\ Disowned(c)' => Disowned(c)
        /\ calls'[c].op = "load" /\ calls'[c].pc = "push" =>
             calls[c].pc = "push" /\ calls'[c].regs \subseteq calls[c].regs
    BY <1>2, <1>a, <2>1, <1>b
       DEF Claim, At, FailLoad, Fail, AbandonReload, Moves, Ends, Becomes, FrameOK, Pcs, LoadPcs,
           UnloadPcs, ReloadPcs, ServesNew, ServesOld, Disowned
  <2> QED
    BY <2>1, <2>2 DEF Steady
<1>3. CASE Resolve(c)
  <2>1. /\ c \in DOMAIN calls
        /\ Only(c)
        /\ calls'[c].name = calls[c].name /\ calls'[c].op = calls[c].op
        /\ slotMap' = slotMap /\ loaded' = loaded /\ stray' = stray
    BY <1>3, <1>a, <1>b, ResolveEffect
       DEF At, FailLoad, Fail, AbandonReload, Moves, Ends, Becomes, Pcs, LoadPcs, UnloadPcs,
           ReloadPcs, mapVars, liveVars, regVars
  <2>2. /\ calls'[c].file = calls[c].file \/ calls[c].pc = "resolve"
        /\ ServesNew(c) => ServesNew(c)'
        /\ ServesOld(c) => ServesOld(c)' /\ calls'[c].oldLib = calls[c].oldLib
        /\ Disowned(c)' => Disowned(c)
        /\ calls'[c].op = "load" /\ calls'[c].pc = "push" =>
             calls[c].pc = "push" /\ calls'[c].regs \subseteq calls[c].regs
    BY <1>3, <1>a, <2>1, <1>b, ResolveEffect
       DEF At, FailLoad, Fail, AbandonReload, Moves, Ends, Becomes, FrameOK, Pcs, LoadPcs,
           UnloadPcs, ReloadPcs, ServesNew, ServesOld, Disowned
  <2> QED
    BY <2>1, <2>2 DEF Steady
<1>4. CASE CheckSlots(c)
  <2>1. /\ c \in DOMAIN calls
        /\ Only(c)
        /\ calls'[c].name = calls[c].name /\ calls'[c].op = calls[c].op
        /\ slotMap' = slotMap /\ loaded' = loaded /\ stray' = stray
    BY <1>4, <1>a, <1>b, CheckSlotsEffect
       DEF At, FailLoad, Fail, AbandonReload, Moves, Ends, Becomes, Pcs, LoadPcs, UnloadPcs,
           ReloadPcs, mapVars, liveVars, regVars
  <2>2. /\ calls'[c].file = calls[c].file \/ calls[c].pc = "resolve"
        /\ ServesNew(c) => ServesNew(c)'
        /\ ServesOld(c) => ServesOld(c)' /\ calls'[c].oldLib = calls[c].oldLib
        /\ Disowned(c)' => Disowned(c)
        /\ calls'[c].op = "load" /\ calls'[c].pc = "push" =>
             calls[c].pc = "push" /\ calls'[c].regs \subseteq calls[c].regs
    BY <1>4, <1>a, <2>1, <1>b, CheckSlotsEffect
       DEF At, FailLoad, Fail, AbandonReload, Moves, Ends, Becomes, FrameOK, Pcs, LoadPcs,
           UnloadPcs, ReloadPcs, ServesNew, ServesOld, Disowned
  <2> QED
    BY <2>1, <2>2 DEF Steady
<1>5. CASE DependencyReturns(c)
  <2>1. /\ c \in DOMAIN calls
        /\ Only(c)
        /\ calls'[c].name = calls[c].name /\ calls'[c].op = calls[c].op
        /\ slotMap' = slotMap /\ loaded' = loaded /\ stray' = stray
    BY <1>5, <1>a, <1>b
       DEF DependencyReturns, At, FailLoad, Fail, AbandonReload, Moves, Ends, Becomes, Pcs, LoadPcs, UnloadPcs,
           ReloadPcs, mapVars, liveVars, regVars
  <2>2. /\ calls'[c].file = calls[c].file \/ calls[c].pc = "resolve"
        /\ ServesNew(c) => ServesNew(c)'
        /\ ServesOld(c) => ServesOld(c)' /\ calls'[c].oldLib = calls[c].oldLib
        /\ Disowned(c)' => Disowned(c)
        /\ calls'[c].op = "load" /\ calls'[c].pc = "push" =>
             calls[c].pc = "push" /\ calls'[c].regs \subseteq calls[c].regs
    BY <1>5, <1>a, <2>1, <1>b
       DEF DependencyReturns, At, FailLoad, Fail, AbandonReload, Moves, Ends, Becomes, FrameOK, Pcs, LoadPcs,
           UnloadPcs, ReloadPcs, ServesNew, ServesOld, Disowned
  <2> QED
    BY <2>1, <2>2 DEF Steady
<1>6. CASE OpenLibrary(c)
  <2>1. /\ c \in DOMAIN calls
        /\ Only(c)
        /\ calls'[c].name = calls[c].name /\ calls'[c].op = calls[c].op
        /\ slotMap' = slotMap /\ loaded' = loaded /\ stray' = stray
    BY <1>6, <1>a, <1>b
       DEF OpenLibrary, At, FailLoad, Fail, AbandonReload, Moves, Ends, Becomes, Pcs, LoadPcs, UnloadPcs,
           ReloadPcs, mapVars, liveVars, regVars
  <2>2. /\ calls'[c].file = calls[c].file \/ calls[c].pc = "resolve"
        /\ ServesNew(c) => ServesNew(c)'
        /\ ServesOld(c) => ServesOld(c)' /\ calls'[c].oldLib = calls[c].oldLib
        /\ Disowned(c)' => Disowned(c)
        /\ calls'[c].op = "load" /\ calls'[c].pc = "push" =>
             calls[c].pc = "push" /\ calls'[c].regs \subseteq calls[c].regs
    BY <1>6, <1>a, <2>1, <1>b
       DEF OpenLibrary, At, FailLoad, Fail, AbandonReload, Moves, Ends, Becomes, FrameOK, Pcs, LoadPcs,
           UnloadPcs, ReloadPcs, ServesNew, ServesOld, Disowned
  <2> QED
    BY <2>1, <2>2 DEF Steady
<1>7. CASE InitExtension(c)
  <2>1. /\ c \in DOMAIN calls
        /\ Only(c)
        /\ calls'[c].name = calls[c].name /\ calls'[c].op = calls[c].op
        /\ slotMap' = slotMap /\ loaded' = loaded /\ stray' = stray
    BY <1>7, <1>a, <1>b
       DEF InitExtension, At, FailLoad, Fail, AbandonReload, Moves, Ends, Becomes, Pcs, LoadPcs, UnloadPcs,
           ReloadPcs, mapVars, liveVars, regVars
  <2>2. /\ calls'[c].file = calls[c].file \/ calls[c].pc = "resolve"
        /\ ServesNew(c) => ServesNew(c)'
        /\ ServesOld(c) => ServesOld(c)' /\ calls'[c].oldLib = calls[c].oldLib
        /\ Disowned(c)' => Disowned(c)
        /\ calls'[c].op = "load" /\ calls'[c].pc = "push" =>
             calls[c].pc = "push" /\ calls'[c].regs \subseteq calls[c].regs
    BY <1>7, <1>a, <2>1, <1>b
       DEF InitExtension, At, FailLoad, Fail, AbandonReload, Moves, Ends, Becomes, FrameOK, Pcs, LoadPcs,
           UnloadPcs, ReloadPcs, ServesNew, ServesOld, Disowned
  <2> QED
    BY <2>1, <2>2 DEF Steady
<1>8. CASE StoreMeta(c)
  <2>1. /\ c \in DOMAIN calls
        /\ Only(c)
        /\ calls'[c].name = calls[c].name /\ calls'[c].op = calls[c].op
        /\ slotMap' = slotMap /\ loaded' = loaded /\ stray' = stray
    BY <1>8, <1>a, <1>b
       DEF StoreMeta, At, FailLoad, Fail, AbandonReload, Moves, Ends, Becomes, Pcs, LoadPcs, UnloadPcs,
           ReloadPcs, mapVars, liveVars, regVars
  <2>2. /\ calls'[c].file = calls[c].file \/ calls[c].pc = "resolve"
        /\ ServesNew(c) => ServesNew(c)'
        /\ ServesOld(c) => ServesOld(c)' /\ calls'[c].oldLib = calls[c].oldLib
        /\ Disowned(c)' => Disowned(c)
        /\ calls'[c].op = "load" /\ calls'[c].pc = "push" =>
             calls[c].pc = "push" /\ calls'[c].regs \subseteq calls[c].regs
    BY <1>8, <1>a, <2>1, <1>b
       DEF StoreMeta, At, FailLoad, Fail, AbandonReload, Moves, Ends, Becomes, FrameOK, Pcs, LoadPcs,
           UnloadPcs, ReloadPcs, ServesNew, ServesOld, Disowned
  <2> QED
    BY <2>1, <2>2 DEF Steady
<1>9. CASE FinishLoad(c)
  <2>1. /\ c \in DOMAIN calls
        /\ Only(c)
        /\ calls'[c].name = calls[c].name /\ calls'[c].op = calls[c].op
        /\ slotMap' = slotMap /\ loaded' = loaded /\ stray' = stray
    BY <1>9, <1>a, <1>b
       DEF FinishLoad, At, FailLoad, Fail, AbandonReload, Moves, Ends, Becomes, Pcs, LoadPcs, UnloadPcs,
           ReloadPcs, mapVars, liveVars, regVars
  <2>2. /\ calls'[c].file = calls[c].file \/ calls[c].pc = "resolve"
        /\ ServesNew(c) => ServesNew(c)'
        /\ ServesOld(c) => ServesOld(c)' /\ calls'[c].oldLib = calls[c].oldLib
        /\ Disowned(c)' => Disowned(c)
        /\ calls'[c].op = "load" /\ calls'[c].pc = "push" =>
             calls[c].pc = "push" /\ calls'[c].regs \subseteq calls[c].regs
    BY <1>9, <1>a, <2>1, <1>b
       DEF FinishLoad, At, FailLoad, Fail, AbandonReload, Moves, Ends, Becomes, FrameOK, Pcs, LoadPcs,
           UnloadPcs, ReloadPcs, ServesNew, ServesOld, Disowned
  <2> QED
    BY <2>1, <2>2 DEF Steady
<1>10. CASE CheckDependents(c)
  <2>1. /\ c \in DOMAIN calls
        /\ Only(c)
        /\ calls'[c].name = calls[c].name /\ calls'[c].op = calls[c].op
        /\ slotMap' = slotMap /\ loaded' = loaded /\ stray' = stray
    BY <1>10, <1>a, <1>b
       DEF CheckDependents, At, FailLoad, Fail, AbandonReload, Moves, Ends, Becomes, Pcs, LoadPcs, UnloadPcs,
           ReloadPcs, mapVars, liveVars, regVars
  <2>2. /\ calls'[c].file = calls[c].file \/ calls[c].pc = "resolve"
        /\ ServesNew(c) => ServesNew(c)'
        /\ ServesOld(c) => ServesOld(c)' /\ calls'[c].oldLib = calls[c].oldLib
        /\ Disowned(c)' => Disowned(c)
        /\ calls'[c].op = "load" /\ calls'[c].pc = "push" =>
             calls[c].pc = "push" /\ calls'[c].regs \subseteq calls[c].regs
    BY <1>10, <1>a, <2>1, <1>b
       DEF CheckDependents, At, FailLoad, Fail, AbandonReload, Moves, Ends, Becomes, FrameOK, Pcs, LoadPcs,
           UnloadPcs, ReloadPcs, ServesNew, ServesOld, Disowned
  <2> QED
    BY <2>1, <2>2 DEF Steady
<1>11. CASE RemoveMeta(c)
  <2>1. /\ c \in DOMAIN calls
        /\ Only(c)
        /\ calls'[c].name = calls[c].name /\ calls'[c].op = calls[c].op
        /\ slotMap' = slotMap /\ loaded' = loaded /\ stray' = stray
    BY <1>11, <1>a, <1>b, RemoveMetaEffect
       DEF At, FailLoad, Fail, AbandonReload, Moves, Ends, Becomes, Pcs, LoadPcs, UnloadPcs,
           ReloadPcs, mapVars, liveVars, regVars
  <2>2. /\ calls'[c].file = calls[c].file \/ calls[c].pc = "resolve"
        /\ ServesNew(c) => ServesNew(c)'
        /\ ServesOld(c) => ServesOld(c)' /\ calls'[c].oldLib = calls[c].oldLib
        /\ Disowned(c)' => Disowned(c)
        /\ calls'[c].op = "load" /\ calls'[c].pc = "push" =>
             calls[c].pc = "push" /\ calls'[c].regs \subseteq calls[c].regs
    BY <1>11, <1>a, <2>1, <1>b, RemoveMetaEffect
       DEF At, FailLoad, Fail, AbandonReload, Moves, Ends, Becomes, FrameOK, Pcs, LoadPcs,
           UnloadPcs, ReloadPcs, ServesNew, ServesOld, Disowned
  <2> QED
    BY <2>1, <2>2 DEF Steady
<1>12. CASE RemoveEntries(c)
  <2>1. /\ c \in DOMAIN calls
        /\ Only(c)
        /\ calls'[c].name = calls[c].name /\ calls'[c].op = calls[c].op
        /\ slotMap' = slotMap /\ loaded' = loaded /\ stray' = stray
    BY <1>12, <1>a, <1>b
       DEF RemoveEntries, At, FailLoad, Fail, AbandonReload, Moves, Ends, Becomes, Pcs, LoadPcs, UnloadPcs,
           ReloadPcs, mapVars, liveVars, regVars
  <2>2. /\ calls'[c].file = calls[c].file \/ calls[c].pc = "resolve"
        /\ ServesNew(c) => ServesNew(c)'
        /\ ServesOld(c) => ServesOld(c)' /\ calls'[c].oldLib = calls[c].oldLib
        /\ Disowned(c)' => Disowned(c)
        /\ calls'[c].op = "load" /\ calls'[c].pc = "push" =>
             calls[c].pc = "push" /\ calls'[c].regs \subseteq calls[c].regs
    BY <1>12, <1>a, <2>1, <1>b
       DEF RemoveEntries, At, FailLoad, Fail, AbandonReload, Moves, Ends, Becomes, FrameOK, Pcs, LoadPcs,
           UnloadPcs, ReloadPcs, ServesNew, ServesOld, Disowned
  <2> QED
    BY <2>1, <2>2 DEF Steady
<1>13. CASE Deinit(c)
  <2>1. /\ c \in DOMAIN calls
        /\ Only(c)
        /\ calls'[c].name = calls[c].name /\ calls'[c].op = calls[c].op
        /\ slotMap' = slotMap /\ loaded' = loaded /\ stray' = stray
    BY <1>13, <1>a, <1>b
       DEF Deinit, At, FailLoad, Fail, AbandonReload, Moves, Ends, Becomes, Pcs, LoadPcs, UnloadPcs,
           ReloadPcs, mapVars, liveVars, regVars
  <2>2. /\ calls'[c].file = calls[c].file \/ calls[c].pc = "resolve"
        /\ ServesNew(c) => ServesNew(c)'
        /\ ServesOld(c) => ServesOld(c)' /\ calls'[c].oldLib = calls[c].oldLib
        /\ Disowned(c)' => Disowned(c)
        /\ calls'[c].op = "load" /\ calls'[c].pc = "push" =>
             calls[c].pc = "push" /\ calls'[c].regs \subseteq calls[c].regs
    BY <1>13, <1>a, <2>1, <1>b
       DEF Deinit, At, FailLoad, Fail, AbandonReload, Moves, Ends, Becomes, FrameOK, Pcs, LoadPcs,
           UnloadPcs, ReloadPcs, ServesNew, ServesOld, Disowned
  <2> QED
    BY <2>1, <2>2 DEF Steady
<1>14. CASE CloseOld(c)
  <2>1. /\ c \in DOMAIN calls
        /\ Only(c)
        /\ calls'[c].name = calls[c].name /\ calls'[c].op = calls[c].op
        /\ slotMap' = slotMap /\ loaded' = loaded /\ stray' = stray
    BY <1>14, <1>a, <1>b
       DEF CloseOld, At, FailLoad, Fail, AbandonReload, Moves, Ends, Becomes, Pcs, LoadPcs, UnloadPcs,
           ReloadPcs, mapVars, liveVars, regVars
  <2>2. /\ calls'[c].file = calls[c].file \/ calls[c].pc = "resolve"
        /\ ServesNew(c) => ServesNew(c)'
        /\ ServesOld(c) => ServesOld(c)' /\ calls'[c].oldLib = calls[c].oldLib
        /\ Disowned(c)' => Disowned(c)
        /\ calls'[c].op = "load" /\ calls'[c].pc = "push" =>
             calls[c].pc = "push" /\ calls'[c].regs \subseteq calls[c].regs
    BY <1>14, <1>a, <2>1, <1>b
       DEF CloseOld, At, FailLoad, Fail, AbandonReload, Moves, Ends, Becomes, FrameOK, Pcs, LoadPcs,
           UnloadPcs, ReloadPcs, ServesNew, ServesOld, Disowned
  <2> QED
    BY <2>1, <2>2 DEF Steady
<1>15. CASE FindOld(c)
  <2>1. /\ c \in DOMAIN calls
        /\ Only(c)
        /\ calls'[c].name = calls[c].name /\ calls'[c].op = calls[c].op
        /\ slotMap' = slotMap /\ loaded' = loaded /\ stray' = stray
    BY <1>15, <1>a, <1>b, FindOldEffect
       DEF At, FailLoad, Fail, AbandonReload, Moves, Ends, Becomes, Pcs, LoadPcs, UnloadPcs,
           ReloadPcs, mapVars, liveVars, regVars
  <2>2. /\ calls'[c].file = calls[c].file \/ calls[c].pc = "resolve"
        /\ ServesNew(c) => ServesNew(c)'
        /\ ServesOld(c) => ServesOld(c)' /\ calls'[c].oldLib = calls[c].oldLib
        /\ Disowned(c)' => Disowned(c)
        /\ calls'[c].op = "load" /\ calls'[c].pc = "push" =>
             calls[c].pc = "push" /\ calls'[c].regs \subseteq calls[c].regs
    BY <1>15, <1>a, <2>1, <1>b, FindOldEffect
       DEF At, FailLoad, Fail, AbandonReload, Moves, Ends, Becomes, FrameOK, Pcs, LoadPcs,
           UnloadPcs, ReloadPcs, ServesNew, ServesOld, Disowned
  <2> QED
    BY <2>1, <2>2 DEF Steady
<1>16. CASE PrepareReload(c)
  <2>1. /\ c \in DOMAIN calls
        /\ Only(c)
        /\ calls'[c].name = calls[c].name /\ calls'[c].op = calls[c].op
        /\ slotMap' = slotMap /\ loaded' = loaded /\ stray' = stray
    BY <1>16, <1>a, <1>b, PrepareReloadEffect
       DEF At, FailLoad, Fail, AbandonReload, Moves, Ends, Becomes, Pcs, LoadPcs, UnloadPcs,
           ReloadPcs, mapVars, liveVars, regVars
  <2>2. /\ calls'[c].file = calls[c].file \/ calls[c].pc = "resolve"
        /\ ServesNew(c) => ServesNew(c)'
        /\ ServesOld(c) => ServesOld(c)' /\ calls'[c].oldLib = calls[c].oldLib
        /\ Disowned(c)' => Disowned(c)
        /\ calls'[c].op = "load" /\ calls'[c].pc = "push" =>
             calls[c].pc = "push" /\ calls'[c].regs \subseteq calls[c].regs
    BY <1>16, <1>a, <2>1, <1>b, PrepareReloadEffect
       DEF At, FailLoad, Fail, AbandonReload, Moves, Ends, Becomes, FrameOK, Pcs, LoadPcs,
           UnloadPcs, ReloadPcs, ServesNew, ServesOld, Disowned
  <2> QED
    BY <2>1, <2>2 DEF Steady
<1>17. CASE InitNew(c)
  <2>1. /\ c \in DOMAIN calls
        /\ Only(c)
        /\ calls'[c].name = calls[c].name /\ calls'[c].op = calls[c].op
        /\ slotMap' = slotMap /\ loaded' = loaded /\ stray' = stray
    BY <1>17, <1>a, <1>b
       DEF InitNew, At, FailLoad, Fail, AbandonReload, Moves, Ends, Becomes, Pcs, LoadPcs, UnloadPcs,
           ReloadPcs, mapVars, liveVars, regVars
  <2>2. /\ calls'[c].file = calls[c].file \/ calls[c].pc = "resolve"
        /\ ServesNew(c) => ServesNew(c)'
        /\ ServesOld(c) => ServesOld(c)' /\ calls'[c].oldLib = calls[c].oldLib
        /\ Disowned(c)' => Disowned(c)
        /\ calls'[c].op = "load" /\ calls'[c].pc = "push" =>
             calls[c].pc = "push" /\ calls'[c].regs \subseteq calls[c].regs
    BY <1>17, <1>a, <2>1, <1>b
       DEF InitNew, At, FailLoad, Fail, AbandonReload, Moves, Ends, Becomes, FrameOK, Pcs, LoadPcs,
           UnloadPcs, ReloadPcs, ServesNew, ServesOld, Disowned
  <2> QED
    BY <2>1, <2>2 DEF Steady
<1>18. CASE PushPrepared(c)
  <2>1. /\ c \in DOMAIN calls
        /\ Only(c)
        /\ calls'[c].name = calls[c].name /\ calls'[c].op = calls[c].op
        /\ slotMap' = slotMap /\ loaded' = loaded /\ stray' = stray
    BY <1>18, <1>a, <1>b, PushPreparedEffect
       DEF At, FailLoad, Fail, AbandonReload, Moves, Ends, Becomes, Pcs, LoadPcs, UnloadPcs,
           ReloadPcs, mapVars, liveVars, regVars
  <2>2. /\ calls'[c].file = calls[c].file \/ calls[c].pc = "resolve"
        /\ ServesNew(c) => ServesNew(c)'
        /\ ServesOld(c) => ServesOld(c)' /\ calls'[c].oldLib = calls[c].oldLib
        /\ Disowned(c)' => Disowned(c)
        /\ calls'[c].op = "load" /\ calls'[c].pc = "push" =>
             calls[c].pc = "push" /\ calls'[c].regs \subseteq calls[c].regs
    BY <1>18, <1>a, <2>1, <1>b, PushPreparedEffect
       DEF At, FailLoad, Fail, AbandonReload, Moves, Ends, Becomes, FrameOK, Pcs, LoadPcs,
           UnloadPcs, ReloadPcs, ServesNew, ServesOld, Disowned
  <2> QED
    BY <2>1, <2>2 DEF Steady
<1>19. CASE CommitReload(c)
  <2>1. /\ c \in DOMAIN calls
        /\ Only(c)
        /\ calls'[c].name = calls[c].name /\ calls'[c].op = calls[c].op
        /\ slotMap' = slotMap /\ loaded' = loaded /\ stray' = stray
    BY <1>19, <1>a, <1>b
       DEF CommitReload, At, FailLoad, Fail, AbandonReload, Moves, Ends, Becomes, Pcs, LoadPcs, UnloadPcs,
           ReloadPcs, mapVars, liveVars, regVars
  <2>2. /\ calls'[c].file = calls[c].file \/ calls[c].pc = "resolve"
        /\ ServesNew(c) => ServesNew(c)'
        /\ ServesOld(c) => ServesOld(c)' /\ calls'[c].oldLib = calls[c].oldLib
        /\ Disowned(c)' => Disowned(c)
        /\ calls'[c].op = "load" /\ calls'[c].pc = "push" =>
             calls[c].pc = "push" /\ calls'[c].regs \subseteq calls[c].regs
    BY <1>19, <1>a, <2>1, <1>b
       DEF CommitReload, At, FailLoad, Fail, AbandonReload, Moves, Ends, Becomes, FrameOK, Pcs, LoadPcs,
           UnloadPcs, ReloadPcs, ServesNew, ServesOld, Disowned
  <2> QED
    BY <2>1, <2>2 DEF Steady
<1> QED
  BY <1>1, <1>2, <1>3, <1>4, <1>5, <1>6, <1>7, <1>8, <1>9, <1>10, <1>11, <1>12, <1>13, <1>14, <1>15, <1>16, <1>17, <1>18, <1>19 DEF SteadyStep

\* What the steps on registers need to know of the frame that takes them.
LEMMA RegContext ==
  ASSUME TypeInv, NEW c \in DOMAIN calls
  PROVE  /\ FramesInv /\ FrameOK(c) /\ c \in Nat /\ c # 0
         /\ calls[c].op \in {"load", "unload", "reload"}
         /\ calls[c].name \in Extensions
         /\ \A p \in Pcs : Goto(c, p) => Moves(c, p)
         /\ \A p \in Pcs : Return(c, p) => Ends(c, p)
<1>1. FramesInv
  BY DEF TypeInv
<1> QED
  BY <1>1, FrameNumbers, FrameSteps DEF FrameType

\* A call attaches the registers of its extension: its library serves them.
LEMMA RegAttachOwned ==
  ASSUME TypeInv, DataInv, ClaimsExclusive, RegInv, NEW c, Alone(c), AttachOwned(c)
  PROVE  RegInv'
<1>0. c \in DOMAIN calls /\ calls[c].pc = "attach"
  BY DEF AttachOwned, At
<1>1. /\ FrameOK(c) /\ calls[c].op \in {"load", "unload", "reload"} /\ calls[c].name \in Extensions
      /\ \A p \in Pcs : Goto(c, p) => Moves(c, p)
  BY <1>0, RegContext
<1>2. PICK e \in Extensions : e = calls[c].name
  BY <1>1
<1>3. calls[c].op \in {"load", "reload"}
  BY <1>0, <1>1 DEF FrameOK, UnloadPcs
<1>4. /\ Only(c) /\ calls'[c].name = e /\ calls'[c].op = calls[c].op
      /\ calls'[c].file = calls[c].file
      /\ calls'[c].pc = IF calls[c].op = "load" THEN "snapshot" ELSE "push"
  BY <1>1, <1>2 DEF AttachOwned, Moves, Becomes, Pcs, LoadPcs
<1>5. ServesNew(c)' /\ ~Disowned(c)' /\ ~ServesOld(c) /\ ~ServesNew(c)
  BY <1>0, <1>3, <1>4 DEF ServesNew, ServesOld, Disowned
<1>6. loaded' = loaded /\ stray' = FALSE
  BY DEF AttachOwned, RegInv
<1>7. \A s \in Slots : slotMap'[s] = slotMap[s]
                         \/ (slotMap'[s].owner = e /\ slotMap'[s].file = calls'[c].file)
  <2>1. slotMap' = [s \in Slots |-> IF s \in OwnSlots[FileOf(c)]
                                    THEN [owner |-> e, file |-> FileOf(c)] ELSE slotMap[s]]
    BY <1>2 DEF AttachOwned, NameOf
  <2> QED
    BY <1>4, <2>1 DEF FileOf
<1>8. ASSUME NEW m \in DOMAIN calls, Serving(m, e)
      PROVE  Serving(m, e)'
  <2>1. m # 0 /\ loaded[e] = m
    BY <1>0, <1>5, <1>8, ServingAtStep
  <2> QED
    BY <1>4, <1>6, <2>1, ServingAfterStep
<1> QED
  BY <1>0, <1>2, <1>3, <1>4, <1>5, <1>6, <1>7, <1>8, RegLocal

\* unload, or the commit of a reload, takes the owner's registers out of the map.
LEMMA RegRemoveOwned ==
  ASSUME TypeInv, DataInv, ClaimsExclusive, RegInv, NEW c, Alone(c), RemoveOwned(c)
  PROVE  RegInv'
<1>0. c \in DOMAIN calls /\ calls[c].pc = "removeOwned"
  BY DEF RemoveOwned, At
<1>1. /\ FrameOK(c) /\ calls[c].op \in {"load", "unload", "reload"} /\ calls[c].name \in Extensions
      /\ \A p \in Pcs : Goto(c, p) => Moves(c, p)
  BY <1>0, RegContext
<1>2. PICK e \in Extensions : e = calls[c].name
  BY <1>1
<1>3. calls[c].op \in {"unload", "reload"}
  BY <1>0, <1>1 DEF FrameOK, LoadPcs
<1>4. /\ Only(c) /\ calls'[c].name = e /\ calls'[c].op = calls[c].op
      /\ calls'[c].file = calls[c].file
  BY <1>1, <1>2 DEF RemoveOwned, Moves, Becomes, Pcs, UnloadPcs
<1>5. loaded' = loaded /\ stray' = FALSE
  BY DEF RemoveOwned, RegInv, regVars
<1>6. \A s \in Slots : slotMap'[s] = slotMap[s] \/ slotMap'[s] = None
  BY DEF RemoveOwned
<1>7. ~Owns(e)'
  BY <1>2 DEF RemoveOwned, NameOf, Owns
<1> QED
  BY <1>0, <1>2, <1>3, <1>4, <1>5, <1>6, <1>7, RegLocal

\* A load takes its snapshot: the registers it has to fill are the host's or those of
\* libraries in the map.
LEMMA RegSnapshot ==
  ASSUME TypeInv, DataInv, ClaimsExclusive, RegInv, NEW c, Alone(c), Snapshot(c)
  PROVE  RegInv'
<1>0. c \in DOMAIN calls /\ calls[c].pc = "snapshot"
  BY DEF Snapshot, At
<1>1. /\ FrameOK(c) /\ calls[c].op \in {"load", "unload", "reload"} /\ calls[c].name \in Extensions
  BY <1>0, RegContext
<1>2. PICK e \in Extensions : e = calls[c].name
  BY <1>1
<1>3. calls[c].op = "load"
  BY <1>0, <1>1 DEF FrameOK, UnloadPcs, ReloadPcs
<1>4. /\ Only(c) /\ calls'[c].name = e /\ calls'[c].op = "load"
      /\ calls'[c].file = calls[c].file
      /\ calls'[c].pc = "push" /\ calls'[c].regs = OthersRegisters(c)
  BY <1>2, <1>3, SnapshotEffect DEF Becomes
<1>5. loaded' = loaded /\ stray' = FALSE /\ slotMap' = slotMap
  BY DEF Snapshot, RegInv, regVars, mapVars
<1>6. ServesNew(c)' /\ ~Disowned(c)' /\ ~ServesOld(c)
  BY <1>0, <1>3, <1>4 DEF ServesNew, ServesOld, Disowned
<1>7. ASSUME NEW m \in DOMAIN calls, Serving(m, e)
      PROVE  Serving(m, e)'
  <2>1. (m # 0 /\ loaded[e] = m) \/ m = c
    BY <1>0, <1>6, <1>7, ServingAtStep
  <2> QED
    BY <1>4, <1>5, <1>6, <2>1, ServingAfterStep
<1>8. ASSUME NEW r \in calls'[c].regs, r.file # None
      PROVE  \E x \in Extensions : loaded'[x] # 0 /\ calls'[loaded'[x]].file = r.file
  <2>1. PICK t \in Provides[FileOf(c)] :
          /\ slotMap[t] # None /\ slotMap[t].owner # NameOf(c)
          /\ r = [slot |-> t, file |-> slotMap[t].file]
    BY <1>4, <1>8 DEF OthersRegisters
  <2>8. FileOf(c) \in Files
    BY FilesInUse DEF Snapshot, At
  <2>2. t \in Slots /\ slotMap[t].file = r.file /\ slotMap[t].owner # e
    BY <1>2, <2>1, <2>8, FrameworkAssumption DEF NameOf
  <2>3. PICK o \in Extensions : o = slotMap[t].owner
    BY <1>8, <2>1, <2>2 DEF RegInv
  <2>4. PICK m \in DOMAIN calls : Serving(m, o) /\ calls[m].file = r.file
    BY <1>8, <2>1, <2>2, <2>3 DEF RegInv
  <2>5. Serving(m, o) <=>
          \/ m # 0 /\ loaded[o] = m
          \/ m = c /\ calls[c].name = o /\ ServesNew(c)
          \/ calls[c].name = o /\ calls[c].oldLib = m /\ ServesOld(c)
    BY <1>0, ServingAtStep
  <2>6. m # 0 /\ loaded[o] = m
    BY <1>2, <2>2, <2>3, <2>4, <2>5
  <2>7. calls'[m].file = calls[m].file
    BY <1>4, <2>4 DEF Only
  <2> QED
    BY <1>5, <2>4, <2>6, <2>7
<1> QED
  BY <1>0, <1>2, <1>4, <1>5, <1>6, <1>7, <1>8, RegLocal

\* A load fills one register of its snapshot, which is still there.
LEMMA RegPushEntries ==
  ASSUME TypeInv, DataInv, ClaimsExclusive, RegInv, NEW c, Alone(c), PushEntries(c)
  PROVE  RegInv'
<1>1. PICK r \in calls[c].regs :
        /\ c \in DOMAIN calls /\ calls[c].pc = "push" /\ calls[c].op = "load"
        /\ Only(c)
        /\ Becomes(c, calls[c].pc, calls[c].file, calls[c].todo, calls[c].regs \ {r},
                   calls[c].old, calls[c].oldLib)
        /\ stray' = (stray \/ ~(r.file = None \/ MappedBy(handles, r.file)))
  BY PushEntriesEffect
<1>2. slotMap' = slotMap /\ loaded' = loaded
  BY DEF PushEntries, mapVars
<1>3. Steady(c)
  BY <1>1, <1>2 DEF Steady, Becomes, ServesNew, ServesOld, Disowned
<1>4. r.file = None \/ MappedBy(handles, r.file)
  <2> SUFFICES ASSUME r.file # None
               PROVE  MappedBy(handles, r.file)
    OBVIOUS
  <2>1. PICK x \in Extensions : loaded[x] # 0 /\ calls[loaded[x]].file = r.file
    BY <1>1 DEF RegInv
  <2>2. loaded[x] \in handles
    BY <2>1 DEF DataInv, NoneAstray, HandleOwned, TypeInv, MapTypes
  <2> QED
    BY <2>1, <2>2 DEF MappedBy
<1>5. stray' = FALSE
  BY <1>1, <1>4 DEF RegInv
<1> QED
  BY <1>3, <1>5, RegSteady

\* The new library takes its place in the map.
LEMMA RegStore ==
  ASSUME TypeInv, DataInv, ClaimsExclusive, RegInv, NEW c, Alone(c),
         StoreLibrary(c) \/ StoreReloaded(c)
  PROVE  RegInv'
<1>0. /\ c \in DOMAIN calls /\ calls[c].pc = "push" /\ calls[c].op \in {"load", "reload"}
      /\ Knows(c)
  BY DEF StoreLibrary, StoreReloaded, At, DataInv
<1>1. /\ calls[c].name \in Extensions /\ c # 0
      /\ \A p \in Pcs : Goto(c, p) => Moves(c, p)
      /\ \A p \in Pcs : Return(c, p) => Ends(c, p)
  BY <1>0, RegContext
<1>2. PICK e \in Extensions : e = calls[c].name
  BY <1>1
<1>3. /\ Only(c) /\ calls'[c].name = e /\ calls'[c].op = calls[c].op
      /\ calls'[c].file = calls[c].file
      /\ calls'[c].pc \in {"storeMeta", "ok"}
  BY <1>1, <1>2 DEF StoreLibrary, StoreReloaded, Moves, Ends, Becomes, Pcs, LoadPcs
<1>4. /\ loaded' = [loaded EXCEPT ![e] = c] /\ stray' = FALSE /\ slotMap' = slotMap
  BY <1>2 DEF StoreLibrary, StoreReloaded, NameOf, RegInv
<1>5. loaded'[e] = c /\ \A x \in Extensions : x # e => loaded'[x] = loaded[x]
  BY <1>4 DEF TypeInv, MapTypes
<1>6. loaded[e] = 0 /\ ~ServesOld(c) /\ ~Disowned(c)'
  BY <1>0, <1>2, <1>3 DEF Knows, Absent, ServesOld, Disowned
<1>7. ASSUME NEW m \in DOMAIN calls, Serving(m, e)
      PROVE  Serving(m, e)'
  <2>1. m = c
    BY <1>0, <1>6, <1>7, ServingAtStep
  <2> QED
    BY <1>1, <1>3, <1>5, <2>1, ServingAfterStep
<1> QED
  BY <1>0, <1>2, <1>3, <1>4, <1>5, <1>6, <1>7, RegLocal

\* unload takes the library out of the map when its registers are gone.
LEMMA RegRemoveLibrary ==
  ASSUME TypeInv, DataInv, ClaimsExclusive, RegInv, NEW c, Alone(c), RemoveLibrary(c)
  PROVE  RegInv'
<1>0. c \in DOMAIN calls /\ calls[c].pc = "removeLib"
  BY DEF RemoveLibrary, At
<1>1. /\ FrameOK(c) /\ calls[c].op \in {"load", "unload", "reload"} /\ calls[c].name \in Extensions
      /\ \A p \in Pcs : Return(c, p) => Ends(c, p)
  BY <1>0, RegContext
<1>2. PICK e \in Extensions : e = calls[c].name
  BY <1>1
<1>3. calls[c].op = "unload"
  BY <1>0, <1>1 DEF FrameOK, LoadPcs, ReloadPcs
<1>4. ~Owns(e)
  BY <1>0, <1>2, <1>3, DisownedOwnsNot DEF Disowned
<1>5. slotMap' = slotMap /\ stray' = FALSE
  BY DEF RemoveLibrary, RegInv, regVars
<1>6. ~Owns(e)'
  BY <1>4, <1>5 DEF Owns
<1>7. /\ Only(c) /\ calls'[c].name = e /\ calls'[c].op = "unload"
      /\ calls'[c].file = calls[c].file
  BY <1>1, <1>2, <1>3, RemoveLibraryEffect DEF Fail, Ends, Becomes, Pcs, UnloadPcs
<1>8. \A x \in Extensions : x # e => loaded'[x] = loaded[x]
  BY <1>2, RemoveLibraryEffect DEF NameOf, TypeInv, MapTypes
<1> QED
  BY <1>0, <1>2, <1>5, <1>6, <1>7, <1>8, RegLocal

\* The commit of a reload takes the old library out of the map, and has it in its
\* hands.
LEMMA RegRemoveOld ==
  ASSUME TypeInv, DataInv, ClaimsExclusive, RegInv, NEW c, Alone(c), RemoveOld(c)
  PROVE  RegInv'
<1>0. c \in DOMAIN calls /\ calls[c].pc = "removeOld"
  BY DEF RemoveOld, At
<1>1. /\ FrameOK(c) /\ calls[c].op \in {"load", "unload", "reload"} /\ calls[c].name \in Extensions
      /\ \A p \in Pcs : Return(c, p) => Ends(c, p)
  BY <1>0, RegContext
<1>2. PICK e \in Extensions : e = calls[c].name
  BY <1>1
<1>3. calls[c].op = "reload"
  BY <1>0, <1>1 DEF FrameOK, LoadPcs, UnloadPcs
<1>4. slotMap' = slotMap /\ stray' = FALSE
  BY DEF RemoveOld, RegInv
<1>5. ~ServesNew(c) /\ ~ServesOld(c)
  BY <1>0 DEF ServesNew, ServesOld
<1>6. /\ Only(c) /\ calls'[c].name = e /\ calls'[c].op = "reload"
      /\ calls'[c].file = calls[c].file
      /\ \/ calls'[c].pc = "failed" /\ loaded' = loaded
         \/ /\ calls'[c].pc = "removeEntries" /\ calls'[c].oldLib = loaded[e]
            /\ loaded' = [loaded EXCEPT ![e] = 0]
  BY <1>1, <1>2, <1>3, RemoveOldEffect DEF Fail, Ends, Becomes, NameOf, Pcs, LoadPcs
<1>7. \A x \in Extensions : x # e => loaded'[x] = loaded[x]
  BY <1>6 DEF TypeInv, MapTypes
<1>8. ~Disowned(c)'
  BY <1>6 DEF Disowned
<1>9. ASSUME NEW m \in DOMAIN calls, Serving(m, e)
      PROVE  Serving(m, e)'
  <2>1. m # 0 /\ loaded[e] = m
    BY <1>0, <1>5, <1>9, ServingAtStep
  <2>2. \/ m # 0 /\ loaded'[e] = m
        \/ calls'[c].oldLib = m /\ ServesOld(c)'
    BY <1>6, <2>1 DEF ServesOld
  <2> QED
    BY <1>6, <2>2, ServingAfterStep
<1> QED
  BY <1>0, <1>2, <1>4, <1>6, <1>7, <1>8, <1>9, RegLocal

\* A frame that serves nobody, and whose owner's registers may be anywhere.
Neutral(d) ==
  /\ ~ServesNew(d) /\ ~ServesOld(d) /\ ~Disowned(d)
  /\ calls[d].pc # "push"

\* A step that only adds frames, or moves one that serves nobody, or attaches a
\* register of the host.
LEMMA RegStays ==
  ASSUME TypeInv, DataInv, RegInv,
         DOMAIN calls \subseteq DOMAIN calls',
         \A d \in DOMAIN calls : \/ calls'[d] = calls[d]
                                 \/ /\ Neutral(d) /\ Neutral(d)'
                                    /\ calls'[d].name = calls[d].name
                                    /\ calls'[d].file = calls[d].file,
         \A d \in DOMAIN calls' : d \notin DOMAIN calls => Neutral(d)',
         loaded' = loaded, stray' = stray,
         \A s \in Slots : slotMap'[s] = slotMap[s] \/ slotMap'[s].file = None
  PROVE  RegInv'
<1>1. ASSUME NEW s \in Slots, slotMap'[s] # None, slotMap'[s].file # None
      PROVE  /\ slotMap'[s] = slotMap[s]
             /\ slotMap[s].owner \in Extensions
             /\ \E m \in DOMAIN calls' :
                  Serving(m, slotMap[s].owner)' /\ calls'[m].file = slotMap'[s].file
  <2>1. slotMap'[s] = slotMap[s] /\ slotMap[s].owner \in Extensions
    BY <1>1 DEF RegInv
  <2>2. PICK m \in DOMAIN calls :
          Serving(m, slotMap[s].owner) /\ calls[m].file = slotMap[s].file
    BY <1>1, <2>1 DEF RegInv
  <2>3. PICK o \in Extensions : o = slotMap[s].owner
    BY <2>1
  <2>4. Serving(m, o)
    BY <2>2, <2>3
  <2>5. Serving(m, o)'
    <3>1. CASE m # 0 /\ loaded[o] = m
      BY <3>1 DEF Serving
    <3>2. CASE calls[m].name = o /\ ServesNew(m)
      <4>1. calls'[m] = calls[m]
        BY <3>2 DEF Neutral
      <4> QED
        BY <3>2, <4>1 DEF Serving, ServesNew
    <3>3. CASE \E d \in DOMAIN calls : calls[d].name = o /\ calls[d].oldLib = m /\ ServesOld(d)
      <4>1. PICK d \in DOMAIN calls : calls[d].name = o /\ calls[d].oldLib = m /\ ServesOld(d)
        BY <3>3
      <4>2. calls'[d] = calls[d] /\ d \in DOMAIN calls'
        BY <4>1 DEF Neutral
      <4> QED
        BY <4>1, <4>2 DEF Serving, ServesOld
    <3> QED
      BY <2>4, <3>1, <3>2, <3>3 DEF Serving, ServesNew, ServesOld
  <2>6. calls'[m].file = slotMap'[s].file /\ m \in DOMAIN calls'
    BY <2>1, <2>2
  <2>7. Serving(m, slotMap[s].owner)'
    BY <2>1, <2>3, <2>5 DEF Serving
  <2> QED
    BY <2>1, <2>6, <2>7
<1>2. ASSUME NEW d \in DOMAIN calls', Disowned(d)', NEW s \in Slots,
             slotMap'[s] # None, slotMap'[s].file # None
      PROVE  slotMap'[s].owner # calls'[d].name
  <2>1. d \in DOMAIN calls /\ calls'[d] = calls[d]
    BY <1>2 DEF Neutral
  <2>2. Disowned(d)
    BY <1>2, <2>1 DEF Disowned
  <2> QED
    BY <1>1, <1>2, <2>1, <2>2 DEF RegInv
<1>3. ASSUME NEW d \in DOMAIN calls', calls'[d].op = "load", calls'[d].pc = "push",
             NEW r \in calls'[d].regs, r.file # None
      PROVE  \E e \in Extensions : loaded'[e] # 0 /\ calls'[loaded'[e]].file = r.file
  <2>1. d \in DOMAIN calls /\ calls'[d] = calls[d]
    BY <1>3 DEF Neutral
  <2>2. PICK e \in Extensions : loaded[e] # 0 /\ calls[loaded[e]].file = r.file
    BY <1>3, <2>1 DEF RegInv
  <2>3. loaded[e] \in DOMAIN calls
    BY <2>2 DEF DataInv, LoadedBy, BroughtBy
  <2> QED
    BY <2>2, <2>3
<1>4. stray' = FALSE
  BY DEF RegInv
<1> QED
  BY <1>1, <1>2, <1>3, <1>4 DEF RegInv

\* Every step keeps the registers' invariant.
LEMMA RegStep ==
  ASSUME MaxConcurrent = 1, TypeInv, StackInv, ClaimsExclusive, DataInv, RegInv, [Next]_vars
  PROVE  RegInv'
<1>0. FramesInv
  BY DEF TypeInv
<1>1. CASE Scan \/ UNCHANGED vars
  <2>1. UNCHANGED <<calls, loaded, stray, slotMap>>
    BY <1>1 DEF Scan, vars, mapVars, regVars
  <2> QED
    BY <2>1, RegStays
<1>2. ASSUME NEW t \in HostSlots, AttachRegister(t)
      PROVE  RegInv'
  <2>1. /\ UNCHANGED <<calls, loaded, stray>>
        /\ slotMap' = [slotMap EXCEPT ![t] = [owner |-> None, file |-> None]]
        /\ t \in Slots
    BY <1>2 DEF AttachRegister, regVars, Slots
  <2>2. \A s \in Slots : slotMap'[s] = slotMap[s] \/ slotMap'[s].file = None
    BY <2>1 DEF TypeInv, MapTypes
  <2> QED
    BY <2>1, <2>2, RegStays
<1>3. ASSUME NEW e \in Extensions,
             CallLoad(e) \/ CallUnload(e) \/ (\E f \in ReloadFiles[e] : CallReload(e, f))
      PROVE  RegInv'
  <2>1. \/ Begins("load", e, None, "fast")
        \/ Begins("unload", e, None, "dependents")
        \/ \E f \in Files : Begins("reload", e, f, "old")
    BY <1>0, <1>3, StartKinds, StartFrame DEF MaybeFile, Pcs, LoadPcs, UnloadPcs, ReloadPcs
  <2>2. UNCHANGED <<loaded, stray, slotMap>>
    BY <1>3, StartKinds DEF Start, mapVars, regVars
  <2>3. /\ DOMAIN calls' = DOMAIN calls \cup {NewFrame}
        /\ \A d \in DOMAIN calls : calls'[d] = calls[d]
        /\ calls'[NewFrame].pc \in {"fast", "dependents", "old"}
    BY <2>1 DEF Begins, Grows
  <2>4. \A d \in DOMAIN calls' : d \notin DOMAIN calls => Neutral(d)'
    BY <2>3 DEF Neutral, ServesNew, ServesOld, Disowned
  <2> QED
    BY <2>2, <2>3, <2>4, RegStays
<1>4. ASSUME NEW c, LoadDependency(c)
      PROVE  RegInv'
  <2>1. /\ c \in DOMAIN calls /\ calls[c].pc = "deps"
        /\ DOMAIN calls' = DOMAIN calls \cup {NewFrame}
        /\ \A d \in DOMAIN calls : d # c => calls'[d] = calls[d]
        /\ calls'[NewFrame].pc = "fast"
        /\ calls'[c].name = calls[c].name /\ calls'[c].file = calls[c].file
        /\ calls'[c].pc = "await"
    <3>1. /\ c \in DOMAIN calls /\ calls[c].pc = "deps"
          /\ Grows("load", Head(calls[c].todo), None, "fast", c)
          /\ \A d \in DOMAIN calls : d # c => calls'[d] = calls[d]
          /\ Becomes(c, "await", calls[c].file, Tail(calls[c].todo), calls[c].regs,
                     calls[c].old, calls[c].oldLib)
      BY <1>4, LoadDependencyEffect, Zenon
    <3>2. DOMAIN calls' = DOMAIN calls \cup {NewFrame} /\ calls'[NewFrame].pc = "fast"
      BY <3>1, Zenon DEF Grows
    <3>3. /\ calls'[c].name = calls[c].name /\ calls'[c].file = calls[c].file
          /\ calls'[c].pc = "await"
      BY <3>1, Zenon DEF Becomes
    <3> QED
      BY <3>1, <3>2, <3>3, Zenon
  <2>2. UNCHANGED <<loaded, stray, slotMap>>
    BY <1>4 DEF LoadDependency, mapVars, regVars
  <2>3. \A d \in DOMAIN calls' : d \notin DOMAIN calls => Neutral(d)'
    BY <2>1 DEF Neutral, ServesNew, ServesOld, Disowned
  <2>4. Neutral(c) /\ Neutral(c)'
    BY <2>1 DEF Neutral, ServesNew, ServesOld, Disowned
  <2> QED
    BY <2>1, <2>2, <2>3, <2>4, RegStays
<1>5. ASSUME NEW c, DropPrepared(c)
      PROVE  RegInv'
  <2>1. c \in DOMAIN calls /\ calls[c].pc = "prepared"
    BY <1>5 DEF DropPrepared, At
  <2>2. Ends(c, "failed")
    BY <1>5, <2>1, RegContext DEF DropPrepared, AbandonReload, Fail, Pcs, LoadPcs
  <2>3. UNCHANGED <<loaded, stray, slotMap>>
    BY <1>5 DEF DropPrepared, mapVars
  <2>4. /\ Only(c) /\ calls'[c].name = calls[c].name /\ calls'[c].file = calls[c].file
        /\ calls'[c].pc = "failed"
    BY <2>2 DEF Ends, Becomes
  <2>5. Neutral(c) /\ Neutral(c)'
    BY <2>1, <2>4 DEF Neutral, ServesNew, ServesOld, Disowned
  <2> QED
    BY <2>3, <2>4, <2>5, RegStays DEF Only
<1>6. ASSUME NEW c, Step(c) \/ CommitReload(c), ~LoadDependency(c)
      PROVE  RegInv'
  <2>1. Alone(c)
    BY <1>0, <1>6, StepAlone, CommitAlone
  <2>2. CASE SteadyStep(c)
    BY <2>1, <2>2, SteadySteps, RegSteady DEF RegInv
  <2>3. \/ SteadyStep(c) \/ AttachOwned(c) \/ Snapshot(c) \/ PushEntries(c) \/ StoreLibrary(c)
        \/ RemoveOwned(c) \/ RemoveLibrary(c) \/ RemoveOld(c) \/ StoreReloaded(c)
    BY <1>6 DEF Step, LoadStep, UnloadStep, ReloadStep, SteadyStep
  <2> QED
    BY <2>1, <2>2, <2>3, RegAttachOwned, RegSnapshot, RegPushEntries, RegStore, RegRemoveOwned,
       RegRemoveLibrary, RegRemoveOld
<1> QED
  BY <1>1, <1>2, <1>3, <1>4, <1>5, <1>6 DEF Next

\* With one call at a time, a register in the slot map is in a library that is open
\* (or is the host's), and no load ever fills a register of one that has been closed,
\* whatever has been loaded, unloaded and reloaded before, and under which names.
THEOREM RegistersAreLive ==
  ASSUME MaxConcurrent = 1
  PROVE  Spec => []RegistersLive
<1>1. Init => RegInv
  BY DEF Init, RegInv
<1>2. TypeInv /\ StackInv /\ ClaimsExclusive /\ DataInv /\ RegInv /\ [Next]_vars => RegInv'
  BY RegStep
<1>3. TypeInv /\ DataInv /\ RegInv => RegistersLive
  <2> SUFFICES ASSUME TypeInv, DataInv, RegInv,
                      NEW s \in Slots, slotMap[s] # None, slotMap[s].file # None
               PROVE  MappedBy(handles, slotMap[s].file)
    BY DEF RegistersLive, RegInv
  <2>1. PICK m \in DOMAIN calls : Serving(m, slotMap[s].owner) /\ calls[m].file = slotMap[s].file
    BY DEF RegInv
  <2>2. slotMap[s].owner \in Extensions
    BY DEF RegInv
  <2>3. m \in handles
    BY <2>1, <2>2, ServingOpen
  <2> QED
    BY <2>1, <2>3 DEF MappedBy
<1> QED
  BY <1>1, <1>2, <1>3, TypeCorrect, StackCorrect, ClaimsAreExclusive, DataCorrect, PTL DEF Spec

-----------------------------------------------------------------------------
(***************************************************************************)
(* The registry that callers see, step by step.                            *)
(***************************************************************************)

\* A name enters the registry.
LEMMA LiveGrows ==
  ASSUME TypeInv, NEW e \in Extensions, NEW m, m # 0, loadedMeta' = [loadedMeta EXCEPT ![e] = m]
  PROVE  Live' = Live \cup {e}
BY DEF TypeInv, MapTypes, Live

\* A name leaves the registry.
LEMMA LiveShrinks ==
  ASSUME TypeInv, NEW e \in Extensions, loadedMeta' = [loadedMeta EXCEPT ![e] = 0]
  PROVE  Live' = Live \ {e}
BY DEF TypeInv, MapTypes, Live

\* The call that brought the version in use has found its file long ago.
LEMMA LiveVersions ==
  ASSUME TypeInv, DataInv, NEW e \in Live
  PROVE  /\ loadedMeta[e] \in DOMAIN calls
         /\ calls[loadedMeta[e]].pc \in {"finish", "ok"}
<1>0. e \in Extensions /\ loadedMeta[e] # 0
  BY DEF Live
<1>1. \A c \in DOMAIN calls : calls[c].name = e => ~HalfLoaded(c) /\ ~HalfUnloaded(c)
  BY <1>0 DEF DataInv, Knows
<1>2. loaded[e] = loadedMeta[e]
  BY <1>0, <1>1 DEF DataInv, MapsAgree
<1>3. \/ BroughtBy(loadedMeta[e], e)
      \/ /\ loadedMeta[e] \in DOMAIN calls
         /\ calls[loadedMeta[e]].name = e
         /\ calls[loadedMeta[e]].op = "load"
         /\ calls[loadedMeta[e]].pc \in {"storeMeta", "finish"}
  BY <1>0, <1>2 DEF DataInv, LoadedBy
<1> QED
  BY <1>1, <1>3 DEF BroughtBy, HalfLoaded

\* No frame that has found its file takes another.
FilesKept == \A m \in DOMAIN calls : calls[m].pc # "resolve" => calls'[m].file = calls[m].file

\* Then the versions in use stay what they are,
LEMMA VersionsKept ==
  ASSUME TypeInv, DataInv, FilesKept, NEW e \in Live, loadedMeta'[e] = loadedMeta[e]
  PROVE  FileOf(loadedMeta[e])' = FileOf(loadedMeta[e])
BY LiveVersions DEF FilesKept, FileOf

\* and with the metadata the whole registry.
LEMMA VersionsQuiet ==
  ASSUME TypeInv, DataInv, FilesKept, loadedMeta' = loadedMeta
  PROVE  /\ Live' = Live
         /\ LiveFiles => LiveFiles'
         /\ \A e \in Extensions : Dependents(e) = {} => Dependents(e)' = {}
         /\ Version' = Version
<1>1. Live' = Live
  BY DEF Live
<1>2. \A e \in Live : FileOf(loadedMeta[e])' = FileOf(loadedMeta[e])
  BY VersionsKept
<1>3. LiveFiles => LiveFiles'
  BY <1>1, <1>2 DEF LiveFiles
<1>4. ASSUME NEW e \in Extensions, Dependents(e) = {}
      PROVE  Dependents(e)' = {}
  BY <1>2, <1>4 DEF Dependents, Live
<1>5. \A e \in Extensions :
        (IF loadedMeta[e] = 0 THEN None ELSE FileOf(loadedMeta[e]))'
          = IF loadedMeta[e] = 0 THEN None ELSE FileOf(loadedMeta[e])
  BY <1>2 DEF Live
<1>6. Version' = Version
  BY <1>5 DEF Version
<1> QED
  BY <1>1, <1>3, <1>4, <1>6

\* What a frame on its way through its dependencies knows.
LoadsRest(c) ==
  \A n \in Needs(calls[c].file) :
    \/ n \in Live
    \/ \E i \in DOMAIN calls[c].todo : calls[c].todo[i] = n
    \/ calls[c].pc = "await" /\ \E d \in DOMAIN calls : LastChild(c, d) /\ calls[d].name = n

\* A step of frame c keeps the registry's invariant if it keeps what is about c.
LEMMA RegistryLocal ==
  ASSUME FramesInv, RegistryInv, NEW c \in DOMAIN calls, Alone(c), Only(c),
         calls'[c].name = calls[c].name, calls'[c].parent = calls[c].parent,
         LiveFiles',
         Supplied(c)' => Needs(calls'[c].file) \subseteq Live',
         calls'[c].pc # "await",
         calls'[c].pc = "deps" => LoadsRest(c)',
         calls'[c].pc = "ok" => calls[c].name \in Live' \/ calls[c].parent = 0,
         calls'[c].pc \in {"removeMeta", "removeOld"} => Dependents(calls[c].name)' = {},
         Live \subseteq Live' \/ calls[c].op # "load"
  PROVE  RegistryInv'
<1>0. /\ DOMAIN calls' = DOMAIN calls
      /\ \A d \in DOMAIN calls : d # c => calls'[d] = calls[d]
      /\ \A d \in DOMAIN calls : calls'[d].name = calls[d].name /\ calls'[d].parent = calls[d].parent
  BY DEF Only
<1>1. \A d, x : LastChild(d, x)' <=> LastChild(d, x)
  BY <1>0 DEF LastChild
<1>2. ASSUME NEW d \in DOMAIN calls, d # c
      PROVE  /\ ~Supplied(d)'
             /\ calls'[d].pc \notin {"deps", "removeMeta", "removeOld"}
             /\ calls'[d].pc = "await" => calls[d].pc = "await" /\ Live \subseteq Live'
  BY <1>0, <1>2 DEF Alone, Supplied
<1>3. \A d \in DOMAIN calls' : Supplied(d)' => Needs(calls'[d].file) \subseteq Live'
  BY <1>0, <1>2
<1>4. ASSUME NEW d \in DOMAIN calls', calls'[d].pc \in {"deps", "await"}
      PROVE  LoadsRest(d)'
  <2>1. CASE d = c
    BY <1>4, <2>1
  <2>2. CASE d # c
    <3>1. calls[d].pc = "await" /\ Live \subseteq Live' /\ calls'[d] = calls[d] /\ d \in DOMAIN calls
      BY <1>0, <1>2, <1>4, <2>2
    <3>2. LoadsRest(d)
      BY <3>1 DEF RegistryInv, LoadsRest
    <3> QED
      BY <1>0, <1>1, <3>1, <3>2 DEF LoadsRest
  <2> QED
    BY <2>1, <2>2
<1>5. ASSUME NEW d \in DOMAIN calls', NEW x \in DOMAIN calls',
             calls'[d].pc = "await", LastChild(d, x)', calls'[x].pc = "ok"
      PROVE  calls'[x].name \in Live'
  <2>1. d # c /\ calls[d].pc = "await" /\ Live \subseteq Live' /\ d \in DOMAIN calls
    BY <1>0, <1>2, <1>5
  <2>2. LastChild(d, x) /\ x \in DOMAIN calls
    BY <1>0, <1>1, <1>5
  <2>3. CASE x = c
    <3>1. calls[c].parent # 0
      BY <2>1, <2>2, <2>3, FrameNumbers DEF LastChild
    <3> QED
      BY <1>0, <1>5, <2>3, <3>1
  <2>4. CASE x # c
    BY <1>0, <1>5, <2>1, <2>2, <2>4 DEF RegistryInv
  <2> QED
    BY <2>3, <2>4
<1>6. ASSUME NEW d \in DOMAIN calls', calls'[d].pc \in {"removeMeta", "removeOld"}
      PROVE  Dependents(calls[d].name)' = {}
  <2>1. d = c
    BY <1>0, <1>2, <1>6
  <2> QED
    BY <1>6, <2>1
<1> QED
  BY <1>0, <1>3, <1>4, <1>5, <1>6 DEF RegistryInv, LoadsRest

\* Only one frame moves, and if it has a file it keeps it.
LEMMA FilesStay ==
  ASSUME NEW c, Only(c), calls[c].pc = "resolve" \/ calls'[c].file = calls[c].file
  PROVE  FilesKept
BY DEF Only, FilesKept

\* A step that leaves the registry alone.
LEMMA RegistryQuiet ==
  ASSUME TypeInv, DataInv, RegistryInv, NEW c \in DOMAIN calls, Alone(c), Only(c),
         calls'[c].name = calls[c].name, calls'[c].parent = calls[c].parent,
         calls[c].pc = "resolve" \/ calls'[c].file = calls[c].file,
         loadedMeta' = loadedMeta,
         Supplied(c)' => Needs(calls'[c].file) \subseteq Live,
         calls'[c].pc # "await",
         calls'[c].pc = "deps" => LoadsRest(c)',
         calls'[c].pc = "ok" => calls[c].name \in Live \/ calls[c].parent = 0,
         calls'[c].pc \in {"removeMeta", "removeOld"} => Dependents(calls[c].name) = {}
  PROVE  RegistryInv'
<1>0. FramesInv /\ calls[c].name \in Extensions
  BY RegContext
<1>1. FilesKept
  BY FilesStay
<1>2. Live' = Live /\ LiveFiles'
      /\ (Dependents(calls[c].name) = {} => Dependents(calls[c].name)' = {})
  BY <1>0, <1>1, VersionsQuiet DEF RegistryInv
<1> QED
  BY <1>0, <1>2, RegistryLocal

\* A step that leaves the registry alone and does not get far.
Plain(c) ==
  /\ c \in DOMAIN calls
  /\ Only(c)
  /\ calls'[c].name = calls[c].name /\ calls'[c].parent = calls[c].parent
  /\ calls[c].pc = "resolve" \/ calls'[c].file = calls[c].file
  /\ loadedMeta' = loadedMeta
  /\ Supplied(c)' => Supplied(c)
  /\ calls'[c].pc \notin {"deps", "await", "ok", "removeMeta", "removeOld"}

\* A plain step keeps the registry's invariant.
LEMMA RegistryPlain ==
  ASSUME TypeInv, DataInv, RegistryInv, NEW c, Alone(c), Plain(c)
  PROVE  RegistryInv'
<1>1. Supplied(c) => calls'[c].file = calls[c].file
  BY DEF Plain, Supplied
<1>2. Supplied(c)' => Needs(calls'[c].file) \subseteq Live
  BY <1>1 DEF Plain, RegistryInv
<1> QED
  BY <1>2, RegistryQuiet DEF Plain

\* The steps that are plain.
PlainStep(c) ==
  \/ Claim(c) \/ Resolve(c) \/ InitExtension(c) \/ AttachOwned(c) \/ Snapshot(c)
  \/ PushEntries(c) \/ StoreLibrary(c) \/ RemoveEntries(c) \/ RemoveOwned(c)
  \/ RemoveLibrary(c) \/ Deinit(c) \/ FindOld(c) \/ PrepareReload(c) \/ InitNew(c)
  \/ PushPrepared(c) \/ CommitReload(c)

\* They are.
LEMMA PlainSteps ==
  ASSUME TypeInv, NEW c, PlainStep(c)
  PROVE  Plain(c)
<1>a. ASSUME c \in DOMAIN calls
      PROVE  /\ FrameOK(c)
             /\ calls[c].op \in {"load", "unload", "reload"}
             /\ \A p \in Pcs : Goto(c, p) => Moves(c, p)
             /\ \A p \in Pcs : Return(c, p) => Ends(c, p)
  BY <1>a, RegContext
<1>b. c \in DOMAIN calls /\ (calls[c].pc = "resolve" \/ calls'[c].file = calls[c].file)
  <2>1. AnyStep(c) /\ ~LoadDependency(c)
    BY DEF PlainStep, AnyStep, Step, LoadStep, UnloadStep, ReloadStep, Claim, Resolve, InitExtension,
           AttachOwned, Snapshot, PushEntries, StoreLibrary, RemoveEntries, RemoveOwned, RemoveLibrary,
           Deinit, FindOld, PrepareReload, InitNew, PushPrepared, CommitReload, LoadDependency, At
  <2>2. Kept(c)
    BY <2>1, StepKeeps
  <2> QED
    BY <2>2 DEF Kept, PlainStep, Claim, Resolve, InitExtension,
           AttachOwned, Snapshot, PushEntries, StoreLibrary, RemoveEntries, RemoveOwned, RemoveLibrary,
           Deinit, FindOld, PrepareReload, InitNew, PushPrepared, CommitReload, At
<1>1. CASE Claim(c)
  <2>1. /\ Only(c)
        /\ calls'[c].name = calls[c].name /\ calls'[c].parent = calls[c].parent
        /\ calls'[c].op = calls[c].op
        /\ loadedMeta' = loadedMeta
    BY <1>1, <1>a
       DEF Claim, At, FailLoad, Fail, AbandonReload, Moves, Ends, Becomes, Pcs, LoadPcs, UnloadPcs,
           ReloadPcs, mapVars
  <2>2. /\ Supplied(c)' => Supplied(c)
        /\ calls'[c].pc \notin {"deps", "await", "ok", "removeMeta", "removeOld"}
    BY <1>1, <1>a, <2>1
       DEF Claim, At, FailLoad, Fail, AbandonReload, Moves, Ends, Becomes, FrameOK, Pcs, LoadPcs,
           UnloadPcs, ReloadPcs, Supplied
  <2> QED
    BY <1>b, <2>1, <2>2 DEF Plain
<1>2. CASE Resolve(c)
  <2>1. /\ Only(c)
        /\ calls'[c].name = calls[c].name /\ calls'[c].parent = calls[c].parent
        /\ calls'[c].op = calls[c].op
        /\ loadedMeta' = loadedMeta
    BY <1>2, <1>a, ResolveEffect
       DEF At, FailLoad, Fail, AbandonReload, Moves, Ends, Becomes, Pcs, LoadPcs, UnloadPcs,
           ReloadPcs, mapVars
  <2>2. /\ Supplied(c)' => Supplied(c)
        /\ calls'[c].pc \notin {"deps", "await", "ok", "removeMeta", "removeOld"}
    BY <1>2, <1>a, <2>1, ResolveEffect
       DEF At, FailLoad, Fail, AbandonReload, Moves, Ends, Becomes, FrameOK, Pcs, LoadPcs,
           UnloadPcs, ReloadPcs, Supplied
  <2> QED
    BY <1>b, <2>1, <2>2 DEF Plain
<1>3. CASE InitExtension(c)
  <2>1. /\ Only(c)
        /\ calls'[c].name = calls[c].name /\ calls'[c].parent = calls[c].parent
        /\ calls'[c].op = calls[c].op
        /\ loadedMeta' = loadedMeta
    BY <1>3, <1>a
       DEF InitExtension, At, FailLoad, Fail, AbandonReload, Moves, Ends, Becomes, Pcs, LoadPcs, UnloadPcs,
           ReloadPcs, mapVars
  <2>2. /\ Supplied(c)' => Supplied(c)
        /\ calls'[c].pc \notin {"deps", "await", "ok", "removeMeta", "removeOld"}
    BY <1>3, <1>a, <2>1
       DEF InitExtension, At, FailLoad, Fail, AbandonReload, Moves, Ends, Becomes, FrameOK, Pcs, LoadPcs,
           UnloadPcs, ReloadPcs, Supplied
  <2> QED
    BY <1>b, <2>1, <2>2 DEF Plain
<1>4. CASE AttachOwned(c)
  <2>1. /\ Only(c)
        /\ calls'[c].name = calls[c].name /\ calls'[c].parent = calls[c].parent
        /\ calls'[c].op = calls[c].op
        /\ loadedMeta' = loadedMeta
    BY <1>4, <1>a
       DEF AttachOwned, At, FailLoad, Fail, AbandonReload, Moves, Ends, Becomes, Pcs, LoadPcs, UnloadPcs,
           ReloadPcs, mapVars
  <2>2. /\ Supplied(c)' => Supplied(c)
        /\ calls'[c].pc \notin {"deps", "await", "ok", "removeMeta", "removeOld"}
    BY <1>4, <1>a, <2>1
       DEF AttachOwned, At, FailLoad, Fail, AbandonReload, Moves, Ends, Becomes, FrameOK, Pcs, LoadPcs,
           UnloadPcs, ReloadPcs, Supplied
  <2> QED
    BY <1>b, <2>1, <2>2 DEF Plain
<1>5. CASE Snapshot(c)
  <2>1. /\ Only(c)
        /\ calls'[c].name = calls[c].name /\ calls'[c].parent = calls[c].parent
        /\ calls'[c].op = calls[c].op
        /\ loadedMeta' = loadedMeta
    BY <1>5, <1>a, SnapshotEffect
       DEF At, FailLoad, Fail, AbandonReload, Moves, Ends, Becomes, Pcs, LoadPcs, UnloadPcs,
           ReloadPcs, mapVars
  <2>2. /\ Supplied(c)' => Supplied(c)
        /\ calls'[c].pc \notin {"deps", "await", "ok", "removeMeta", "removeOld"}
    BY <1>5, <1>a, <2>1, SnapshotEffect
       DEF At, FailLoad, Fail, AbandonReload, Moves, Ends, Becomes, FrameOK, Pcs, LoadPcs,
           UnloadPcs, ReloadPcs, Supplied
  <2> QED
    BY <1>b, <2>1, <2>2 DEF Plain
<1>6. CASE PushEntries(c)
  <2>1. /\ Only(c)
        /\ calls'[c].name = calls[c].name /\ calls'[c].parent = calls[c].parent
        /\ calls'[c].op = calls[c].op
        /\ loadedMeta' = loadedMeta
    BY <1>6, <1>a, PushEntriesEffect
       DEF At, FailLoad, Fail, AbandonReload, Moves, Ends, Becomes, Pcs, LoadPcs, UnloadPcs,
           ReloadPcs, mapVars
  <2>2. /\ Supplied(c)' => Supplied(c)
        /\ calls'[c].pc \notin {"deps", "await", "ok", "removeMeta", "removeOld"}
    BY <1>6, <1>a, <2>1, PushEntriesEffect
       DEF At, FailLoad, Fail, AbandonReload, Moves, Ends, Becomes, FrameOK, Pcs, LoadPcs,
           UnloadPcs, ReloadPcs, Supplied
  <2> QED
    BY <1>b, <2>1, <2>2 DEF Plain
<1>7. CASE StoreLibrary(c)
  <2>1. /\ Only(c)
        /\ calls'[c].name = calls[c].name /\ calls'[c].parent = calls[c].parent
        /\ calls'[c].op = calls[c].op
        /\ loadedMeta' = loadedMeta
    BY <1>7, <1>a
       DEF StoreLibrary, At, FailLoad, Fail, AbandonReload, Moves, Ends, Becomes, Pcs, LoadPcs, UnloadPcs,
           ReloadPcs, mapVars
  <2>2. /\ Supplied(c)' => Supplied(c)
        /\ calls'[c].pc \notin {"deps", "await", "ok", "removeMeta", "removeOld"}
    BY <1>7, <1>a, <2>1
       DEF StoreLibrary, At, FailLoad, Fail, AbandonReload, Moves, Ends, Becomes, FrameOK, Pcs, LoadPcs,
           UnloadPcs, ReloadPcs, Supplied
  <2> QED
    BY <1>b, <2>1, <2>2 DEF Plain
<1>8. CASE RemoveEntries(c)
  <2>1. /\ Only(c)
        /\ calls'[c].name = calls[c].name /\ calls'[c].parent = calls[c].parent
        /\ calls'[c].op = calls[c].op
        /\ loadedMeta' = loadedMeta
    BY <1>8, <1>a
       DEF RemoveEntries, At, FailLoad, Fail, AbandonReload, Moves, Ends, Becomes, Pcs, LoadPcs, UnloadPcs,
           ReloadPcs, mapVars
  <2>2. /\ Supplied(c)' => Supplied(c)
        /\ calls'[c].pc \notin {"deps", "await", "ok", "removeMeta", "removeOld"}
    BY <1>8, <1>a, <2>1
       DEF RemoveEntries, At, FailLoad, Fail, AbandonReload, Moves, Ends, Becomes, FrameOK, Pcs, LoadPcs,
           UnloadPcs, ReloadPcs, Supplied
  <2> QED
    BY <1>b, <2>1, <2>2 DEF Plain
<1>9. CASE RemoveOwned(c)
  <2>1. /\ Only(c)
        /\ calls'[c].name = calls[c].name /\ calls'[c].parent = calls[c].parent
        /\ calls'[c].op = calls[c].op
        /\ loadedMeta' = loadedMeta
    BY <1>9, <1>a
       DEF RemoveOwned, At, FailLoad, Fail, AbandonReload, Moves, Ends, Becomes, Pcs, LoadPcs, UnloadPcs,
           ReloadPcs, mapVars
  <2>2. /\ Supplied(c)' => Supplied(c)
        /\ calls'[c].pc \notin {"deps", "await", "ok", "removeMeta", "removeOld"}
    BY <1>9, <1>a, <2>1
       DEF RemoveOwned, At, FailLoad, Fail, AbandonReload, Moves, Ends, Becomes, FrameOK, Pcs, LoadPcs,
           UnloadPcs, ReloadPcs, Supplied
  <2> QED
    BY <1>b, <2>1, <2>2 DEF Plain
<1>10. CASE RemoveLibrary(c)
  <2>1. /\ Only(c)
        /\ calls'[c].name = calls[c].name /\ calls'[c].parent = calls[c].parent
        /\ calls'[c].op = calls[c].op
        /\ loadedMeta' = loadedMeta
    BY <1>10, <1>a, RemoveLibraryEffect
       DEF At, FailLoad, Fail, AbandonReload, Moves, Ends, Becomes, Pcs, LoadPcs, UnloadPcs,
           ReloadPcs, mapVars
  <2>2. /\ Supplied(c)' => Supplied(c)
        /\ calls'[c].pc \notin {"deps", "await", "ok", "removeMeta", "removeOld"}
    BY <1>10, <1>a, <2>1, RemoveLibraryEffect
       DEF At, FailLoad, Fail, AbandonReload, Moves, Ends, Becomes, FrameOK, Pcs, LoadPcs,
           UnloadPcs, ReloadPcs, Supplied
  <2> QED
    BY <1>b, <2>1, <2>2 DEF Plain
<1>11. CASE Deinit(c)
  <2>1. /\ Only(c)
        /\ calls'[c].name = calls[c].name /\ calls'[c].parent = calls[c].parent
        /\ calls'[c].op = calls[c].op
        /\ loadedMeta' = loadedMeta
    BY <1>11, <1>a
       DEF Deinit, At, FailLoad, Fail, AbandonReload, Moves, Ends, Becomes, Pcs, LoadPcs, UnloadPcs,
           ReloadPcs, mapVars
  <2>2. /\ Supplied(c)' => Supplied(c)
        /\ calls'[c].pc \notin {"deps", "await", "ok", "removeMeta", "removeOld"}
    BY <1>11, <1>a, <2>1
       DEF Deinit, At, FailLoad, Fail, AbandonReload, Moves, Ends, Becomes, FrameOK, Pcs, LoadPcs,
           UnloadPcs, ReloadPcs, Supplied
  <2> QED
    BY <1>b, <2>1, <2>2 DEF Plain
<1>12. CASE FindOld(c)
  <2>1. /\ Only(c)
        /\ calls'[c].name = calls[c].name /\ calls'[c].parent = calls[c].parent
        /\ calls'[c].op = calls[c].op
        /\ loadedMeta' = loadedMeta
    BY <1>12, <1>a, FindOldEffect
       DEF At, FailLoad, Fail, AbandonReload, Moves, Ends, Becomes, Pcs, LoadPcs, UnloadPcs,
           ReloadPcs, mapVars
  <2>2. /\ Supplied(c)' => Supplied(c)
        /\ calls'[c].pc \notin {"deps", "await", "ok", "removeMeta", "removeOld"}
    BY <1>12, <1>a, <2>1, FindOldEffect
       DEF At, FailLoad, Fail, AbandonReload, Moves, Ends, Becomes, FrameOK, Pcs, LoadPcs,
           UnloadPcs, ReloadPcs, Supplied
  <2> QED
    BY <1>b, <2>1, <2>2 DEF Plain
<1>13. CASE PrepareReload(c)
  <2>1. /\ Only(c)
        /\ calls'[c].name = calls[c].name /\ calls'[c].parent = calls[c].parent
        /\ calls'[c].op = calls[c].op
        /\ loadedMeta' = loadedMeta
    BY <1>13, <1>a, PrepareReloadEffect
       DEF At, FailLoad, Fail, AbandonReload, Moves, Ends, Becomes, Pcs, LoadPcs, UnloadPcs,
           ReloadPcs, mapVars
  <2>2. /\ Supplied(c)' => Supplied(c)
        /\ calls'[c].pc \notin {"deps", "await", "ok", "removeMeta", "removeOld"}
    BY <1>13, <1>a, <2>1, PrepareReloadEffect
       DEF At, FailLoad, Fail, AbandonReload, Moves, Ends, Becomes, FrameOK, Pcs, LoadPcs,
           UnloadPcs, ReloadPcs, Supplied
  <2> QED
    BY <1>b, <2>1, <2>2 DEF Plain
<1>14. CASE InitNew(c)
  <2>1. /\ Only(c)
        /\ calls'[c].name = calls[c].name /\ calls'[c].parent = calls[c].parent
        /\ calls'[c].op = calls[c].op
        /\ loadedMeta' = loadedMeta
    BY <1>14, <1>a
       DEF InitNew, At, FailLoad, Fail, AbandonReload, Moves, Ends, Becomes, Pcs, LoadPcs, UnloadPcs,
           ReloadPcs, mapVars
  <2>2. /\ Supplied(c)' => Supplied(c)
        /\ calls'[c].pc \notin {"deps", "await", "ok", "removeMeta", "removeOld"}
    BY <1>14, <1>a, <2>1
       DEF InitNew, At, FailLoad, Fail, AbandonReload, Moves, Ends, Becomes, FrameOK, Pcs, LoadPcs,
           UnloadPcs, ReloadPcs, Supplied
  <2> QED
    BY <1>b, <2>1, <2>2 DEF Plain
<1>15. CASE PushPrepared(c)
  <2>1. /\ Only(c)
        /\ calls'[c].name = calls[c].name /\ calls'[c].parent = calls[c].parent
        /\ calls'[c].op = calls[c].op
        /\ loadedMeta' = loadedMeta
    BY <1>15, <1>a, PushPreparedEffect
       DEF At, FailLoad, Fail, AbandonReload, Moves, Ends, Becomes, Pcs, LoadPcs, UnloadPcs,
           ReloadPcs, mapVars
  <2>2. /\ Supplied(c)' => Supplied(c)
        /\ calls'[c].pc \notin {"deps", "await", "ok", "removeMeta", "removeOld"}
    BY <1>15, <1>a, <2>1, PushPreparedEffect
       DEF At, FailLoad, Fail, AbandonReload, Moves, Ends, Becomes, FrameOK, Pcs, LoadPcs,
           UnloadPcs, ReloadPcs, Supplied
  <2> QED
    BY <1>b, <2>1, <2>2 DEF Plain
<1>16. CASE CommitReload(c)
  <2>1. /\ Only(c)
        /\ calls'[c].name = calls[c].name /\ calls'[c].parent = calls[c].parent
        /\ calls'[c].op = calls[c].op
        /\ loadedMeta' = loadedMeta
    BY <1>16, <1>a
       DEF CommitReload, At, FailLoad, Fail, AbandonReload, Moves, Ends, Becomes, Pcs, LoadPcs, UnloadPcs,
           ReloadPcs, mapVars
  <2>2. /\ Supplied(c)' => Supplied(c)
        /\ calls'[c].pc \notin {"deps", "await", "ok", "removeMeta", "removeOld"}
    BY <1>16, <1>a, <2>1
       DEF CommitReload, At, FailLoad, Fail, AbandonReload, Moves, Ends, Becomes, FrameOK, Pcs, LoadPcs,
           UnloadPcs, ReloadPcs, Supplied
  <2> QED
    BY <1>b, <2>1, <2>2 DEF Plain
<1> QED
  BY <1>1, <1>2, <1>3, <1>4, <1>5, <1>6, <1>7, <1>8, <1>9, <1>10, <1>11, <1>12, <1>13, <1>14, <1>15, <1>16 DEF PlainStep

\* A call that finds its name loaded, or has loaded it, returns.
LEMMA RegistryReturns ==
  ASSUME TypeInv, DataInv, RegistryInv, NEW c, Alone(c),
         FastPath(c) \/ FinishLoad(c) \/ CloseOld(c)
  PROVE  RegistryInv'
<1>0. /\ c \in DOMAIN calls /\ calls[c].pc \in {"fast", "finish", "close"} /\ Knows(c)
  BY DEF FastPath, FinishLoad, CloseOld, At, DataInv
<1>1. /\ FramesInv /\ FrameOK(c) /\ c # 0
      /\ calls[c].op \in {"load", "unload", "reload"} /\ calls[c].name \in Extensions
      /\ \A p \in Pcs : Goto(c, p) => Moves(c, p)
      /\ \A p \in Pcs : Return(c, p) => Ends(c, p)
  BY <1>0, RegContext
<1>2. loadedMeta' = loadedMeta
  BY DEF FastPath, FinishLoad, CloseOld, mapVars
<1>3. CASE FastPath(c)
  <2>1. calls[c].op = "load" /\ calls[c].pc = "fast"
    BY <1>0, <1>1, <1>3 DEF FastPath, At, FrameOK, UnloadPcs, ReloadPcs
  <2>2. /\ Only(c) /\ calls'[c].name = calls[c].name /\ calls'[c].parent = calls[c].parent
        /\ calls'[c].file = calls[c].file
        /\ calls'[c].op = calls[c].op
        /\ calls'[c].pc \in {"ok", "claim"}
        /\ calls'[c].pc = "ok" => loaded[calls[c].name] # 0
    BY <1>1, <1>3 DEF FastPath, NameOf, Moves, Becomes, Pcs, LoadPcs
  <2>3. loaded[calls[c].name] = loadedMeta[calls[c].name]
    BY <1>0, <1>1, <2>1, MapsAtStep DEF DataInv, HalfLoaded, HalfUnloaded
  <2>4. ~Supplied(c)' /\ (calls'[c].pc = "ok" => calls[c].name \in Live)
    BY <1>1, <2>1, <2>2, <2>3 DEF Supplied, Live
  <2> QED
    BY <1>0, <1>2, <2>2, <2>4, RegistryQuiet
<1>4. CASE FinishLoad(c)
  <2>1. calls[c].op = "load" /\ calls[c].pc = "finish"
    BY <1>0, <1>1, <1>4 DEF FinishLoad, At, FrameOK, UnloadPcs, ReloadPcs
  <2>2. /\ Only(c) /\ calls'[c].name = calls[c].name /\ calls'[c].parent = calls[c].parent
        /\ calls'[c].file = calls[c].file
        /\ calls'[c].op = calls[c].op
        /\ calls'[c].pc = "ok"
    BY <1>1, <1>4 DEF FinishLoad, Ends, Becomes, Pcs, LoadPcs
  <2>3. ~Supplied(c)' /\ calls[c].name \in Live
    BY <1>0, <1>1, <2>1, <2>2 DEF Supplied, Live, Knows
  <2> QED
    BY <1>0, <1>2, <2>2, <2>3, RegistryQuiet
<1>5. CASE CloseOld(c)
  <2>1. calls[c].op \in {"unload", "reload"} /\ calls[c].pc = "close"
    BY <1>0, <1>1, <1>5 DEF CloseOld, At, FrameOK, LoadPcs
  <2>2. calls[c].parent = 0
    BY <1>1, <2>1 DEF FrameOK
  <2>3. /\ Only(c) /\ calls'[c].name = calls[c].name /\ calls'[c].parent = calls[c].parent
        /\ calls'[c].file = calls[c].file
        /\ calls'[c].op = calls[c].op
        /\ calls'[c].pc \in {"ok", "attach"}
    BY <1>1, <1>5, <2>1 DEF CloseOld, Ends, Moves, Becomes, Pcs, LoadPcs
  <2>4. ~Supplied(c)'
    BY <2>1, <2>3 DEF Supplied
  <2> QED
    BY <1>0, <1>2, <2>2, <2>3, <2>4, RegistryQuiet
<1> QED
  BY <1>3, <1>4, <1>5

\* A load starts on its dependencies: all are to be loaded.
LEMMA RegistryCheckSlots ==
  ASSUME TypeInv, DataInv, RegistryInv, NEW c, Alone(c), CheckSlots(c)
  PROVE  RegistryInv'
<1>0. /\ c \in DOMAIN calls
      /\ \A p \in Pcs : Return(c, p) => Ends(c, p)
  BY RegContext DEF CheckSlots, At
<1>1. loadedMeta' = loadedMeta
  BY DEF CheckSlots
<1>2. /\ Only(c) /\ calls'[c].name = calls[c].name /\ calls'[c].parent = calls[c].parent
      /\ calls'[c].file = calls[c].file
      /\ \/ calls'[c].pc = "failed"
         \/ calls'[c].pc = "deps" /\ calls'[c].todo = DependsOn[calls[c].file]
  BY <1>0, CheckSlotsEffect DEF FailLoad, Ends, Becomes, FileOf, Pcs, LoadPcs
<1>3. ~Supplied(c)'
  BY <1>2 DEF Supplied
<1>4. calls'[c].pc = "deps" => LoadsRest(c)'
  BY <1>2 DEF LoadsRest, Needs
<1> QED
  BY <1>0, <1>1, <1>2, <1>3, <1>4, RegistryQuiet

\* The nested load has returned: if all went well, its extension is there.
LEMMA RegistryDependencyReturns ==
  ASSUME TypeInv, DataInv, RegistryInv, NEW c, Alone(c), DependencyReturns(c)
  PROVE  RegistryInv'
<1>0. /\ c \in DOMAIN calls /\ calls[c].pc = "await" /\ FramesInv
      /\ \A p \in Pcs : Goto(c, p) => Moves(c, p)
      /\ \A p \in Pcs : Return(c, p) => Ends(c, p)
  BY RegContext DEF DependencyReturns, At
<1>1. loadedMeta' = loadedMeta
  BY DEF DependencyReturns
<1>2. PICK d \in DOMAIN calls : /\ LastChild(c, d)
                                /\ \/ calls[d].pc = "ok" /\ Moves(c, "deps")
                                   \/ Ends(c, "failed")
  BY <1>0 DEF DependencyReturns, LastChild, At, FailLoad, Pcs, LoadPcs
<1>3. /\ Only(c) /\ calls'[c].name = calls[c].name /\ calls'[c].parent = calls[c].parent
      /\ calls'[c].file = calls[c].file
      /\ \/ calls'[c].pc = "failed"
         \/ calls'[c].pc = "deps" /\ calls'[c].todo = calls[c].todo /\ calls[d].pc = "ok"
  BY <1>2 DEF Moves, Ends, Becomes
<1>4. ~Supplied(c)'
  BY <1>3 DEF Supplied
<1>5. ASSUME calls'[c].pc = "deps"
      PROVE  LoadsRest(c)'
  <2>1. LoadsRest(c)
    BY <1>0 DEF RegistryInv, LoadsRest
  <2>2. calls'[c].todo = calls[c].todo /\ calls[d].name \in Live
    BY <1>0, <1>2, <1>3, <1>5 DEF RegistryInv
  <2>3. \A x \in DOMAIN calls : LastChild(c, x) => x = d
    BY <1>0, <1>2, FrameNumbers DEF LastChild
  <2>4. Live' = Live
    BY <1>1 DEF Live
  <2> QED
    BY <1>3, <2>1, <2>2, <2>3, <2>4 DEF LoadsRest
<1> QED
  BY <1>0, <1>1, <1>3, <1>4, <1>5, RegistryQuiet

\* A load has all its dependencies when it opens its library.
LEMMA RegistryOpenLibrary ==
  ASSUME TypeInv, DataInv, RegistryInv, NEW c, Alone(c), OpenLibrary(c)
  PROVE  RegistryInv'
<1>0. /\ c \in DOMAIN calls /\ calls[c].pc = "deps" /\ calls[c].todo = <<>>
      /\ \A p \in Pcs : Goto(c, p) => Moves(c, p)
      /\ \A p \in Pcs : Return(c, p) => Ends(c, p)
  BY RegContext DEF OpenLibrary, At
<1>1. loadedMeta' = loadedMeta
  BY DEF OpenLibrary
<1>2. /\ Only(c) /\ calls'[c].name = calls[c].name /\ calls'[c].parent = calls[c].parent
      /\ calls'[c].file = calls[c].file
      /\ calls'[c].pc \in {"init", "failed"}
  BY <1>0 DEF OpenLibrary, FailLoad, Moves, Ends, Becomes, Pcs, LoadPcs
<1>3. LoadsRest(c)
  BY <1>0 DEF RegistryInv, LoadsRest
<1>4. Needs(calls'[c].file) \subseteq Live
  BY <1>0, <1>2, <1>3 DEF LoadsRest
<1> QED
  BY <1>0, <1>1, <1>2, <1>4, RegistryQuiet

\* unload and commit_reload go on when nothing depends on the extension.
LEMMA RegistryCheckDependents ==
  ASSUME TypeInv, DataInv, RegistryInv, NEW c, Alone(c), CheckDependents(c)
  PROVE  RegistryInv'
<1>0. /\ c \in DOMAIN calls /\ calls[c].pc = "dependents"
      /\ \A p \in Pcs : Goto(c, p) => Moves(c, p)
      /\ \A p \in Pcs : Return(c, p) => Ends(c, p)
  BY RegContext DEF CheckDependents, At
<1>1. loadedMeta' = loadedMeta
  BY DEF CheckDependents, mapVars
<1>2. /\ Only(c) /\ calls'[c].name = calls[c].name /\ calls'[c].parent = calls[c].parent
      /\ calls'[c].file = calls[c].file
      /\ \/ calls'[c].pc = "failed"
         \/ calls'[c].pc \in {"removeMeta", "removeOld"} /\ Dependents(calls[c].name) = {}
  BY <1>0 DEF CheckDependents, AbandonReload, Fail, Moves, Ends, Becomes, NameOf,
              Pcs, LoadPcs, UnloadPcs, ReloadPcs
<1>3. ~Supplied(c)'
  BY <1>2 DEF Supplied
<1> QED
  BY <1>0, <1>1, <1>2, <1>3, RegistryQuiet

\* What the two steps that store a version do: the version is the file of the call.
LEMMA StoreEffect ==
  ASSUME TypeInv, NEW c, StoreMeta(c) \/ StoreReloaded(c)
  PROVE  /\ c \in DOMAIN calls /\ c # 0 /\ calls[c].name \in Extensions
         /\ loadedMeta' = [loadedMeta EXCEPT ![calls[c].name] = c]
         /\ Only(c) /\ calls'[c].name = calls[c].name /\ calls'[c].parent = calls[c].parent
         /\ calls'[c].file = calls[c].file
         /\ StoreMeta(c) => /\ calls[c].op = "load" /\ calls[c].pc = "storeMeta"
                            /\ calls'[c].op = "load" /\ calls'[c].pc = "finish"
                            /\ calls[c].file \in FilesOf[calls[c].name]
         /\ StoreReloaded(c) => /\ calls[c].op = "reload" /\ calls[c].pc = "push"
                                /\ calls'[c].op = "reload" /\ calls'[c].pc = "ok"
                                /\ calls[c].file \in ReloadFiles[calls[c].name]
<1>0. c \in DOMAIN calls /\ calls[c].pc \in {"storeMeta", "push"}
  BY DEF StoreMeta, StoreReloaded, At
<1>1. /\ FrameOK(c) /\ c # 0
      /\ calls[c].op \in {"load", "unload", "reload"} /\ calls[c].name \in Extensions
      /\ \A p \in Pcs : Goto(c, p) => Moves(c, p)
      /\ \A p \in Pcs : Return(c, p) => Ends(c, p)
  BY <1>0, RegContext
<1>2. CASE StoreMeta(c)
  <2>1. calls[c].pc = "storeMeta" /\ Moves(c, "finish")
    BY <1>1, <1>2 DEF StoreMeta, At, Pcs, LoadPcs
  <2>2. calls[c].op = "load" /\ calls[c].file \in FilesOf[calls[c].name]
    BY <1>1, <2>1 DEF FrameOK, FileOK, Opening, UnloadPcs, ReloadPcs
  <2> QED
    BY <1>0, <1>1, <1>2, <2>1, <2>2 DEF StoreMeta, StoreReloaded, NameOf, At, Moves, Becomes
<1>3. CASE StoreReloaded(c)
  <2>1. calls[c].pc = "push" /\ calls[c].op = "reload" /\ Ends(c, "ok")
    BY <1>1, <1>3 DEF StoreReloaded, At, Pcs, LoadPcs
  <2>2. calls[c].file \in ReloadFiles[calls[c].name]
    BY <1>1, <2>1 DEF FrameOK, FileOK
  <2> QED
    BY <1>0, <1>1, <1>3, <2>1, <2>2 DEF StoreMeta, StoreReloaded, NameOf, At, Ends, Becomes
<1> QED
  BY <1>2, <1>3

\* A version enters the registry: one of the extension's own.
LEMMA RegistryStore ==
  ASSUME TypeInv, DataInv, RegistryInv, NEW c, Alone(c), StoreMeta(c) \/ StoreReloaded(c)
  PROVE  RegistryInv'
<1>1. PICK e \in Extensions : e = calls[c].name
  BY StoreEffect
<1>2. /\ FramesInv /\ c \in DOMAIN calls /\ c # 0
      /\ loadedMeta' = [loadedMeta EXCEPT ![e] = c]
      /\ Only(c) /\ calls'[c].name = e /\ calls'[c].parent = calls[c].parent
      /\ calls'[c].file = calls[c].file
      /\ calls'[c].pc \in {"finish", "ok"}
      /\ calls[c].file \in OwnFiles(e)
  BY <1>1, StoreEffect DEF TypeInv, OwnFiles
<1>3. Live' = Live \cup {e}
  BY <1>2, LiveGrows
<1>4. LiveFiles'
  <2>1. FilesKept
    BY <1>2, FilesStay
  <2>2. ASSUME NEW x \in Live'
        PROVE  FileOf(loadedMeta[x])' \in OwnFiles(x)
    <3>1. CASE x = e
      BY <1>2, <3>1 DEF FileOf, TypeInv, MapTypes
    <3>2. CASE x # e
      <4>1. x \in Live /\ loadedMeta'[x] = loadedMeta[x]
        BY <1>2, <1>3, <2>2, <3>2 DEF Live, TypeInv, MapTypes
      <4> QED
        BY <2>1, <4>1, VersionsKept DEF RegistryInv, LiveFiles
    <3> QED
      BY <3>1, <3>2
  <2> QED
    BY <2>2 DEF LiveFiles
<1>5. ~Supplied(c)' /\ e \in Live' /\ Live \subseteq Live'
  BY <1>2, <1>3 DEF Supplied
<1> QED
  BY <1>1, <1>2, <1>4, <1>5, RegistryLocal

\* What the two steps that take a version away do: with one call at a time the maps
\* agree, and either both have the version or none has.
LEMMA RemoveEffect ==
  ASSUME TypeInv, DataInv, NEW c, Alone(c), RemoveMeta(c) \/ RemoveOld(c)
  PROVE  /\ c \in DOMAIN calls /\ calls[c].name \in Extensions /\ calls[c].op # "load"
         /\ calls[c].pc \in {"removeMeta", "removeOld"}
         /\ Only(c) /\ calls'[c].name = calls[c].name /\ calls'[c].parent = calls[c].parent
         /\ calls'[c].file = calls[c].file /\ calls'[c].op = calls[c].op
         /\ \/ /\ calls'[c].pc = "failed"
               /\ loadedMeta' = loadedMeta
            \/ /\ calls'[c].pc = "removeEntries"
               /\ loadedMeta[calls[c].name] # 0
               /\ loadedMeta' = [loadedMeta EXCEPT ![calls[c].name] = 0]
<1>0. c \in DOMAIN calls /\ calls[c].pc \in {"removeMeta", "removeOld"}
  BY DEF RemoveMeta, RemoveOld, At
<1>1. /\ FramesInv /\ FrameOK(c)
      /\ calls[c].op \in {"load", "unload", "reload"} /\ calls[c].name \in Extensions
      /\ \A p \in Pcs : Return(c, p) => Ends(c, p)
  BY <1>0, RegContext
<1>2. calls[c].op # "load"
  BY <1>0, <1>1 DEF FrameOK, LoadPcs
<1>3. loaded[calls[c].name] = loadedMeta[calls[c].name]
  BY <1>0, <1>1, MapsAtStep DEF DataInv, HalfLoaded, HalfUnloaded
<1>4. loadedMeta[calls[c].name] = 0 => [loadedMeta EXCEPT ![calls[c].name] = 0] = loadedMeta
  BY <1>1 DEF TypeInv, MapTypes
<1>5. CASE RemoveMeta(c)
  BY <1>0, <1>1, <1>2, <1>5, RemoveMetaEffect DEF Fail, Ends, Becomes, NameOf, Pcs, LoadPcs
<1>6. CASE RemoveOld(c)
  BY <1>0, <1>1, <1>2, <1>3, <1>4, <1>6, RemoveOldEffect DEF Fail, Ends, Becomes, NameOf, Pcs, LoadPcs
<1> QED
  BY <1>5, <1>6

\* The extension leaves the registry.
LEMMA RegistryRemove ==
  ASSUME TypeInv, DataInv, RegistryInv, NEW c, Alone(c), RemoveMeta(c) \/ RemoveOld(c)
  PROVE  RegistryInv'
<1>1. PICK e \in Extensions : e = calls[c].name
  BY RemoveEffect
<1>2. /\ FramesInv /\ c \in DOMAIN calls /\ calls[c].op # "load"
      /\ Only(c) /\ calls'[c].name = e /\ calls'[c].parent = calls[c].parent
      /\ calls'[c].file = calls[c].file /\ calls'[c].op = calls[c].op
      /\ calls'[c].pc \in {"failed", "removeEntries"}
      /\ loadedMeta' = loadedMeta \/ loadedMeta' = [loadedMeta EXCEPT ![e] = 0]
  BY <1>1, RemoveEffect DEF TypeInv
<1>3. \A x \in Live' : x \in Live /\ loadedMeta'[x] = loadedMeta[x]
  BY <1>2 DEF Live, TypeInv, MapTypes
<1>4. LiveFiles'
  <2>1. FilesKept
    BY <1>2, FilesStay
  <2> QED
    BY <1>3, <2>1, VersionsKept DEF RegistryInv, LiveFiles
<1>5. ~Supplied(c)'
  BY <1>2 DEF Supplied
<1> QED
  BY <1>1, <1>2, <1>4, <1>5, RegistryLocal

\* A call begins, or a reload is given up, and the registry is left alone.
LEMMA RegistryStays ==
  ASSUME TypeInv, DataInv, RegistryInv, loadedMeta' = loadedMeta,
         DOMAIN calls \subseteq DOMAIN calls',
         \A d \in DOMAIN calls : \/ calls'[d] = calls[d]
                                 \/ /\ calls'[d].name = calls[d].name
                                    /\ calls'[d].parent = calls[d].parent
                                    /\ calls'[d].file = calls[d].file
                                    /\ calls'[d].pc = "failed",
         \A d \in DOMAIN calls' : d \notin DOMAIN calls =>
           calls'[d].parent = 0 /\ calls'[d].pc \in {"fast", "dependents", "old"}
  PROVE  RegistryInv'
<1>0. 0 \notin DOMAIN calls /\ \A d \in DOMAIN calls : calls[d].name \in Extensions
  BY FrameNumbers, RegContext DEF TypeInv
<1>9. FilesKept
  BY DEF FilesKept
<1>1. /\ Live' = Live /\ LiveFiles'
      /\ \A e \in Extensions : Dependents(e) = {} => Dependents(e)' = {}
  BY <1>9, VersionsQuiet DEF RegistryInv
<1>2. ASSUME NEW d \in DOMAIN calls, NEW x
      PROVE  LastChild(d, x)' <=> LastChild(d, x)
  <2>1. \A y \in DOMAIN calls' : calls'[y].parent = d => y \in DOMAIN calls
    BY <1>0, <1>2
  <2>2. \A y \in DOMAIN calls : calls'[y].parent = calls[y].parent
    OBVIOUS
  <2> QED
    BY <2>1, <2>2 DEF LastChild
<1>3. ASSUME NEW d \in DOMAIN calls',
             Supplied(d)' \/ calls'[d].pc \in {"deps", "await", "removeMeta", "removeOld"}
      PROVE  d \in DOMAIN calls /\ calls'[d] = calls[d]
  BY <1>3 DEF Supplied
<1>4. \A d \in DOMAIN calls' : Supplied(d)' => Needs(calls'[d].file) \subseteq Live'
  BY <1>1, <1>3 DEF RegistryInv, Supplied
<1>5. ASSUME NEW d \in DOMAIN calls', calls'[d].pc \in {"deps", "await"}
      PROVE  LoadsRest(d)'
  <2>1. d \in DOMAIN calls /\ calls'[d] = calls[d]
    BY <1>3, <1>5
  <2>2. LoadsRest(d)
    BY <1>5, <2>1 DEF RegistryInv, LoadsRest
  <2>3. \A x : LastChild(d, x) => x \in DOMAIN calls /\ calls'[x].name = calls[x].name
    BY DEF LastChild
  <2> QED
    BY <1>1, <1>2, <2>1, <2>2, <2>3 DEF LoadsRest
<1>6. ASSUME NEW d \in DOMAIN calls', NEW x \in DOMAIN calls',
             calls'[d].pc = "await", LastChild(d, x)', calls'[x].pc = "ok"
      PROVE  calls'[x].name \in Live'
  <2>1. d \in DOMAIN calls /\ calls'[d] = calls[d]
    BY <1>3, <1>6
  <2>2. LastChild(d, x) /\ x \in DOMAIN calls /\ calls'[x] = calls[x]
    BY <1>2, <1>6, <2>1 DEF LastChild
  <2> QED
    BY <1>1, <1>6, <2>1, <2>2 DEF RegistryInv
<1>7. ASSUME NEW d \in DOMAIN calls', calls'[d].pc \in {"removeMeta", "removeOld"}
      PROVE  d \in DOMAIN calls /\ calls'[d] = calls[d] /\ Dependents(calls[d].name)' = {}
  BY <1>0, <1>1, <1>3, <1>7 DEF RegistryInv
<1> QED
  BY <1>1, <1>4, <1>5, <1>6, <1>7 DEF RegistryInv, LoadsRest

\* Taking the first dependency off the list leaves the others on it.
LEMMA RestOfList ==
  ASSUME NEW t \in Seq(Extensions), t # <<>>, NEW i \in DOMAIN t, t[i] # Head(t)
  PROVE  \E j \in DOMAIN Tail(t) : Tail(t)[j] = t[i]
<1>1. i \in 2..Len(t)
  OBVIOUS
<1>2. Tail(t) \in Seq(Extensions) /\ Len(Tail(t)) = Len(t) - 1 /\ Tail(t)[i - 1] = t[i]
  BY <1>1
<1>3. i - 1 \in DOMAIN Tail(t)
  BY <1>1, <1>2
<1> QED
  BY <1>2, <1>3

\* A nested load begins: its extension is the one taken off the list.
LEMMA RegistryLoadDependency ==
  ASSUME TypeInv, DataInv, RegistryInv, NEW c, LoadDependency(c)
  PROVE  RegistryInv'
<1>0. /\ FramesInv /\ c \in DOMAIN calls /\ calls[c].pc = "deps" /\ calls[c].todo # <<>>
      /\ loadedMeta' = loadedMeta
  BY LoadDependencyEffect DEF TypeInv, mapVars
<1>1. /\ calls[c].todo \in Seq(Extensions)
      /\ 0 \notin DOMAIN calls
      /\ \A d \in DOMAIN calls : calls[d].parent \in Nat /\ d \in Nat /\ calls[d].parent < d
  BY <1>0, FrameNumbers DEF FrameType, FrameOK
<1>4. PICK k \in Nat : k = NewFrame
  BY <1>0, FrameNumbers DEF NewFrame
<1>2. /\ k \notin DOMAIN calls /\ \A d \in DOMAIN calls : d < k
      /\ DOMAIN calls' = DOMAIN calls \cup {k}
      /\ calls'[k].name = Head(calls[c].todo) /\ calls'[k].parent = c
      /\ calls'[k].pc = "fast"
      /\ \A d \in DOMAIN calls : d # c => calls'[d] = calls[d]
      /\ calls'[c].name = calls[c].name /\ calls'[c].parent = calls[c].parent
      /\ calls'[c].file = calls[c].file
      /\ calls'[c].pc = "await" /\ calls'[c].todo = Tail(calls[c].todo)
  BY <1>4, LoadDependencyEffect, ZenonT(60) DEF Grows, Becomes
<1>3. /\ Live' = Live /\ LiveFiles'
      /\ \A e \in Extensions : Dependents(e) = {} => Dependents(e)' = {}
  <2>1. FilesKept
    BY <1>2 DEF FilesKept
  <2> QED
    BY <1>0, <2>1, VersionsQuiet DEF RegistryInv
<1>5. LastChild(c, k)'
  BY <1>1, <1>2, <1>4 DEF LastChild
<1>6. ASSUME NEW x, LastChild(c, x)'
      PROVE  x = k
  <2>1. x \in DOMAIN calls' /\ k <= x
    BY <1>2, <1>6 DEF LastChild
  <2> QED
    BY <1>1, <1>2, <1>4, <2>1
<1>7. ASSUME NEW d \in DOMAIN calls, d # c, NEW x
      PROVE  LastChild(d, x)' <=> LastChild(d, x)
  <2>1. \A y \in DOMAIN calls' : calls'[y].parent = d => y \in DOMAIN calls
    BY <1>2, <1>7
  <2>2. \A y \in DOMAIN calls : calls'[y].parent = calls[y].parent
    BY <1>2
  <2> QED
    BY <1>2, <2>1, <2>2 DEF LastChild
<1>8. \A d \in DOMAIN calls' : Supplied(d)' => Needs(calls'[d].file) \subseteq Live'
  <2> SUFFICES ASSUME NEW d \in DOMAIN calls', Supplied(d)'
               PROVE  Needs(calls'[d].file) \subseteq Live'
    OBVIOUS
  <2>1. d \in DOMAIN calls /\ calls'[d] = calls[d]
    BY <1>2 DEF Supplied
  <2> QED
    BY <1>3, <2>1 DEF RegistryInv, Supplied
<1>9. LoadsRest(c)'
  <2> SUFFICES ASSUME NEW n \in Needs(calls[c].file)
               PROVE  \/ n \in Live
                      \/ \E i \in DOMAIN Tail(calls[c].todo) : Tail(calls[c].todo)[i] = n
                      \/ n = Head(calls[c].todo)
    <3>1. k \in DOMAIN calls'
      BY <1>2
    <3> QED
      BY <1>2, <1>3, <1>5, <3>1 DEF LoadsRest
  <2>1. n \in Live \/ \E i \in DOMAIN calls[c].todo : calls[c].todo[i] = n
    BY <1>0 DEF RegistryInv
  <2> QED
    BY <1>0, <1>1, <2>1, RestOfList
<1>10. ASSUME NEW d \in DOMAIN calls', calls'[d].pc \in {"deps", "await"}
       PROVE  LoadsRest(d)'
  <2>1. CASE d = c
    BY <1>9, <2>1
  <2>2. CASE d # c
    <3>1. d \in DOMAIN calls /\ calls'[d] = calls[d]
      BY <1>2, <1>10, <2>2
    <3>2. LoadsRest(d)
      BY <1>10, <3>1 DEF RegistryInv, LoadsRest
    <3>3. \A x : LastChild(d, x) => x \in DOMAIN calls' /\ calls'[x].name = calls[x].name
      BY <1>2 DEF LastChild
    <3> QED
      BY <1>3, <1>7, <2>2, <3>1, <3>2, <3>3 DEF LoadsRest
  <2> QED
    BY <2>1, <2>2
<1>11. ASSUME NEW d \in DOMAIN calls', NEW x \in DOMAIN calls',
              calls'[d].pc = "await", LastChild(d, x)', calls'[x].pc = "ok"
       PROVE  calls'[x].name \in Live'
  <2>1. d \in DOMAIN calls /\ d # c /\ calls'[d] = calls[d]
    BY <1>2, <1>6, <1>11
  <2>2. LastChild(d, x) /\ x \in DOMAIN calls /\ calls'[x] = calls[x]
    BY <1>2, <1>7, <1>11, <2>1 DEF LastChild
  <2> QED
    BY <1>3, <1>11, <2>1, <2>2 DEF RegistryInv
<1>12. ASSUME NEW d \in DOMAIN calls', calls'[d].pc \in {"removeMeta", "removeOld"}
       PROVE  d \in DOMAIN calls /\ calls'[d] = calls[d] /\ Dependents(calls[d].name)' = {}
  <2>1. d \in DOMAIN calls /\ calls'[d] = calls[d]
    BY <1>2, <1>12
  <2>2. calls[d].name \in Extensions /\ Dependents(calls[d].name) = {}
    BY <1>12, <2>1, RegContext DEF RegistryInv
  <2> QED
    BY <1>3, <2>1, <2>2
<1> QED
  BY <1>3, <1>8, <1>10, <1>11, <1>12 DEF RegistryInv, LoadsRest

\* Every step keeps the registry's invariant.
LEMMA RegistryStep ==
  ASSUME MaxConcurrent = 1, TypeInv, StackInv, DataInv, RegistryInv, [Next]_vars
  PROVE  RegistryInv'
<1>0. FramesInv
  BY DEF TypeInv
<1>1. CASE Scan \/ (\E s \in HostSlots : AttachRegister(s)) \/ UNCHANGED vars
  <2>1. UNCHANGED <<calls, loadedMeta>>
    BY <1>1 DEF Scan, AttachRegister, vars, mapVars
  <2> QED
    BY <2>1, RegistryStays
<1>2. ASSUME NEW e \in Extensions,
             CallLoad(e) \/ CallUnload(e) \/ (\E f \in ReloadFiles[e] : CallReload(e, f))
      PROVE  RegistryInv'
  <2>1. \/ Begins("load", e, None, "fast")
        \/ Begins("unload", e, None, "dependents")
        \/ \E f \in Files : Begins("reload", e, f, "old")
    BY <1>0, <1>2, StartKinds, StartFrame DEF MaybeFile, Pcs, LoadPcs, UnloadPcs, ReloadPcs
  <2>2. loadedMeta' = loadedMeta
    BY <1>2, StartKinds DEF Start, mapVars
  <2>3. /\ DOMAIN calls' = DOMAIN calls \cup {NewFrame}
        /\ \A d \in DOMAIN calls : calls'[d] = calls[d]
        /\ calls'[NewFrame].pc \in {"fast", "dependents", "old"}
        /\ calls'[NewFrame].parent = 0
    BY <2>1 DEF Begins, Grows
  <2> QED
    BY <2>2, <2>3, RegistryStays
<1>3. ASSUME NEW c, DropPrepared(c)
      PROVE  RegistryInv'
  <2>1. c \in DOMAIN calls /\ loadedMeta' = loadedMeta
    BY <1>3 DEF DropPrepared, At, mapVars
  <2>2. Ends(c, "failed")
    BY <1>3, <2>1, RegContext DEF DropPrepared, AbandonReload, Fail, Pcs, LoadPcs
  <2>3. /\ Only(c) /\ calls'[c].name = calls[c].name /\ calls'[c].parent = calls[c].parent
        /\ calls'[c].file = calls[c].file
        /\ calls'[c].pc = "failed"
    BY <2>2 DEF Ends, Becomes
  <2> QED
    BY <2>1, <2>3, RegistryStays DEF Only
<1>4. ASSUME NEW c, Step(c) \/ CommitReload(c)
      PROVE  RegistryInv'
  <2>1. Alone(c)
    BY <1>0, <1>4, StepAlone, CommitAlone
  <2>2. CASE PlainStep(c)
    BY <2>1, <2>2, PlainSteps, RegistryPlain
  <2>3. \/ PlainStep(c)
        \/ FastPath(c) \/ FinishLoad(c) \/ CloseOld(c)
        \/ CheckSlots(c) \/ LoadDependency(c) \/ DependencyReturns(c) \/ OpenLibrary(c)
        \/ CheckDependents(c) \/ StoreMeta(c) \/ StoreReloaded(c)
        \/ RemoveMeta(c) \/ RemoveOld(c)
    BY <1>4 DEF Step, LoadStep, UnloadStep, ReloadStep, PlainStep
  <2> QED
    BY <2>1, <2>2, <2>3, RegistryReturns, RegistryCheckSlots, RegistryLoadDependency,
       RegistryDependencyReturns, RegistryOpenLibrary, RegistryCheckDependents, RegistryStore,
       RegistryRemove
<1> QED
  BY <1>1, <1>2, <1>3, <1>4 DEF Next

\* The registry's invariant holds of every state of every behaviour.
LEMMA RegistryCorrect ==
  ASSUME MaxConcurrent = 1
  PROVE  Spec => []RegistryInv
<1>1. Init => RegistryInv
  BY DEF Init, RegistryInv, LiveFiles, Live
<1>2. TypeInv /\ StackInv /\ DataInv /\ RegistryInv /\ [Next]_vars => RegistryInv'
  BY RegistryStep
<1> QED
  BY <1>1, <1>2, TypeCorrect, StackCorrect, DataCorrect, PTL DEF Spec

\* The registry that callers see is that of the names with metadata.
LEMMA LiveRegistry ==
  ASSUME TypeInv, RegistryInv
  PROVE  /\ Registry!Live = Live
         /\ \A e \in Live : Version[e] = FileOf(loadedMeta[e])
<1>1. \A e \in Live : FileOf(loadedMeta[e]) # None
  BY FrameworkAssumption DEF RegistryInv, LiveFiles, OwnFiles, Live
<1> QED
  BY <1>1 DEF Registry!Live, Version, Live

\* While one call takes a step, no other is replacing its extension.
LEMMA ReplacedAlone ==
  ASSUME NEW c \in DOMAIN calls, Alone(c)
  PROVE  Replaced = IF Replacing(c) THEN {calls[c].name} ELSE {}
BY DEF Replaced, Replacing, Alone, NameOf

\* Nor after it.
LEMMA ReplacedAfter ==
  ASSUME NEW c \in DOMAIN calls, Alone(c), Only(c), calls'[c].name = calls[c].name
  PROVE  Replaced' = IF Replacing(c)' THEN {calls[c].name} ELSE {}
<1>1. \A d \in DOMAIN calls' : d # c => ~Replacing(d)'
  BY DEF Replacing, Alone, Only
<1> QED
  BY <1>1 DEF Replaced, NameOf, Only

\* A step that changes the metadata of one name changes the version of that name.
LEMMA VersionChanges ==
  ASSUME TypeInv, DataInv, FilesKept, NEW e \in Extensions, NEW m,
         loadedMeta' = [loadedMeta EXCEPT ![e] = m]
  PROVE  Version' = [Version EXCEPT ![e] = IF m = 0 THEN None ELSE calls'[m].file]
<1> DEFINE v(d) == IF loadedMeta[d] = 0 THEN None ELSE FileOf(loadedMeta[d])
<1>1. loadedMeta'[e] = m /\ \A d \in Extensions : d # e => loadedMeta'[d] = loadedMeta[d]
  BY DEF TypeInv, MapTypes
<1>2. \A d \in Extensions : d # e /\ loadedMeta[d] # 0
        => FileOf(loadedMeta[d])' = FileOf(loadedMeta[d])
  BY <1>1, VersionsKept DEF Live
<1>3. \A d \in Extensions : v(d)' = IF d = e THEN (IF m = 0 THEN None ELSE calls'[m].file) ELSE v(d)
  BY <1>1, <1>2 DEF FileOf
<1>4. Version = [d \in Extensions |-> v(d)] /\ Version' = [d \in Extensions |-> v(d)']
  BY DEF Version
<1> QED
  BY <1>3, <1>4

\* A load brings a version, and what its file depends on is there.
LEMMA LoadRefines ==
  ASSUME TypeInv, DataInv, RegistryInv, NEW c, Alone(c), StoreMeta(c)
  PROVE  Registry!Next
<1>1. PICK e \in Extensions : e = calls[c].name
  BY StoreEffect
<1>2. /\ c \in DOMAIN calls /\ c # 0
      /\ loadedMeta' = [loadedMeta EXCEPT ![e] = c]
      /\ Only(c) /\ calls'[c].name = e /\ calls'[c].file = calls[c].file
      /\ calls[c].op = "load" /\ calls[c].pc = "storeMeta" /\ calls'[c].op = "load"
      /\ calls[c].file \in FilesOf[e]
  BY <1>1, StoreEffect
<1>3. Replaced = {} /\ Replaced' = {}
  BY <1>1, <1>2, ReplacedAlone, ReplacedAfter DEF Replacing
<1>4. e \notin Live
  BY <1>1, <1>2 DEF DataInv, Knows, HalfLoaded, Live
<1>5. Needs(calls[c].file) \subseteq Live
  BY <1>2 DEF RegistryInv, Supplied
<1>6. Version' = [Version EXCEPT ![e] = calls[c].file]
  BY <1>2, FilesStay, VersionChanges
<1>7. Registry!Needs(calls[c].file) = Needs(calls[c].file)
  BY DEF Registry!Needs, Needs
<1>8. Registry!Load(e)
  BY <1>2, <1>3, <1>4, <1>5, <1>6, <1>7, LiveRegistry DEF Registry!Load
<1> QED
  BY <1>8 DEF Registry!Next

\* The new version takes its place, whatever its file depends on.
LEMMA ReplaceRefines ==
  ASSUME TypeInv, DataInv, NEW c, Alone(c), StoreReloaded(c)
  PROVE  Registry!Next
<1>1. PICK e \in Extensions : e = calls[c].name
  BY StoreEffect
<1>2. /\ c \in DOMAIN calls /\ c # 0
      /\ loadedMeta' = [loadedMeta EXCEPT ![e] = c]
      /\ Only(c) /\ calls'[c].name = e /\ calls'[c].file = calls[c].file
      /\ calls[c].op = "reload" /\ calls[c].pc = "push" /\ calls'[c].pc = "ok"
      /\ calls[c].file \in ReloadFiles[e]
  BY <1>1, StoreEffect
<1>3. Replaced = {e} /\ Replaced' = {}
  BY <1>1, <1>2, ReplacedAlone, ReplacedAfter DEF Replacing
<1>4. Version' = [Version EXCEPT ![e] = calls[c].file]
  BY <1>2, FilesStay, VersionChanges
<1>5. Registry!Replace(e)
  BY <1>2, <1>3, <1>4 DEF Registry!Replace
<1> QED
  BY <1>5 DEF Registry!Next

\* unload and commit_reload take a version away that no version in use depends on.
LEMMA LeaveRefines ==
  ASSUME TypeInv, DataInv, RegistryInv, NEW c, Alone(c), RemoveMeta(c) \/ RemoveOld(c)
  PROVE  Registry!Next \/ UNCHANGED <<Version, Replaced>>
<1>1. PICK e \in Extensions : e = calls[c].name
  BY RemoveEffect
<1>2. /\ c \in DOMAIN calls /\ calls[c].pc \in {"removeMeta", "removeOld"} /\ calls[c].op # "load"
      /\ Only(c) /\ calls'[c].name = e
      /\ calls'[c].file = calls[c].file /\ calls'[c].op = calls[c].op
  BY <1>1, RemoveEffect
<1>3. FilesKept
  BY <1>2, FilesStay
<1>4. Replaced = {} /\ Replaced' = IF Replacing(c)' THEN {e} ELSE {}
  BY <1>1, <1>2, ReplacedAlone, ReplacedAfter DEF Replacing
<1>5. CASE calls'[c].pc = "failed" /\ loadedMeta' = loadedMeta
  BY <1>3, <1>4, <1>5, VersionsQuiet DEF Replacing
<1>6. CASE /\ calls'[c].pc = "removeEntries" /\ loadedMeta[e] # 0
           /\ loadedMeta' = [loadedMeta EXCEPT ![e] = 0]
  <2>1. Version' = [Version EXCEPT ![e] = None]
    BY <1>3, <1>6, VersionChanges
  <2>2. e \in Live /\ \A d \in Live \ {e} : e \notin Needs(FileOf(loadedMeta[d]))
    BY <1>1, <1>2, <1>6 DEF RegistryInv, Dependents, Live
  <2>3. \A f : Registry!Needs(f) = Needs(f)
    BY DEF Registry!Needs, Needs
  <2>4. Registry!Leave(e)
    BY <1>4, <2>1, <2>2, <2>3, LiveRegistry DEF Registry!Leave
  <2>5. CASE calls[c].op = "reload"
    <3>1. Replaced' = {e}
      BY <1>2, <1>4, <1>6, <2>5 DEF Replacing
    <3> QED
      BY <2>4, <3>1 DEF Registry!TakeOut, Registry!Next
  <2>6. CASE calls[c].op # "reload"
    <3>1. Replaced' = Replaced
      BY <1>2, <1>4, <2>6 DEF Replacing
    <3> QED
      BY <2>4, <3>1 DEF Registry!Unload, Registry!Next
  <2> QED
    BY <2>5, <2>6
<1> QED
  BY <1>1, <1>5, <1>6, RemoveEffect

\* No other step of a call shows in the registry.
LEMMA StepQuiet ==
  ASSUME TypeInv, DataInv, NEW c, AnyStep(c),
         ~StoreMeta(c), ~StoreReloaded(c), ~RemoveMeta(c), ~RemoveOld(c)
  PROVE  UNCHANGED <<Version, Replaced>>
<1>1. loadedMeta' = loadedMeta
  <2>1. PlainStep(c) => loadedMeta' = loadedMeta
    BY PlainSteps DEF Plain
  <2>2. ASSUME FastPath(c) \/ FinishLoad(c) \/ CloseOld(c) \/ CheckSlots(c) \/ LoadDependency(c)
                 \/ DependencyReturns(c) \/ OpenLibrary(c) \/ CheckDependents(c) \/ DropPrepared(c)
        PROVE  loadedMeta' = loadedMeta
    BY <2>2 DEF FastPath, FinishLoad, CloseOld, CheckSlots, LoadDependency, DependencyReturns,
                OpenLibrary, CheckDependents, DropPrepared, mapVars
  <2> QED
    BY <2>1, <2>2 DEF AnyStep, Step, LoadStep, UnloadStep, ReloadStep, PlainStep
<1>2. /\ FilesKept
      /\ Replaced' = Replaced
  <2>1. CASE LoadDependency(c)
    <3>1. /\ c \in DOMAIN calls /\ calls[c].pc = "deps"
          /\ Grows("load", Head(calls[c].todo), None, "fast", c)
          /\ \A d \in DOMAIN calls : d # c => calls'[d] = calls[d]
          /\ calls'[c].pc = "await" /\ calls'[c].file = calls[c].file /\ calls'[c].name = calls[c].name
      BY <2>1, LoadDependencyEffect DEF Becomes
    <3>2. \A d \in DOMAIN calls' : Replacing(d)' <=> d \in DOMAIN calls /\ Replacing(d)
      BY <3>1 DEF Grows, Replacing
    <3>3. \A d \in DOMAIN calls : d \in DOMAIN calls' /\ calls'[d].name = calls[d].name
                                    /\ calls'[d].file = calls[d].file
      BY <3>1 DEF Grows
    <3> QED
      BY <3>2, <3>3 DEF FilesKept, Replaced, NameOf
  <2>2. CASE ~LoadDependency(c)
    <3>1. Kept(c)
      BY <2>2, StepKeeps
    <3>2. /\ Only(c) /\ calls'[c].name = calls[c].name
          /\ Replacing(c)' <=> Replacing(c)
          /\ calls[c].pc = "resolve" \/ calls'[c].file = calls[c].file
      BY <3>1 DEF Kept, Resolve, At
    <3>3. \A d \in DOMAIN calls : calls'[d].name = calls[d].name /\ (Replacing(d)' <=> Replacing(d))
      BY <3>2 DEF Only, Replacing
    <3> QED
      BY <3>2, <3>3, FilesStay DEF Only, Replaced, NameOf
  <2> QED
    BY <2>1, <2>2
<1> QED
  BY <1>1, <1>2, VersionsQuiet

\* Nor does the start of a call.
LEMMA BeginQuiet ==
  ASSUME TypeInv, DataInv, NEW e \in Extensions,
         CallLoad(e) \/ CallUnload(e) \/ (\E f \in ReloadFiles[e] : CallReload(e, f))
  PROVE  UNCHANGED <<Version, Replaced>>
<1>1. \/ Begins("load", e, None, "fast")
      \/ Begins("unload", e, None, "dependents")
      \/ \E f \in ReloadFiles[e] : Begins("reload", e, f, "old")
  BY StartKinds, StartFrame DEF TypeInv, MaybeFile, Pcs, LoadPcs, UnloadPcs, ReloadPcs
<1>2. loadedMeta' = loadedMeta
  BY StartKinds DEF Start, mapVars
<1>3. /\ DOMAIN calls' = DOMAIN calls \cup {NewFrame}
      /\ \A d \in DOMAIN calls : calls'[d] = calls[d]
      /\ calls'[NewFrame].pc \in {"fast", "dependents", "old"}
      /\ NewFrame \notin DOMAIN calls
  BY <1>1 DEF Begins, Grows
<1>4. \A d \in DOMAIN calls' : Replacing(d)' <=> d \in DOMAIN calls /\ Replacing(d)
  BY <1>3 DEF Replacing
<1>5. FilesKept /\ Replaced' = Replaced
  BY <1>3, <1>4 DEF FilesKept, Replaced, NameOf
<1> QED
  BY <1>2, <1>5, VersionsQuiet

\* Every step of the framework is a step of the registry, or leaves it as it is.
LEMMA RegistryRefines ==
  ASSUME MaxConcurrent = 1, TypeInv, StackInv, DataInv, RegistryInv, [Next]_vars
  PROVE  Registry!Next \/ UNCHANGED <<Version, Replaced>>
<1>0. FramesInv
  BY DEF TypeInv
<1>1. CASE Scan \/ (\E s \in HostSlots : AttachRegister(s)) \/ UNCHANGED vars
  <2>1. UNCHANGED <<calls, loadedMeta>>
    BY <1>1 DEF Scan, AttachRegister, vars, mapVars
  <2> QED
    BY <2>1 DEF Version, Replaced, Replacing, FileOf, NameOf
<1>2. ASSUME NEW e \in Extensions,
             CallLoad(e) \/ CallUnload(e) \/ (\E f \in ReloadFiles[e] : CallReload(e, f))
      PROVE  UNCHANGED <<Version, Replaced>>
  BY <1>2, BeginQuiet
<1>3. ASSUME NEW c, AnyStep(c)
      PROVE  Registry!Next \/ UNCHANGED <<Version, Replaced>>
  <2>1. CASE StoreMeta(c) \/ StoreReloaded(c) \/ RemoveMeta(c) \/ RemoveOld(c)
    <3>1. Alone(c)
      BY <1>0, <2>1, StepAlone DEF Step, LoadStep, UnloadStep, ReloadStep
    <3> QED
      BY <2>1, <3>1, LoadRefines, ReplaceRefines, LeaveRefines
  <2>2. CASE ~StoreMeta(c) /\ ~StoreReloaded(c) /\ ~RemoveMeta(c) /\ ~RemoveOld(c)
    BY <1>3, <2>2, StepQuiet
  <2> QED
    BY <2>1, <2>2
<1> QED
  BY <1>1, <1>2, <1>3 DEF Next, AnyStep

\* With one call at a time the framework implements the registry, for every
\* dependency graph of every set of files: a load brings a file only after the
\* extensions that this file depends on, and unload and reload take away no version
\* that a version in use depends on.  What the new version of a reload depends on may
\* be missing: the registry's Replace does not ask for it, as commit_reload does not.
THEOREM RefinesRegistry ==
  ASSUME MaxConcurrent = 1
  PROVE  Spec => ImplementsRegistry
<1>1. Init => Registry!Init
  BY DEF Init, Registry!Init, Version, Replaced
<1>2. TypeInv /\ StackInv /\ DataInv /\ RegistryInv /\ [Next]_vars
        => [Registry!Next]_<<Version, Replaced>>
  BY RegistryRefines
<1> QED
  BY <1>1, <1>2, TypeCorrect, StackCorrect, DataCorrect, RegistryCorrect, PTL
     DEF Spec, ImplementsRegistry, Registry!Spec

\* What a version depends on is there, unless it came with a reload.
LoadedSupplied ==
  \A e \in Live :
    LET f == FileOf(loadedMeta[e]) IN f \notin ReloadFiles[e] => Needs(f) \subseteq Live

RegistrySupplied ==
  \A e \in Registry!Live : Version[e] \notin ReloadFiles[e] => Needs(Version[e]) \subseteq Registry!Live

\* The registry keeps it so.
LEMMA RegistrySupplies ==
  ASSUME RegistrySupplied, [Registry!Next]_<<Version, Replaced>>
  PROVE  RegistrySupplied'
<1>0. /\ Version = [e \in Extensions |-> Version[e]]
      /\ \A f : Registry!Needs(f) = Needs(f)
  BY DEF Version, Registry!Needs, Needs
<1>1. CASE UNCHANGED <<Version, Replaced>>
  BY <1>1 DEF RegistrySupplied, Registry!Live
<1>2. ASSUME NEW e \in Extensions, Registry!Load(e)
      PROVE  RegistrySupplied'
  <2>1. PICK f \in FilesOf[e] : Needs(f) \subseteq Registry!Live /\ Version' = [Version EXCEPT ![e] = f]
    BY <1>0, <1>2 DEF Registry!Load
  <2>2. f # None /\ e \notin Registry!Live
    BY <1>2, FrameworkAssumption DEF Registry!Load
  <2>3. Version'[e] = f /\ \A d \in Extensions : d # e => Version'[d] = Version[d]
    BY <1>0, <2>1
  <2>4. Registry!Live' = Registry!Live \cup {e}
    BY <2>2, <2>3 DEF Registry!Live
  <2> QED
    BY <2>1, <2>2, <2>3, <2>4 DEF RegistrySupplied, Registry!Live
<1>3. ASSUME NEW e \in Extensions, Registry!Leave(e)
      PROVE  RegistrySupplied'
  <2>1. \A d \in Registry!Live \ {e} : e \notin Needs(Version[d])
    BY <1>0, <1>3 DEF Registry!Leave
  <2>2. Version'[e] = None /\ \A d \in Extensions : d # e => Version'[d] = Version[d]
    BY <1>0, <1>3 DEF Registry!Leave
  <2>3. Registry!Live' = Registry!Live \ {e}
    BY <2>2 DEF Registry!Live
  <2> QED
    BY <2>1, <2>2, <2>3 DEF RegistrySupplied, Registry!Live
<1>4. ASSUME NEW e \in Extensions, Registry!Replace(e)
      PROVE  RegistrySupplied'
  <2>1. PICK f \in ReloadFiles[e] : Version' = [Version EXCEPT ![e] = f]
    BY <1>4 DEF Registry!Replace
  <2>2. f # None
    BY FrameworkAssumption
  <2>3. Version'[e] = f /\ \A d \in Extensions : d # e => Version'[d] = Version[d]
    BY <1>0, <2>1
  <2>4. Registry!Live' = Registry!Live \cup {e}
    BY <2>2, <2>3 DEF Registry!Live
  <2> QED
    BY <2>1, <2>3, <2>4 DEF RegistrySupplied, Registry!Live
<1> QED
  BY <1>1, <1>2, <1>3, <1>4 DEF Registry!Next, Registry!Unload, Registry!TakeOut

\* With one call at a time, a version that load brought has every extension its file
\* depends on for as long as it is in use, whatever is loaded, unloaded and reloaded
\* meanwhile.  Only a reload leaves a version without them: its own new one.
THEOREM LoadedKeepTheirDependencies ==
  ASSUME MaxConcurrent = 1
  PROVE  Spec => []LoadedSupplied
<1>1. Init => RegistrySupplied
  BY DEF Init, RegistrySupplied, Registry!Live, Version
<1>2. TypeInv /\ StackInv /\ DataInv /\ RegistryInv /\ RegistrySupplied /\ [Next]_vars
        => RegistrySupplied'
  BY RegistryRefines, RegistrySupplies
<1>3. TypeInv /\ RegistryInv /\ RegistrySupplied => LoadedSupplied
  BY LiveRegistry DEF RegistrySupplied, LoadedSupplied
<1> QED
  BY <1>1, <1>2, <1>3, TypeCorrect, StackCorrect, DataCorrect, RegistryCorrect, PTL DEF Spec
=============================================================================
