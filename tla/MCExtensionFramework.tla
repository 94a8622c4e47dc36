------------------------ MODULE MCExtensionFramework ------------------------
(***************************************************************************)
(* Small instances of ExtensionFramework for TLC.  The host attaches the   *)
(* slot "Codec"; the first version of x defines the slot "XSlot".          *)
(***************************************************************************)
EXTENDS FrameworkProperties

CONSTANTS x, y, z, w, fx, fx2, fy, fz

MCFilesOf == [e \in Extensions |-> CASE e = x -> {fx} [] e = y -> {fy} [] e = z -> {fz}
                                     [] OTHER -> {}]
MCReloadFiles == [e \in Extensions |-> IF e = x THEN {fx2} ELSE {}]

\* One call at a time: y depends on x and on the host's slot.  The new version
\* of x depends on w, which is not on disk, and defines another slot.
MCDependsOn == [f \in Files |-> CASE f = fy -> <<x>> [] f = fx2 -> <<w>> [] OTHER -> <<>>]
MCNeedsSlots == [f \in Files |-> IF f = fy THEN {"Codec"} ELSE {}]
MCOwnSlots == [f \in Files |-> CASE f = fx -> {"XSlot"} [] f = fx2 -> {"NewSlot"} [] OTHER -> {}]
MCProvides == [f \in Files |-> {"Codec", "XSlot", "NewSlot"}]

\* Overlapping calls: y and z depend on each other, y on x first.
MCCycle == [f \in Files |-> CASE f = fy -> <<x, z>> [] f \in {fz, fx2} -> <<y>> [] OTHER -> <<>>]
MCNoSlots == [f \in Files |-> {}]
=============================================================================
