--------------------------- MODULE MCIpcCommands ----------------------------
(***************************************************************************)
(* Small instances of the command handling for TLC.                        *)
(***************************************************************************)
EXTENDS IpcCommandProperties

CONSTANTS c1, c2, u1
=============================================================================
