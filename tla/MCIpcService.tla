---------------------------- MODULE MCIpcService ----------------------------
(***************************************************************************)
(* Small instances of the IPC service for TLC.                             *)
(***************************************************************************)
EXTENDS IpcProperties

CONSTANTS p1, p2, c1, c2
=============================================================================
