---------------------------- MODULE MCStreamEngine --------------------------
(***************************************************************************)
(* Small instances of StreamEngine for TLC.                                *)
(***************************************************************************)
EXTENDS StreamProperties, TLC

\* Streams and calls are interchangeable when all calls are of one kind.
MCSymmetry == Permutations(Streams) \cup Permutations(Runs)
=============================================================================
