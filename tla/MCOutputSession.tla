-------------------------- MODULE MCOutputSession ---------------------------
(***************************************************************************)
(* Two devices of one name and three formats, two of them of one width, so *)
(* that ids can collide and a bound format can be stale.  The ring holds   *)
(* less than the track, a block can be as large as the ring.               *)
(***************************************************************************)
EXTENDS OutputProperties

CONSTANTS u1, u2, i8, u8, f32

MCUnits   == {u1, u2}
MCName    == [u \in MCUnits |-> "dac"]
MCFormats == {i8, u8, f32}
MCWidth   == [f \in MCFormats |-> IF f = f32 THEN 4 ELSE 1]
MCConfigs == {<<>>, <<i8>>, <<u8>>, <<u8, f32>>}
=============================================================================
