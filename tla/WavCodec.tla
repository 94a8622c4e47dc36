------------------------------ MODULE WavCodec ------------------------------
(***************************************************************************)
(* The WAV codec and the buffered reader it reads a file through.          *)
(*                                                                         *)
(* A file is a record: whether it starts with RIFF...WAVE, its chunks in   *)
(* order (the id and the length each header announces), the fields of its  *)
(* format chunk, the number of bytes it really has, and the confidence     *)
(* another registered codec claims it with.  A byte is named by its        *)
(* offset, a decoded frame by the offset of its first byte, so what is     *)
(* tracked is which bytes of the file reach the engine.                    *)
(***************************************************************************)
EXTENDS Integers, Sequences, FiniteSets, FiniteSetsExt

CONSTANT BufCap      \* capacity of std::io::BufReader (8192 in the program)

ASSUME BufCapAssumption == BufCap \in Nat \ {0}

-----------------------------------------------------------------------------
(* BufReader over the file: win is the end of what is buffered.            *)

FillBuf(r, size) ==
  IF r.win > r.pos THEN r
                   ELSE [r EXCEPT !.win = Max({r.pos, Min({r.pos + BufCap, size})})]

\* The bug a read that refills only an untouched buffer would be.
ReadBytesOnce(r, n, size) ==
  LET q   == IF r.pos = 0 THEN FillBuf(r, size) ELSE r
      got == Min({n, q.win - q.pos})
  IN  [got |-> got, reader |-> [q EXCEPT !.pos = @ + got]]

\* One call of the read callback: what is buffered, and no more.
ReadBytes(r, n, size) ==
  LET q   == FillBuf(r, size)
      got == Min({n, q.win - q.pos})
  IN  [got |-> got, reader |-> [q EXCEPT !.pos = @ + got]]

\* A seek always discards the buffer.
SeekBytes(p) == [pos |-> p, win |-> p]

-----------------------------------------------------------------------------
(* The header.  Channels and bit depth are cut to eight bits when read.    *)

Byte(x)     == x % 256
Channels(f) == Byte(f.channels)
Depth(f)    == Byte(f.depth)
BytesPerFrame(f) == Channels(f) * (Depth(f) \div 8)

DataChunks(f) == {i \in DOMAIN f.chunks : f.chunks[i].id = "data"}
DataChunk(f)  == Min(DataChunks(f))

\* parse_header stops at the first data chunk.  It skips a chunk by its
\* length and not by its padding, so behind a chunk of odd length the ids are
\* read one byte off and no chunk is found any more.
Parses(f) ==
  /\ f.riff
  /\ DataChunks(f) # {}
  /\ \A i \in 1..(DataChunk(f) - 1) : f.chunks[i].len % 2 = 0
  /\ \E i \in 1..(DataChunk(f) - 1) : f.chunks[i].id = "fmt"
  /\ f.pcm
  /\ Depth(f) \in {8, 16, 24, 32}
  /\ Channels(f) \in 1..8

\* Where the parser says the data begins: the position of the temporary stream
\* it parses with, which nothing ever advances.
DataStart(f) == 0

TotalFrames(f) == f.chunks[DataChunk(f)].len \div BytesPerFrame(f)

\* Confidence of probe: the engine passes no file name.
Probe(f) == IF f.riff THEN 95 ELSE 0

-----------------------------------------------------------------------------
(* One open stream: frames in all, frames read so far.                     *)

OpenStream(f) == [total |-> TotalFrames(f), position |-> 0]

AtTotal(w) == w.total > 0 /\ w.position >= w.total

\* seek() clamps to the last frame of a stream whose length it knows.
SeekTarget(w, frame) == IF w.total > 0 THEN Min({frame, w.total - 1}) ELSE frame

\* A sample v of depth bits is decoded to v / DecodeScale(depth).
DecodeScale(depth) == 2^(depth - 1)
=============================================================================
