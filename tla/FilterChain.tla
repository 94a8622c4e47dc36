---------------------------- MODULE FilterChain -----------------------------
(***************************************************************************)
(* The FilterChain of one stream, with no filters in it (the engine builds *)
(* it with none): conversion of the sample rate and encoding of the result *)
(* into the native mode of the device.                                     *)
(*                                                                         *)
(* A frame is named by how many frames were submitted before it since the  *)
(* chain was built or reconfigured.  resample_position is kept in units of *)
(* 1/output rate, which makes it an exact integer: the model has no        *)
(* floating point rounding.  The channels of a frame go the same way as    *)
(* the frame, so an output frame is the pair of source frames it lies      *)
(* between and its phase there.                                            *)
(***************************************************************************)
EXTENDS OutputPlanner

\* The chain: source and target specification, resample_position,
\* has_previous_frame, which frame previous_frame is a copy of, and, for the
\* names, the frames submitted and the frames made so far.
BuildChain(source, spec) ==
  [source |-> source, spec |-> spec, rpos |-> 0, has |-> FALSE, prev |-> 0,
   fed |-> 0, made |-> 0]

ReconfigureOutput(c, spec) ==
  [c EXCEPT !.spec = spec, !.rpos = 0, !.has = FALSE, !.prev = 0, !.fed = 0, !.made = 0]

SameRate(c) == c.source.rate = c.spec.rate

CeilDiv(n, d) == (n + d - 1) \div d

\* Frames the conversion of n frames may need.
NeededFrames(c, n) == CeilDiv(n * c.spec.rate, c.source.rate) + 2

\* PcmBuffer for blocks of up to `samples` samples: workspace_requirements and
\* with_processing_capacity.
Workspace(c, samples) ==
  LET frames == NeededFrames(c, samples \div c.source.channels)
  IN  [decode     |-> samples,
       processing |-> Max({samples, frames * c.spec.channels}),
       output     |-> frames * SpecBytes(c.spec)]

-----------------------------------------------------------------------------
(* Rate conversion of a block of n frames.                                 *)

\* convert_f32_stateless: with equal rates an output frame is its source frame.
Stateless(c, n) ==
  [frames |-> [k \in 1..n |->
                [base |-> c.fed + k - 1, next |-> c.fed + Min({k, n - 1}), phase |-> 0]],
   chain  |-> [c EXCEPT !.fed = @ + n, !.made = @ + n]]

\* The bug of an index into the block that takes previous_frame for part of it.
SequenceFrameShifted(c, n, off, i) ==
  IF off = 1 /\ i = 0 THEN c.prev ELSE c.fed + Min({i, n - 1})

\* The frame at index i of the sequence convert_f32_stateful works on:
\* previous_frame, if there is one, and then the block.
SequenceFrame(c, n, off, i) ==
  IF off = 1 /\ i = 0 THEN c.prev ELSE c.fed + Min({i - off, n - 1})

\* convert_f32_stateful: the loop makes a frame for every step of the source
\* rate that still has a frame after it, up to the room there is.
Stateful(c, n, room) ==
  LET in  == c.source.rate
      out == c.spec.rate
      off == IF c.has THEN 1 ELSE 0
      len == n + off
      At(k) == c.rpos + k * in
      count == Cardinality({k \in 0..(room - 1) : At(k) + out < len * out})
      Frame(i) == SequenceFrame(c, n, off, i)
      previous == Min({Max({(At(count) \div out) - off, 0}), n - 1})
  IN  [frames |-> [k \in 1..count |->
                    [base  |-> Frame(At(k - 1) \div out),
                     next  |-> Frame((At(k - 1) \div out) + 1),
                     phase |-> At(k - 1) % out]],
       chain  |-> [c EXCEPT !.has = TRUE, !.prev = c.fed + previous,
                            !.rpos = Max({0, At(count) - (len - 1) * out}),
                            !.fed = @ + n, !.made = @ + count]]

Room(c, work) == work.processing \div c.spec.channels

Required(c, n) == IF SameRate(c) THEN n ELSE NeededFrames(c, n)

Convert(c, n, work) ==
  IF SameRate(c) THEN Stateless(c, n) ELSE Stateful(c, n, Room(c, work))

\* The early returns of process_workspace, process_to_output and encode_f32.
Fits(c, n, work) ==
  /\ n * c.source.channels <= work.decode
  /\ n * c.source.channels <= work.processing
  /\ Required(c, n) <= Room(c, work)
  /\ Len(Convert(c, n, work).frames) * SpecBytes(c.spec) <= work.output

-----------------------------------------------------------------------------
(* Encoding of one sample.  A sample is v / scale with |v| <= scale;       *)
(* f64::round rounds halves away from zero.                                *)

Clamp(v, lo, hi) == Max({lo, Min({v, hi})})

RoundUp(n, d) == (n \div d) + (IF 2 * (n % d) >= d THEN 1 ELSE 0)
Round(n, d)   == IF n >= 0 THEN RoundUp(n, d) ELSE -RoundUp(-n, d)

\* The bug of one scale for both signs and no clamp after it.
WriteSampleUnclamped(v, scale, e) ==
  IF IsSigned(e) THEN Round(v * 2^(Bits(e) - 1), scale)
                 ELSE Round((v + scale) * 2^Bits(e), 2 * scale)

\* write_sample; for a float encoding the sample itself.
WriteSample(v, scale, e) ==
  LET half == 2^(Bits(e) - 1)
      x    == Clamp(v, -scale, scale)
  IN  IF IsFloat(e) THEN x
      ELSE IF IsSigned(e)
           THEN Clamp(Round(x * (IF x < 0 THEN half ELSE half - 1), scale), -half, half - 1)
           ELSE Clamp(Round((x + scale) * (2 * half - 1), 2 * scale), 0, 2 * half - 1)
=============================================================================
