-------------------------- MODULE MediaProperties ---------------------------
(***************************************************************************)
(* What is claimed of the way of a stream's samples.                       *)
(***************************************************************************)
EXTENDS MediaPath

Running == {"top", "seeks", "read", "submit"}

\* Where the data chunk really begins.
DataOffset(f) ==
  12 + 8 + MapThenSumSet(LAMBDA i : 8 + f.chunks[i].len, 1..(DataChunk(f) - 1))

\* The frame counter of the loop, which the reported position is made of, is
\* that of the codec but for blocks a lost device swallowed; and where a buffer
\* holds whole frames, the reader is at the codec's frame until the file is
\* exhausted.
CodecInStep ==
  phase \in Running =>
    /\ wav.position = decoded + dropped + Len(block)
    /\ BufCap % Bpf = 0 =>
         \/ reader.pos = DataStart(file) + wav.position * Bpf
         \/ reader.pos >= file.size

\* A stream ends only when the frames its header announces were read, or the
\* file has no whole frame left, or a read failed: a read that a buffer
\* boundary cuts short is never taken for the end.
ReadsToTheEnd ==
  phase = "ended" => AtTotal(wav) \/ reader.pos >= file.size \/ failed

\* The k-th output frame since the chain was set up lies where the k-th step
\* of the source rate falls, and as many are made as the submitted frames
\* allow, however reads, seeks and buffer boundaries cut them into blocks.
SplitIndependent ==
  phase \in Running =>
    LET in  == chain.source.rate
        out == chain.spec.rate
    IN  /\ chain.made = IF in = out THEN chain.fed
                        ELSE IF chain.fed = 0 THEN 0 ELSE CeilDiv((chain.fed - 1) * out, in)
        /\ \A k \in DOMAIN sent :
             LET j == chain.made - Len(sent) + k - 1
             IN  /\ sent[k].base = (j * in) \div out
                 /\ sent[k].phase = (j * in) % out
                 /\ sent[k].phase # 0 => sent[k].next = sent[k].base + 1

\* The workspace made for a full block has room for every block, whatever
\* mode the session was replanned to.
WorkspaceSuffices == phase # "tooSmall"

\* A device that offers the stream's own format is not made to convert: among
\* the candidates of the preference and the priority that were chosen, one
\* without a conversion wins, unless another rate is so near that rounding
\* makes its loss none.
Near(c)     == /\ c.spec.channels = SourceSpec.channels
               /\ c.spec.encoding = SourceSpec.encoding
               /\ c.spec.rate # SourceSpec.rate
               /\ RateLoss(SourceSpec.rate, c.spec.rate) = 0
Rivals      == {c \in Candidates(snapshot, SourceSpec, prefs) :
                  c.pref = plan.pref /\ c.priority = plan.priority}
NoNeedlessConversion ==
  phase \in Running =>
    /\ \A c \in Candidates(snapshot, SourceSpec, prefs) : c.pref >= plan.pref
    /\ ( /\ \E c \in Rivals : c.spec = SourceSpec
         /\ ~\E c \in Rivals : Near(c) ) => plan.spec = SourceSpec

\* Samples near the borders of a depth.
Probes(depth) ==
  LET s == DecodeScale(depth)
  IN  {-s, 1 - s, -1, 0, 1, (s \div 2) - 1, s \div 2, (s \div 2) + 1, s - 2, s - 1}

\* A decoded sample is encoded to a code of the device's range, in order and
\* within one and a half steps of its value, silence as silence.
EncodingFaithful ==
  phase \in Running /\ ~IsFloat(plan.spec.encoding) /\ Depth(file) <= 16 =>
    LET e     == plan.spec.encoding
        scale == DecodeScale(Depth(file))
        half  == 2^(Bits(e) - 1)
        zero  == IF IsSigned(e) THEN 0 ELSE half
        Code(v) == WriteSample(v, scale, e) - zero
    IN  /\ Code(0) = 0
        /\ \A v \in Probes(Depth(file)) :
             /\ Code(v) \in (-half)..(half - 1)
             /\ 2 * (Code(v) * scale - v * half) \in (-3 * scale)..(3 * scale)
             /\ \A w \in Probes(Depth(file)) : v <= w => Code(v) <= Code(w)

\* Every stream ends: each turn of the loop reads something or is the last.
StreamEnds == <>(phase \in Final)

\* Every frame handed to the output is one of the data chunk.
DeliversTheData ==
  \A i \in DOMAIN block :
    block[i] >= DataOffset(file)
      /\ block[i] + Bpf <= DataOffset(file) + file.chunks[DataChunk(file)].len
=============================================================================
